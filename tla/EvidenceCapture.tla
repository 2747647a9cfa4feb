-------------------------- MODULE EvidenceCapture --------------------------
(***************************************************************************)
(* Collector.capture of src/iacreview/evidence/collector.py: one API       *)
(* resource fetched page by page within a byte budget, every way a page    *)
(* can be incomplete recorded, the content scanned by the security gate,   *)
(* and one evidence envelope made of each page that the gate lets through. *)
(*                                                                         *)
(* The transport is the environment: every fetch is answered by any member *)
(* of Answers.  A body is its size, what the gate finds in it, whether it  *)
(* parses, and how many checks of the App it reports.                      *)
(***************************************************************************)
EXTENDS Integers, Sequences, FiniteSets

CONSTANTS
    Answers,     \* what the transport may answer to a fetch
    MaxPage,     \* max_page_bytes
    MaxTotal,    \* max_total_bytes
    MaxPages     \* max_pages

Contents == {"plain", "secret", "escaped", "opaque", "binary"}
Got == {"raised", "nothing", "answer"}
NoStatus == 0
NoBody == -1

(* One answer: how the call ended, the HTTP status, the number of body     *)
(* bytes, what the bytes and the kept headers hold, whether Content-Length *)
(* disagrees, whether the body parses, whether a GraphQL document reports  *)
(* errors or a next page, where the Link header points, and the number of  *)
(* checks of the App in the body.                                          *)
AnswerType == [got : Got, status : {NoStatus, 200, 500},
               size : Nat \cup {NoBody}, text : Contents, headers : Contents,
               cut : BOOLEAN, parses : BOOLEAN, more : BOOLEAN,
               link : {"none", "same", "elsewhere"}, checks : Nat]

ASSUME CaptureAssumption ==
    /\ Answers \subseteq AnswerType
    /\ MaxPage \in Nat \ {0}
    /\ MaxTotal \in Nat \ {0}
    /\ MaxPages \in Nat \ {0}

CaptureErrors == {"http_error", "response_missing", "body_missing",
    "body_truncated", "byte_limit_exceeded", "page_limit_reached",
    "pagination_next_refused", "graphql_flag", "transport_error",
    "body_not_parsed", "sibling_page_refused"}

\* Stands in a page that was never asked for.
NoAnswer == [got |-> "nothing", status |-> NoStatus, size |-> NoBody,
             text |-> "plain", headers |-> "plain", cut |-> FALSE,
             parses |-> FALSE, more |-> FALSE, link |-> "none", checks |-> 0]

VARIABLES
    endpoint,   \* "rest", or "graphql": no Link header is followed
    phase,      \* "fetch": in the loop; "finish": after it; "captured"
    pages,      \* the pending page records, in the order of the fetches
    total,      \* body bytes accepted so far
    evidence,   \* CaptureResult.evidence, by page index
    refusals    \* CaptureResult.refusals: page indices

captureVars == <<endpoint, phase, pages, total, evidence, refusals>>

Graphql == endpoint = "graphql"

PageType == [answer : Answers \cup {NoAnswer}, asked : BOOLEAN, raw : BOOLEAN,
             errors : SUBSET CaptureErrors, has_next : BOOLEAN]

EnvelopeType == [raw : BOOLEAN, status : {NoStatus, 200, 500},
                 errors : SUBSET CaptureErrors, pagination_complete : BOOLEAN,
                 has_next : BOOLEAN, complete : BOOLEAN]

-----------------------------------------------------------------------------
(* secretgate.scan *)

\* Binary bytes and base64 that does not decode are refused unscanned; a
\* secret is found as written or, in the decoded view, behind \u escapes.
Scan(text) == CASE text = "plain" -> "CLEAN"
                [] text \in {"secret", "escaped"} -> "DETECTED"
                [] text \in {"opaque", "binary"} -> "UNSCANNABLE"

Storable(text) == Scan(text) = "CLEAN"

-----------------------------------------------------------------------------
(* One page *)

\* Faulty variant: the total budget does not shrink as pages arrive.
Remaining_PerPage(spent) == IF MaxPage < MaxTotal THEN MaxPage ELSE MaxTotal

\* request.max_bytes before max(remaining, 0).
Remaining(spent) ==
    IF MaxPage < MaxTotal - spent THEN MaxPage ELSE MaxTotal - spent

Responded(a) == a.got = "answer" /\ a.status # NoStatus

\* The bytes are kept: a body within the limit, whatever the HTTP status.
BodyKept(a, spent) ==
    /\ Responded(a)
    /\ a.size # NoBody
    /\ a.size <= Remaining(spent)

\* Faulty variant: a GraphQL document is not searched for hasNextPage.
ParseFlags_NoFlags(a) ==
    {f \in {"body_not_parsed"} : ~ a.parses}

ParseFlags(a) ==
    {f \in {"body_not_parsed", "graphql_flag"} :
        \/ f = "body_not_parsed" /\ ~ a.parses
        \/ f = "graphql_flag" /\ Graphql /\ a.parses /\ a.more}

\* page["errors"] when the body of the loop is done with the page.
PageErrors(a, spent) ==
    CASE a.got = "raised" -> {"transport_error"}
      [] a.got # "raised" /\ ~ Responded(a) -> {"response_missing"}
      [] Responded(a) /\ a.size = NoBody -> {"body_missing"}
      [] Responded(a) /\ a.size # NoBody /\ ~ BodyKept(a, spent) ->
             {"byte_limit_exceeded"}
      [] BodyKept(a, spent) ->
             (IF a.cut THEN {"body_truncated"} ELSE {}) \cup
             (IF a.status # 200 THEN {"http_error"} ELSE ParseFlags(a))

\* next_endpoint is read only on a 200 answer of a REST endpoint.
LinkRead(a, spent) == ~ Graphql /\ BodyKept(a, spent) /\ a.status = 200

HasNext(a, spent) == LinkRead(a, spent) /\ a.link # "none"

PageOf(a, spent) ==
    [answer |-> a, asked |-> TRUE, raw |-> BodyKept(a, spent),
     errors |-> PageErrors(a, spent), has_next |-> HasNext(a, spent)]

\* Whether the loop goes on to the next endpoint after this page.
Continues(a, spent, index) ==
    /\ HasNext(a, spent)
    /\ a.link = "same"
    /\ PageErrors(a, spent) = {}
    /\ index < MaxPages

\* capture_errors: why the loop stopped although a next page was offered.
StopReason(a, spent, index) ==
    IF ~ HasNext(a, spent) THEN {}
    ELSE IF a.link = "elsewhere" THEN {"pagination_next_refused"}
    ELSE IF PageErrors(a, spent) = {} /\ index >= MaxPages
         THEN {"page_limit_reached"}
    ELSE {}

-----------------------------------------------------------------------------
(* The loop *)

CaptureInit ==
    /\ endpoint \in {"rest", "graphql"}
    /\ phase = "fetch"
    /\ pages = <<>>
    /\ total = 0
    /\ evidence = <<>>
    /\ refusals = {}

\* The budget is spent: the page is recorded without asking the transport.
BudgetSpent ==
    /\ phase = "fetch"
    /\ Remaining(total) <= 0
    /\ pages' = Append(pages, [answer |-> NoAnswer, asked |-> FALSE,
                               raw |-> FALSE, has_next |-> FALSE,
                               errors |-> {"byte_limit_exceeded"}])
    /\ phase' = "finish"
    /\ UNCHANGED <<endpoint, total, evidence, refusals>>

\* One round of the loop.  The errors of the capture as a whole go to the
\* last page, which is this one whenever there are any.
Fetch(a) ==
    /\ phase = "fetch"
    /\ Remaining(total) > 0
    /\ LET page == PageOf(a, total)
           index == Len(pages) + 1
       IN  /\ pages' = Append(pages, [page EXCEPT !.errors =
                                  @ \cup StopReason(a, total, index)])
           /\ total' = IF page.raw THEN total + a.size ELSE total
           /\ phase' = IF Continues(a, total, index)
                       THEN "fetch" ELSE "finish"
    /\ UNCHANGED <<endpoint, evidence, refusals>>

-----------------------------------------------------------------------------
(* After the loop: envelopes, gate, siblings *)

PaginationComplete == /\ ~ pages[Len(pages)].has_next
                      /\ \A i \in DOMAIN pages : pages[i].errors = {}

StatusOf(page) == IF page.asked /\ Responded(page.answer)
                  THEN page.answer.status ELSE NoStatus

\* envelope.expected_completeness of API evidence; raw content is CLEAN
\* exactly when there is any.
ExpectedCompleteness(e) == /\ e.raw
                           /\ e.errors = {}
                           /\ e.status = 200
                           /\ e.pagination_complete

Completed(e) == [e EXCEPT !.complete = ExpectedCompleteness(e)]

Record(page) ==
    Completed([raw |-> page.raw, status |-> StatusOf(page),
               errors |-> page.errors, has_next |-> page.has_next,
               pagination_complete |-> PaginationComplete,
               complete |-> FALSE])

\* _gate: the raw bytes and the envelope, each scanned on its own.
Refused(page) ==
    \/ page.raw /\ ~ Storable(page.answer.text)
    \/ StatusOf(page) # NoStatus /\ ~ Storable(page.answer.headers)

\* Faulty variant: pages beside a refused one keep their status.
SiblingOf_Untouched(e) == e

SiblingOf(e) ==
    Completed([e EXCEPT !.errors = @ \cup {"sibling_page_refused"}])

Finish ==
    /\ phase = "finish"
    /\ LET bad == {i \in DOMAIN pages : Refused(pages[i])}
       IN  /\ refusals' = bad
           /\ evidence' = [i \in DOMAIN pages \ bad |->
                  IF bad = {} THEN Record(pages[i])
                  ELSE SiblingOf(Record(pages[i]))]
    /\ phase' = "captured"
    /\ UNCHANGED <<endpoint, pages, total>>

CaptureNext == BudgetSpent \/ (\E a \in Answers : Fetch(a)) \/ Finish

-----------------------------------------------------------------------------
(* What a capture promises *)

CaptureTypeOK ==
    /\ endpoint \in {"rest", "graphql"}
    /\ phase \in {"fetch", "finish", "captured"}
    /\ pages \in Seq(PageType)
    /\ total \in 0..MaxTotal
    /\ DOMAIN evidence \subseteq DOMAIN pages
    /\ \A i \in DOMAIN evidence : evidence[i] \in EnvelopeType
    /\ refusals \subseteq DOMAIN pages

\* Every page of the answer was received: the transport was asked for each,
\* each came with status 200, undamaged and readable, and no page was offered
\* that was not fetched: the last of a REST answer has no next link, and no
\* document of a GraphQL answer reports a next page (or errors).
WholeAnswer ==
    /\ \A i \in DOMAIN pages :
           /\ pages[i].asked
           /\ pages[i].answer.got = "answer"
           /\ pages[i].answer.status = 200
           /\ pages[i].answer.size \in 0..MaxPage
           /\ ~ pages[i].answer.cut
           /\ pages[i].answer.parses
           /\ Graphql => ~ pages[i].answer.more
    /\ ~ Graphql => pages[Len(pages)].answer.link = "none"
=============================================================================
