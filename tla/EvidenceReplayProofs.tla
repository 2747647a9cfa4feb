------------------------ MODULE EvidenceReplayProofs ------------------------
(***************************************************************************)
(* Proofs about EvidenceReplay, for every transport, limit, replay         *)
(* specification and number of changes to the store.                       *)
(*                                                                         *)
(* The theorems are about what a page of a capture may still hide once the *)
(* capture is over, so they rest on one invariant of the capture loop: a   *)
(* page without errors was received whole, and every page but the last     *)
(* offers another one.  Binding then only has to find, through V5, that no *)
(* page of the capture is missing; and a verdict, that the pages it read   *)
(* are those that were captured, in their order.  The last theorem         *)
(* compares two replays: what either says of a store nobody touches is     *)
(* decided by the capture and the specification.                           *)
(***************************************************************************)
EXTENDS EvidenceReplay, FiniteSetTheorems, WellFoundedInduction, TLAPS

-----------------------------------------------------------------------------
(* The invariant of the capture *)

\* A page without errors was received whole; without a next page, there is
\* no Link header either.
ReceivedWhole(page) ==
    /\ page.asked
    /\ page.answer.got = "answer"
    /\ page.answer.status = 200
    /\ page.answer.size \in 0..MaxPage
    /\ ~ page.answer.cut
    /\ page.answer.parses
    /\ Graphql => ~ page.answer.more
    /\ ~ Graphql /\ ~ page.has_next => page.answer.link = "none"

PagesInv ==
    /\ \A i \in DOMAIN pages : pages[i].errors = {} => ReceivedWhole(pages[i])
    /\ \A i \in DOMAIN pages :
           phase = "fetch" \/ i # Len(pages) => pages[i].has_next
    /\ phase # "fetch" => pages # <<>>

\* What an envelope says of its page.
Describes(e, page) ==
    /\ e.raw = page.raw
    /\ e.status = StatusOf(page)
    /\ e.has_next = page.has_next
    /\ e.pagination_complete = PaginationComplete
    /\ refusals # {} => ~ e.complete

EvidenceInv ==
    IF phase = "captured"
    THEN /\ refusals = {i \in DOMAIN pages : Refused(pages[i])}
         /\ DOMAIN evidence = DOMAIN pages \ refusals
         /\ \A i \in DOMAIN evidence : Describes(evidence[i], pages[i])
    ELSE evidence = <<>> /\ refusals = {}

CaptureInv == /\ endpoint \in {"rest", "graphql"}
              /\ phase \in {"fetch", "finish", "captured"}
              /\ pages \in Seq(PageType)
              /\ total \in Int
              /\ PagesInv
              /\ EvidenceInv

-----------------------------------------------------------------------------
(* The invariant of the replay *)

ReplayInv == /\ DOMAIN replay = DOMAIN NewReplay(FALSE)
             /\ replay.report.held \subseteq DOMAIN evidence
             /\ replay.bindings # {} => phase = "captured"
             /\ BoundIsWholeAnswer

Inv == CaptureInv /\ ReplayInv

-----------------------------------------------------------------------------
(* Lemmas about one page *)

\* PageOf makes pages, and one without errors was received whole.
LEMMA PageOfReceived ==
    ASSUME NEW a \in Answers, NEW spent \in Int,
           endpoint \in {"rest", "graphql"}
    PROVE  /\ PageOf(a, spent) \in PageType
           /\ PageOf(a, spent).errors = {} => ReceivedWhole(PageOf(a, spent))
<1> USE CaptureAssumption
<1>1. a \in AnswerType
  OBVIOUS
<1>2. PageErrors(a, spent) \in SUBSET CaptureErrors
  BY <1>1 DEF PageErrors, CaptureErrors, AnswerType, Got, Responded, BodyKept,
              ParseFlags, NoStatus, NoBody, Remaining
<1>3. BodyKept(a, spent) \in BOOLEAN /\ HasNext(a, spent) \in BOOLEAN
  BY DEF BodyKept, HasNext, LinkRead, Responded
<1>4. PageOf(a, spent) \in PageType
  BY <1>2, <1>3 DEF PageOf, PageType
<1>5. ASSUME PageErrors(a, spent) = {}
      PROVE  /\ BodyKept(a, spent)
             /\ a.status = 200
             /\ ~ a.cut
  BY <1>1, <1>5 DEF PageErrors, AnswerType, Got, Responded, BodyKept,
                    ParseFlags, NoStatus, NoBody, Remaining
<1>6. BodyKept(a, spent) => a.got = "answer" /\ a.size \in 0..MaxPage
  BY <1>1 DEF BodyKept, Responded, Remaining, NoBody, AnswerType
<1>8. ASSUME PageErrors(a, spent) = {}
      PROVE  a.parses /\ (Graphql => ~ a.more)
  <2>1. a.got # "raised" /\ Responded(a)
    BY <1>5, <1>8 DEF BodyKept, Responded
  <2>2. ParseFlags(a) = {}
    BY <1>5, <1>8, <2>1 DEF PageErrors, BodyKept
  <2>3. /\ ~ a.parses => "body_not_parsed" \in ParseFlags(a)
        /\ Graphql /\ a.parses /\ a.more => "graphql_flag" \in ParseFlags(a)
    BY DEF ParseFlags
  <2> QED
    BY <2>2, <2>3
<1>7. PageErrors(a, spent) = {} => ReceivedWhole(PageOf(a, spent))
  BY <1>5, <1>6, <1>8 DEF ReceivedWhole, PageOf, HasNext, LinkRead
<1> QED
  BY <1>4, <1>7 DEF PageOf

\* A stop reason is a capture error.
LEMMA StopReasonType ==
    ASSUME NEW a, NEW spent, NEW index
    PROVE  StopReason(a, spent, index) \in SUBSET CaptureErrors
BY DEF StopReason, CaptureErrors

-----------------------------------------------------------------------------
(* The capture keeps its invariant *)

\* Appending a page that is well formed keeps what is known of the pages, if
\* the loop goes on only when the page offers a next one.
LEMMA AppendKeeps ==
    ASSUME CaptureInv, phase = "fetch",
           NEW page \in PageType,
           page.errors = {} => ReceivedWhole(page),
           pages' = Append(pages, page),
           phase' \in {"fetch", "finish"},
           phase' = "fetch" => page.has_next,
           total' \in Int,
           UNCHANGED <<endpoint, evidence, refusals>>
    PROVE  CaptureInv'
<1>1. pages' \in Seq(PageType) /\ Len(pages') = Len(pages) + 1
  BY DEF CaptureInv
<1>2. /\ DOMAIN pages' = 1..(Len(pages) + 1)
      /\ \A i \in 1..Len(pages) : pages'[i] = pages[i]
      /\ pages'[Len(pages) + 1] = page
  BY <1>1 DEF CaptureInv
<1>3. \A i \in DOMAIN pages' : \/ i \in DOMAIN pages /\ i # Len(pages')
                               \/ i = Len(pages) + 1
  BY <1>1, <1>2 DEF CaptureInv
<1>4. \A p : ReceivedWhole(p)' <=> ReceivedWhole(p)
  BY DEF ReceivedWhole, Graphql
<1>5. \A i \in DOMAIN pages' :
          pages'[i].errors = {} => ReceivedWhole(pages'[i])
  BY <1>1, <1>2, <1>3 DEF CaptureInv, PagesInv
<1>6. \A i \in DOMAIN pages' :
          phase' = "fetch" \/ i # Len(pages') => pages'[i].has_next
  BY <1>1, <1>2, <1>3 DEF CaptureInv, PagesInv
<1>7. pages' # <<>>
  BY <1>1
<1>8. PagesInv'
  BY <1>4, <1>5, <1>6, <1>7 DEF PagesInv, ReceivedWhole, Graphql
<1>9. EvidenceInv'
  BY DEF CaptureInv, EvidenceInv
<1> QED
  BY <1>1, <1>8, <1>9 DEF CaptureInv

LEMMA BudgetSpentKeeps == CaptureInv /\ BudgetSpent => CaptureInv'
<1> SUFFICES ASSUME CaptureInv, BudgetSpent PROVE CaptureInv'
  OBVIOUS
<1> DEFINE page == [answer |-> NoAnswer, asked |-> FALSE, raw |-> FALSE,
                    has_next |-> FALSE, errors |-> {"byte_limit_exceeded"}]
<1>1. page \in PageType
  BY DEF PageType, CaptureErrors
<1>2. page.errors # {}
  OBVIOUS
<1> QED
  BY <1>1, <1>2, AppendKeeps DEF BudgetSpent, CaptureInv

LEMMA FetchKeeps ==
    ASSUME CaptureInv, NEW a \in Answers, Fetch(a)
    PROVE  CaptureInv'
<1> DEFINE plain == PageOf(a, total)
           index == Len(pages) + 1
           page == [plain EXCEPT !.errors = @ \cup StopReason(a, total, index)]
<1>1. /\ plain \in PageType
      /\ plain.errors = {} => ReceivedWhole(plain)
  BY PageOfReceived DEF CaptureInv
<1>2. page \in PageType
  BY <1>1, StopReasonType DEF PageType
<1>3. page.errors = {} => ReceivedWhole(page)
  BY <1>1 DEF ReceivedWhole, PageType
<1>4. page.has_next = HasNext(a, total)
  BY DEF PageOf
<1>5. plain.raw => a.size \in Int
  BY CaptureAssumption DEF PageOf, BodyKept, AnswerType, NoBody
<1>6. total' \in Int
  BY <1>5 DEF Fetch, CaptureInv
<1>7. /\ phase = "fetch"
      /\ pages' = Append(pages, page)
      /\ phase' \in {"fetch", "finish"}
      /\ phase' = "fetch" => page.has_next
  BY <1>4 DEF Fetch, Continues
<1> QED
  BY <1>2, <1>3, <1>6, <1>7, AppendKeeps DEF Fetch

\* What Finish makes of a page describes it.
LEMMA FinishKeeps == CaptureInv /\ Finish => CaptureInv'
<1> SUFFICES ASSUME CaptureInv, Finish PROVE CaptureInv'
  OBVIOUS
<1> DEFINE bad == {i \in DOMAIN pages : Refused(pages[i])}
<1>1. /\ phase' = "captured"
      /\ refusals' = bad
      /\ evidence' = [i \in DOMAIN pages \ bad |->
             IF bad = {} THEN Record(pages[i]) ELSE SiblingOf(Record(pages[i]))]
      /\ UNCHANGED <<endpoint, pages, total>>
  BY DEF Finish
<1>2. \A page : /\ Refused(page)' = Refused(page)
                /\ StatusOf(page)' = StatusOf(page)
                /\ ReceivedWhole(page)' = ReceivedWhole(page)
  BY <1>1 DEF Refused, StatusOf, ReceivedWhole, Graphql
<1>3. PaginationComplete' = PaginationComplete
  BY <1>1 DEF PaginationComplete
<1>4. ASSUME NEW page
      PROVE  /\ Record(page).raw = page.raw
             /\ Record(page).status = StatusOf(page)
             /\ Record(page).has_next = page.has_next
             /\ Record(page).pagination_complete = PaginationComplete
             /\ DOMAIN Record(page) = {"raw", "status", "errors", "has_next",
                                       "pagination_complete", "complete"}
  BY DEF Record, Completed
<1>5. ASSUME NEW page
      PROVE  /\ SiblingOf(Record(page)).raw = page.raw
             /\ SiblingOf(Record(page)).status = StatusOf(page)
             /\ SiblingOf(Record(page)).has_next = page.has_next
             /\ SiblingOf(Record(page)).pagination_complete = PaginationComplete
             /\ ~ SiblingOf(Record(page)).complete
  BY <1>4 DEF SiblingOf, Completed, ExpectedCompleteness
<1>6. DOMAIN evidence' = DOMAIN pages' \ refusals'
  BY <1>1
<1>7. ASSUME NEW i \in DOMAIN evidence'
      PROVE  Describes(evidence[i], pages[i])'
  BY <1>1, <1>2, <1>3, <1>4, <1>5 DEF Describes
<1>8. EvidenceInv'
  BY <1>1, <1>2, <1>6, <1>7 DEF EvidenceInv
<1>9. PagesInv'
  BY <1>1, <1>2 DEF CaptureInv, PagesInv, Finish
<1> QED
  BY <1>1, <1>8, <1>9 DEF CaptureInv

\* A captured page that was kept is one the gate calls clean, and beside a
\* refused page none is complete.
LEMMA KeptIsClean == CaptureInv => RefusedIsNeverKept
<1> SUFFICES ASSUME CaptureInv, NEW i \in DOMAIN evidence
             PROVE  /\ evidence[i].raw => Scan(pages[i].answer.text) = "CLEAN"
                    /\ evidence[i].status # NoStatus =>
                           Scan(pages[i].answer.headers) = "CLEAN"
                    /\ refusals # {} => ~ evidence[i].complete
  BY DEF RefusedIsNeverKept
<1>1. phase = "captured"
  BY DEF CaptureInv, EvidenceInv
<1>2. Describes(evidence[i], pages[i]) /\ ~ Refused(pages[i])
  BY <1>1 DEF CaptureInv, EvidenceInv
<1> QED
  BY <1>2 DEF Describes, Refused, Storable

-----------------------------------------------------------------------------
(* What V5 finds out *)

\* If all the evidence of a capture passes V5, the whole answer was received
\* and nothing was refused.
LEMMA V5FindsAll ==
    ASSUME CaptureInv, phase = "captured",
           NEW ids \in SUBSET DOMAIN evidence, ids # {}, V5(ids)
    PROVE  /\ WholeAnswer
           /\ refusals = {}
           /\ ids = DOMAIN pages
<1> DEFINE n == Cardinality(DOMAIN evidence)
<1>1. /\ DOMAIN pages = 1..Len(pages)
      /\ Len(pages) \in Nat
      /\ DOMAIN evidence = DOMAIN pages \ refusals
      /\ \A i \in DOMAIN evidence : Describes(evidence[i], pages[i])
  BY DEF CaptureInv, EvidenceInv
<1>2. ids = DOMAIN evidence
  BY DEF V5
<1>3. PaginationComplete
  BY <1>1 DEF V5, Describes
<1>4. n \in Nat
  <2>1. IsFiniteSet(1..Len(pages))
    BY <1>1, FS_Interval
  <2> QED
    BY <1>1, <2>1, FS_Subset, FS_CardinalityType
<1>5. DOMAIN evidence = 1..n
  BY DEF V5
<1>6. PICK last \in DOMAIN evidence : /\ \A id \in DOMAIN evidence : id <= last
                                      /\ ~ evidence[last].has_next
  BY DEF V5
<1>7. last = n
  BY <1>4, <1>5, <1>6
<1>8. last = Len(pages)
  BY <1>1, <1>6 DEF Describes, CaptureInv, PagesInv
<1>9. DOMAIN evidence = DOMAIN pages
  BY <1>1, <1>5, <1>7, <1>8
<1>10. refusals = {}
  BY <1>1, <1>9 DEF CaptureInv, EvidenceInv
<1>11. \A i \in DOMAIN pages : ReceivedWhole(pages[i])
  BY <1>3 DEF PaginationComplete, CaptureInv, PagesInv
<1>12. WholeAnswer
  BY <1>1, <1>3, <1>6, <1>8, <1>9, <1>11
     DEF WholeAnswer, ReceivedWhole, PaginationComplete
<1> QED
  BY <1>2, <1>9, <1>10, <1>12

-----------------------------------------------------------------------------
(* The steps that keep what is bound *)

\* What is known of a capture stays known while it is left alone.
LEMMA CaptureAtRest ==
    ASSUME CaptureInv, UNCHANGED captureVars
    PROVE  CaptureInv'
<1>1. UNCHANGED <<endpoint, phase, pages, total, evidence, refusals>>
  BY DEF captureVars
<1>2. \A page : ReceivedWhole(page)' = ReceivedWhole(page)
  BY <1>1 DEF ReceivedWhole, Graphql
<1>3. PagesInv'
  BY <1>1, <1>2 DEF CaptureInv, PagesInv
<1>4. PaginationComplete' = PaginationComplete
  BY <1>1 DEF PaginationComplete
<1>5. \A e, page : Describes(e, page)' = Describes(e, page)
  BY <1>1, <1>4 DEF Describes, StatusOf
<1>6. \A page : Refused(page)' = Refused(page)
  BY <1>1 DEF Refused, StatusOf
<1>7. EvidenceInv'
  BY <1>1, <1>5, <1>6 DEF CaptureInv, EvidenceInv
<1> QED
  BY <1>1, <1>3, <1>7 DEF CaptureInv

\* A step that adds nothing to the bindings and leaves the capture alone.
LEMMA NothingBound ==
    ASSUME Inv, UNCHANGED captureVars,
           DOMAIN replay' = DOMAIN replay,
           replay'.report.held \subseteq DOMAIN evidence,
           replay'.bindings \in {replay.bindings, {}}
    PROVE  Inv'
<1>1. CaptureInv'
  BY CaptureAtRest DEF Inv
<1>2. WholeAnswer' = WholeAnswer
  BY DEF captureVars, WholeAnswer, Graphql
<1>3. ReplayInv'
  BY <1>2 DEF Inv, ReplayInv, captureVars, BoundIsWholeAnswer, NewReplay
<1> QED
  BY <1>1, <1>3 DEF Inv

\* The report of the store holds no evidence but the capture's.
LEMMA HeldIsCaptured == Report.held \subseteq DOMAIN evidence
BY DEF Report

\* A step of the capture: nothing is bound before it is over.
LEMMA CaptureKeeps == Inv /\ Capture => Inv'
<1> SUFFICES ASSUME Inv, Capture PROVE Inv'
  OBVIOUS
<1>1. CaptureInv'
  BY BudgetSpentKeeps, FetchKeeps, FinishKeeps DEF Inv, Capture, CaptureNext
<1>2. phase # "captured" /\ UNCHANGED replay
  BY DEF Capture, CaptureNext, BudgetSpent, Fetch, Finish
<1>3. replay.report.held = {} /\ replay.bindings = {}
  <2>1. DOMAIN evidence = {}
    <3>1. evidence = <<>>
      BY <1>2 DEF Inv, CaptureInv, EvidenceInv
    <3> QED
      BY <3>1
  <2> QED
    BY <1>2, <2>1 DEF Inv, ReplayInv
<1>4. ReplayInv'
  BY <1>2, <1>3 DEF Inv, ReplayInv, BoundIsWholeAnswer, NewReplay
<1> QED
  BY <1>1, <1>4 DEF Inv

\* A group that passes binds the whole capture.
LEMMA CloseGroupKeeps == Inv /\ CloseGroup => Inv'
<1> SUFFICES ASSUME Inv, CloseGroup PROVE Inv'
  OBVIOUS
<1> DEFINE overall == Overall(replay.lost)
<1>1. /\ UNCHANGED captureVars
      /\ DOMAIN replay' = DOMAIN replay
      /\ replay'.report = replay.report
      /\ replay'.bindings = replay.bindings \cup Bound(overall)
  BY DEF CloseGroup, Step, others, Inv, ReplayInv, NewReplay
<1>2. CASE overall # "PASS"
  <2>1. replay'.bindings = replay.bindings
    BY <1>1, <1>2 DEF Bound
  <2> QED
    BY <1>1, <2>1, NothingBound DEF Inv, ReplayInv
<1>3. CASE overall = "PASS"
  <2>1. /\ Located \in SUBSET DOMAIN evidence
        /\ Located # {}
        /\ V5(Located)
    BY <1>3 DEF Overall, Located, Inv, ReplayInv
  <2>2. phase = "captured"
    BY <2>1 DEF Inv, CaptureInv, EvidenceInv
  <2>3. /\ WholeAnswer
        /\ refusals = {}
        /\ Located = DOMAIN pages
    BY <2>1, <2>2, V5FindsAll DEF Inv
  <2>4. replay'.bindings = DOMAIN pages
    BY <1>1, <1>3, <2>3 DEF Bound, Inv, ReplayInv, BoundIsWholeAnswer
  <2>5. WholeAnswer' = WholeAnswer
    BY <1>1 DEF captureVars, WholeAnswer, Graphql
  <2>6. CaptureInv'
    BY <1>1, CaptureAtRest DEF Inv
  <2> QED
    BY <1>1, <2>2, <2>3, <2>4, <2>5, <2>6
       DEF Inv, ReplayInv, captureVars, BoundIsWholeAnswer, NewReplay
<1> QED
  BY <1>2, <1>3

\* Every other step of a replay.
LEMMA ReplayKeeps ==
    Inv /\ (Start \/ Again \/ Begin \/ ReadForGroup \/ VerifyAgain
             \/ ReadBound \/ Judge) => Inv'
<1> USE DEF Step, others
<1>1. ASSUME Inv, Start \/ Again PROVE Inv'
  <2>1. replay' \in {NewReplay(FALSE), NewReplay(TRUE)} /\ UNCHANGED captureVars
    BY <1>1 DEF Start, Again
  <2>2. /\ DOMAIN replay' = DOMAIN NewReplay(FALSE)
        /\ replay'.report.held = {}
        /\ replay'.bindings = {}
    BY <2>1 DEF NewReplay, NoReport
  <2> QED
    BY <1>1, <2>1, <2>2, NothingBound DEF Inv, ReplayInv
<1>2. ASSUME Inv, Begin PROVE Inv'
  <2>1. /\ DOMAIN replay' = DOMAIN replay
        /\ replay'.report \in {replay.report, Report}
        /\ replay'.bindings = replay.bindings
        /\ UNCHANGED captureVars
    BY <1>2 DEF Begin, Stop, Inv, ReplayInv, NewReplay
  <2> QED
    BY <1>2, <2>1, HeldIsCaptured, NothingBound DEF Inv, ReplayInv
<1>3. ASSUME Inv, ReadForGroup \/ VerifyAgain \/ ReadBound \/ Judge
      PROVE  Inv'
  <2>1. /\ DOMAIN replay' = DOMAIN replay
        /\ replay'.report = replay.report
        /\ replay'.bindings = replay.bindings
        /\ UNCHANGED captureVars
    <3>1. CASE ReadForGroup
      BY <1>3, <3>1 DEF ReadForGroup, ReadRaw, Stop, Inv, ReplayInv, NewReplay
    <3>2. CASE VerifyAgain
      BY <1>3, <3>2 DEF VerifyAgain, Inv, ReplayInv, NewReplay
    <3>3. CASE ReadBound
      BY <1>3, <3>3 DEF ReadBound, Stop, Inv, ReplayInv, NewReplay
    <3>4. CASE Judge
      BY <1>3, <3>4 DEF Judge, Inv, ReplayInv, NewReplay
    <3> QED
      BY <1>3, <3>1, <3>2, <3>3, <3>4
  <2> QED
    BY <1>3, <2>1, NothingBound DEF Inv, ReplayInv
<1> QED
  BY <1>1, <1>2, <1>3

\* The store is sealed, or changed from outside.
LEMMA OutsideKeeps == Inv /\ (Seal \/ Environment \/ UNCHANGED vars) => Inv'
<1> SUFFICES ASSUME Inv, Seal \/ Environment \/ UNCHANGED vars PROVE Inv'
  OBVIOUS
<1>1. /\ DOMAIN replay' = DOMAIN replay
      /\ replay'.report = replay.report
      /\ replay'.bindings = replay.bindings
      /\ UNCHANGED captureVars
  <2>1. CASE Seal \/ Upgrade \/ UNCHANGED vars
    BY <2>1 DEF Seal, Upgrade, vars, others
  <2>2. ASSUME NEW new, Changed(new)
        PROVE  /\ DOMAIN replay' = DOMAIN replay
               /\ replay'.report = replay.report
               /\ replay'.bindings = replay.bindings
               /\ UNCHANGED captureVars
    BY <2>2 DEF Changed, Inv, ReplayInv, NewReplay
  <2>3. CASE Environment /\ ~ Upgrade
    BY <2>2, <2>3 DEF Environment, Alter, Edit, Restore, Follow, Quarantine
  <2> QED
    BY <2>1, <2>3
<1> QED
  BY <1>1, NothingBound DEF Inv, ReplayInv

-----------------------------------------------------------------------------
(* The theorems *)

LEMMA InitInv == Init => Inv
<1> SUFFICES ASSUME Init PROVE Inv
  OBVIOUS
<1>1. CaptureInv
  BY CaptureAssumption
     DEF Init, CaptureInit, CaptureInv, PagesInv, EvidenceInv
<1>2. ReplayInv
  BY DEF Init, CaptureInit, ReplayInv, BoundIsWholeAnswer, NewReplay, NoReport
<1> QED
  BY <1>1, <1>2 DEF Inv

LEMMA NextInv == Inv /\ [Next]_vars => Inv'
BY CaptureKeeps, CloseGroupKeeps, ReplayKeeps, OutsideKeeps
   DEF Next, ReplayStep

\* The invariant holds in every reachable state.
THEOREM InvHolds == Spec => []Inv
BY InitInv, NextInv, PTL DEF Spec

\* What the security gate did not call CLEAN is never kept, and beside a
\* refused page no page is complete (Collector.capture, _gate, _with_error).
THEOREM GateHolds == Spec => []RefusedIsNeverKept
<1>1. Inv => RefusedIsNeverKept
  BY KeptIsClean DEF Inv
<1> QED
  BY <1>1, InvHolds, PTL

\* Whatever is bound is the whole answer, every page of it, undamaged and
\* not refused: V5, the page records and the loop together leave no way for
\* a limit, a failed fetch, a foreign link or a refusal to go unnoticed
\* (integrity._v5, snapshot.take).
THEOREM BindingHolds == Spec => []BoundIsWholeAnswer
<1>1. Inv => BoundIsWholeAnswer
  BY DEF Inv, ReplayInv
<1> QED
  BY <1>1, InvHolds, PTL

-----------------------------------------------------------------------------
(* A recorded PASS is true of the answer                                   *)

\* The checks counted on some pages, as far as 0 and 1 are concerned.
Tally(count, indices) ==
    /\ count \in Nat
    /\ count = 0 => \A i \in indices : pages[i].answer.checks = 0
    /\ count = 1 => OneCheck(indices)

\* What is left to read of the bound pages, of which there are n, when all
\* before page k were read.
Rest(k, n) == {BoundRead} \X (k..n)

\* When S7-01 passes, the role is all of the capture, and all of it is bound;
\* its pages are then read one by one, and a page that was read was not altered.
VerdictInv ==
    /\ replay.pc \in {"idle", "begin", "group"} => replay.checks = 0
    /\ replay.pc = "read" /\ replay.recorded = "PASS" =>
           /\ replay.bindings # {}
           /\ spec.check_runs = DOMAIN pages
           /\ \E k \in 1..(Len(pages) + 1) :
                  /\ replay.todo = Rest(k, Len(pages))
                  /\ Tally(replay.checks, 1..(k - 1))
    /\ RecordedPassIsTrue
    /\ replay.result # <<>> /\ replay.result.s7_01 = "PASS" => phase = "captured"

\* The number of pages, and that each has a number of checks.
LEMMA PagesHaveChecks ==
    ASSUME CaptureInv
    PROVE  /\ Len(pages) \in Nat
           /\ DOMAIN pages = 1..Len(pages)
           /\ \A i \in DOMAIN pages : pages[i].answer.checks \in Nat
<1>1. \A a \in Answers \cup {NoAnswer} : a.checks \in Nat
  BY CaptureAssumption DEF NoAnswer, AnswerType
<1>2. pages \in Seq(PageType)
  BY DEF CaptureInv
<1>3. \A page \in PageType : page.answer \in Answers \cup {NoAnswer}
  BY DEF PageType
<1>4. Len(pages) \in Nat /\ DOMAIN pages = 1..Len(pages)
  BY <1>2
<1>5. \A i \in DOMAIN pages : pages[i] \in PageType
  BY <1>2
<1> QED
  BY <1>1, <1>3, <1>4, <1>5

\* The next read of what is left is its first page.
LEMMA FirstOfRest ==
    ASSUME NEW n \in Nat, NEW k \in 1..n
    PROVE  /\ First(Rest(k, n)) = <<BoundRead, k>>
           /\ Rest(k, n) \ {<<BoundRead, k>>} = Rest(k + 1, n)
<1>1. <<BoundRead, k>> \in Rest(k, n)
  BY DEF Rest
<1>2. \A r \in Rest(k, n) : \E i \in k..n : r = <<BoundRead, i>>
  BY DEF Rest
<1>3. \A r \in Rest(k, n) : r[1] = BoundRead /\ r[2] \in k..n
  BY <1>2
<1>4. BoundRead \in Nat
  BY DEF BoundRead
<1>5. \A other \in Rest(k, n) :
          \/ <<BoundRead, k>>[1] < other[1]
          \/ /\ <<BoundRead, k>>[1] = other[1]
             /\ <<BoundRead, k>>[2] <= other[2]
  BY <1>3
<1>6. ASSUME NEW r \in Rest(k, n),
             \A other \in Rest(k, n) :
                 r[1] < other[1] \/ (r[1] = other[1] /\ r[2] <= other[2])
      PROVE  r = <<BoundRead, k>>
  <2>1. PICK i \in k..n : r = <<BoundRead, i>>
    BY <1>2
  <2>2. i <= k
    BY <1>1, <1>4, <1>6, <2>1
  <2> QED
    BY <2>1, <2>2
<1>7. First(Rest(k, n)) = <<BoundRead, k>>
  BY <1>1, <1>5, <1>6 DEF First
<1>8. Rest(k, n) \ {<<BoundRead, k>>} = Rest(k + 1, n)
  <2>1. \A i : i \in (k..n) /\ i # k <=> i \in (k + 1)..n
    OBVIOUS
  <2> QED
    BY <2>1 DEF Rest
<1> QED
  BY <1>7, <1>8

\* One more page is counted.
LEMMA TallyOneMore ==
    ASSUME NEW n \in Nat, NEW k \in 1..n, NEW count, Tally(count, 1..(k - 1)),
           \A i \in 1..n : pages[i].answer.checks \in Nat
    PROVE  Tally(count + pages[k].answer.checks, 1..k)
<1> DEFINE c(i) == pages[i].answer.checks
<1>1. /\ count \in Nat /\ c(k) \in Nat
      /\ \A i : i \in 1..k <=> i \in 1..(k - 1) \/ i = k
      /\ ~ k \in 1..(k - 1)
  BY DEF Tally
<1> HIDE DEF c
<1>2. count = 0 => \A i \in 1..(k - 1) : c(i) = 0
  BY DEF Tally, c
<1>3. count = 1 => \E i \in 1..(k - 1) :
          c(i) = 1 /\ \A j \in (1..(k - 1)) \ {i} : c(j) = 0
  BY DEF Tally, OneCheck, c
<1>4. count + c(k) = 0 => \A i \in 1..k : c(i) = 0
  BY <1>1, <1>2
<1>5. ASSUME count + c(k) = 1
      PROVE  \E i \in 1..k : c(i) = 1 /\ \A j \in (1..k) \ {i} : c(j) = 0
  <2>1. CASE count = 0
    BY <1>1, <1>2, <1>5, <2>1
  <2>2. CASE count = 1
    <3>1. c(k) = 0
      BY <1>1, <1>5, <2>2
    <3>2. PICK i \in 1..(k - 1) :
              c(i) = 1 /\ \A j \in (1..(k - 1)) \ {i} : c(j) = 0
      BY <1>3, <2>2
    <3> QED
      BY <1>1, <3>1, <3>2
  <2> QED
    BY <1>1, <1>5, <2>1, <2>2
<1> QED
  BY <1>1, <1>4, <1>5 DEF Tally, OneCheck, c

\* A step after which nothing is being read: the result is the one there was.
LEMMA ResultKept ==
    ASSUME VerdictInv, UNCHANGED <<pages, phase, spec>>,
           replay'.result \in {replay.result, <<>>},
           replay'.pc # "read",
           replay'.pc \in {"idle", "begin", "group"} => replay'.checks = 0
    PROVE  VerdictInv'
<1>1. \A S : OneCheck(S)' <=> OneCheck(S)
  BY DEF OneCheck
<1>2. RecordedPassIsTrue'
  BY <1>1 DEF VerdictInv, RecordedPassIsTrue, OneCheck
<1>3. (replay.result # <<>> /\ replay.result.s7_01 = "PASS" => phase = "captured")'
  BY DEF VerdictInv
<1> QED
  BY <1>2, <1>3 DEF VerdictInv

\* A step that leaves what was read, counted and judged alone.
LEMMA VerdictAtRest ==
    ASSUME VerdictInv, UNCHANGED <<pages, phase, spec>>,
           replay'.pc = replay.pc, replay'.todo = replay.todo,
           replay'.checks = replay.checks, replay'.recorded = replay.recorded,
           replay'.bindings = replay.bindings, replay'.result = replay.result
    PROVE  VerdictInv'
<1>1. CASE replay.pc # "read"
  BY <1>1, ResultKept DEF VerdictInv
<1>2. CASE replay.pc = "read"
  <2>1. \A S, c : Tally(c, S)' <=> Tally(c, S)
    BY DEF Tally, OneCheck
  <2>2. \A k, n : Rest(k, n)' = Rest(k, n)
    BY DEF Rest
  <2>3. RecordedPassIsTrue'
    BY DEF VerdictInv, RecordedPassIsTrue, OneCheck
  <2>4. replay.recorded = "PASS" =>
           (/\ replay.bindings # {}
            /\ spec.check_runs = DOMAIN pages
            /\ \E k \in 1..(Len(pages) + 1) :
                   /\ replay.todo = Rest(k, Len(pages))
                   /\ Tally(replay.checks, 1..(k - 1)))'
    BY <1>2, <2>1, <2>2 DEF VerdictInv, Tally, OneCheck, Rest
  <2> QED
    BY <1>2, <2>3, <2>4 DEF VerdictInv
<1> QED
  BY <1>1, <1>2

\* When S7-01 passes, the role is the whole capture.
LEMMA VerifyAgainKeeps == Inv /\ VerdictInv /\ VerifyAgain => VerdictInv'
<1> SUFFICES ASSUME Inv, VerdictInv, VerifyAgain PROVE VerdictInv'
  OBVIOUS
<1>1. /\ UNCHANGED <<pages, phase, spec>>
      /\ replay'.pc = "read" /\ replay'.checks = 0
      /\ replay'.result = replay.result
      /\ replay'.bindings = replay.bindings
      /\ replay'.recorded = RawApiDataStored(Report)
      /\ replay'.todo = IF AllBound(spec.check_runs)
                        THEN {BoundRead} \X spec.check_runs ELSE {}
  BY DEF VerifyAgain, Step, others, captureVars, Inv, ReplayInv, NewReplay, VerdictInv
<1>2. RecordedPassIsTrue'
  BY <1>1 DEF VerdictInv, RecordedPassIsTrue, OneCheck
<1>3. (replay.result # <<>> /\ replay.result.s7_01 = "PASS" => phase = "captured")'
  BY <1>1 DEF VerdictInv
<1>4. ASSUME RawApiDataStored(Report) = "PASS"
      PROVE  /\ replay.bindings # {}
             /\ spec.check_runs = DOMAIN pages
             /\ replay'.todo = Rest(1, Len(pages))
  <2>1. AllBound(spec.check_runs) /\ DOMAIN evidence \subseteq spec.check_runs
    BY <1>4 DEF RawApiDataStored
  <2>2. /\ replay.bindings # {}
        /\ spec.check_runs \subseteq replay.bindings
    BY <2>1 DEF AllBound
  <2>3. phase = "captured" /\ refusals = {} /\ replay.bindings = DOMAIN pages
    BY <2>2 DEF Inv, ReplayInv, BoundIsWholeAnswer
  <2>4. DOMAIN evidence = DOMAIN pages
    BY <2>3 DEF Inv, CaptureInv, EvidenceInv
  <2>5. spec.check_runs = DOMAIN pages
    BY <2>1, <2>2, <2>3, <2>4
  <2>6. DOMAIN pages = 1..Len(pages)
    BY PagesHaveChecks DEF Inv
  <2> QED
    BY <1>1, <2>1, <2>2, <2>5, <2>6 DEF Rest
<1>5. Tally(0, 1..(1 - 1))'
  BY DEF Tally
<1>6. 1 \in 1..(Len(pages) + 1)
  BY PagesHaveChecks DEF Inv
<1>7. (replay.recorded = "PASS" =>
           /\ replay.bindings # {}
           /\ spec.check_runs = DOMAIN pages
           /\ \E k \in 1..(Len(pages) + 1) :
                  /\ replay.todo = Rest(k, Len(pages))
                  /\ Tally(replay.checks, 1..(k - 1)))'
  <2> SUFFICES ASSUME RawApiDataStored(Report) = "PASS"
               PROVE  (/\ replay.bindings # {}
                       /\ spec.check_runs = DOMAIN pages
                       /\ \E k \in 1..(Len(pages) + 1) :
                              /\ replay.todo = Rest(k, Len(pages))
                              /\ Tally(replay.checks, 1..(k - 1)))'
    BY <1>1
  <2>1. Tally(replay.checks, 1..(1 - 1))'
    BY <1>1, <1>5 DEF Tally, OneCheck
  <2> QED
    BY <1>1, <1>4, <1>6, <2>1 DEF Rest, Tally, OneCheck
<1> QED
  BY <1>1, <1>2, <1>3, <1>7 DEF VerdictInv

\* A page that was not altered since it was bound is counted as it was captured.
LEMMA ReadBoundKeeps == Inv /\ VerdictInv /\ ReadBound => VerdictInv'
<1> SUFFICES ASSUME Inv, VerdictInv, ReadBound PROVE VerdictInv'
  OBVIOUS
<1> DEFINE id == First(replay.todo)[2]
<1>1. UNCHANGED <<pages, phase, spec>> /\ replay.pc = "read" /\ replay.todo # {}
  BY DEF ReadBound, Stop, Step, others, captureVars
<1>2. CASE Gone \/ Drifted(id)
  <2>1. replay'.pc = "done" /\ replay'.result = replay.result
    BY <1>2 DEF ReadBound, Stop, Step, Inv, ReplayInv, NewReplay
  <2> QED
    BY <1>1, <2>1, ResultKept
<1>3. CASE ~ Gone /\ ~ Drifted(id)
  <2>1. /\ replay'.pc = "read" /\ replay'.result = replay.result
        /\ replay'.bindings = replay.bindings
        /\ replay'.recorded = replay.recorded
        /\ replay'.todo = replay.todo \ {<<BoundRead, id>>}
        /\ replay'.checks = replay.checks + pages[id].answer.checks
    BY <1>3 DEF ReadBound, Step, Inv, ReplayInv, NewReplay, Drifted, OnDisk
  <2>2. RecordedPassIsTrue'
    BY <1>1, <2>1 DEF VerdictInv, RecordedPassIsTrue, OneCheck
  <2>3. (replay.result # <<>> /\ replay.result.s7_01 = "PASS" => phase = "captured")'
    BY <1>1, <2>1 DEF VerdictInv
  <2>4. ASSUME replay.recorded = "PASS"
        PROVE  \E k \in 1..(Len(pages) + 1) :
                  /\ replay'.todo = Rest(k, Len(pages))
                  /\ Tally(replay'.checks, 1..(k - 1))
    <3> DEFINE n == Len(pages)
    <3>1. n \in Nat /\ \A i \in 1..n : pages[i].answer.checks \in Nat
      BY PagesHaveChecks DEF Inv
    <3>2. PICK k \in 1..(n + 1) : /\ replay.todo = Rest(k, n)
                                  /\ Tally(replay.checks, 1..(k - 1))
      BY <1>1, <2>4 DEF VerdictInv
    <3>3. k \in 1..n
      <4>1. k # n + 1
        BY <1>1, <3>1, <3>2 DEF Rest
      <4> QED
        BY <3>1, <4>1
    <3>4. id = k /\ replay'.todo = Rest(k + 1, n)
      BY <2>1, <3>1, <3>2, <3>3, FirstOfRest
    <3>5. Tally(replay'.checks, 1..k)
      BY <2>1, <3>1, <3>2, <3>3, <3>4, TallyOneMore
    <3>6. k + 1 \in 1..(n + 1) /\ (k + 1) - 1 = k
      BY <3>1, <3>3
    <3> QED
      BY <3>4, <3>5, <3>6
  <2>5. (replay.recorded = "PASS" =>
             /\ replay.bindings # {}
             /\ spec.check_runs = DOMAIN pages
             /\ \E k \in 1..(Len(pages) + 1) :
                    /\ replay.todo = Rest(k, Len(pages))
                    /\ Tally(replay.checks, 1..(k - 1)))'
    BY <1>1, <2>1, <2>4 DEF VerdictInv, Rest, Tally, OneCheck
  <2> QED
    BY <2>1, <2>2, <2>3, <2>5 DEF VerdictInv
<1> QED
  BY <1>2, <1>3

\* The verdict is given when every page of the role was counted.
LEMMA JudgeKeeps == Inv /\ VerdictInv /\ Judge => VerdictInv'
<1> SUFFICES ASSUME Inv, VerdictInv, Judge PROVE VerdictInv'
  OBVIOUS
<1>1. /\ UNCHANGED <<pages, phase, spec>>
      /\ replay.pc = "read" /\ replay.todo = {}
      /\ replay'.pc = "done" /\ replay'.result = Result
  BY DEF Judge, Step, others, captureVars, Inv, ReplayInv, NewReplay
<1>2. Result.s7_01 = replay.recorded /\ Result.s7_04 = OneAppCheck
  BY DEF Result
<1>3. ASSUME replay.recorded = "PASS" PROVE phase = "captured"
  BY <1>1, <1>3 DEF VerdictInv, Inv, ReplayInv
<1>4. ASSUME replay.recorded = "PASS", OneAppCheck = "PASS"
      PROVE  OneCheck(DOMAIN pages)
  <2>1. Len(pages) \in Nat /\ DOMAIN pages = 1..Len(pages)
    BY PagesHaveChecks DEF Inv
  <2>2. PICK k \in 1..(Len(pages) + 1) :
            /\ replay.todo = Rest(k, Len(pages))
            /\ Tally(replay.checks, 1..(k - 1))
    BY <1>1, <1>4 DEF VerdictInv
  <2>3. k = Len(pages) + 1
    <3>1. k \in 1..Len(pages) => <<BoundRead, k>> \in Rest(k, Len(pages))
      BY <2>1 DEF Rest
    <3> QED
      BY <1>1, <2>1, <2>2, <3>1
  <2>4. k - 1 = Len(pages)
    BY <2>1, <2>3
  <2>5. Tally(replay.checks, DOMAIN pages)
    BY <2>1, <2>2, <2>4
  <2>6. replay.checks = 1
    BY <1>4 DEF OneAppCheck
  <2> QED
    BY <2>5, <2>6 DEF Tally
<1>5. OneCheck(DOMAIN pages)' <=> OneCheck(DOMAIN pages)
  BY <1>1 DEF OneCheck
<1>6. RecordedPassIsTrue'
  BY <1>1, <1>2, <1>4, <1>5 DEF RecordedPassIsTrue, OneCheck
<1>7. (replay.result # <<>> /\ replay.result.s7_01 = "PASS" => phase = "captured")'
  BY <1>1, <1>2, <1>3
<1> QED
  BY <1>1, <1>6, <1>7 DEF VerdictInv

\* The other steps of a replay, which read nothing that is bound.
LEMMA BeforeReading ==
    Inv /\ VerdictInv /\ (Start \/ Again \/ Begin \/ ReadForGroup \/ CloseGroup)
        => VerdictInv'
<1> SUFFICES ASSUME Inv, VerdictInv,
                    Start \/ Again \/ Begin \/ ReadForGroup \/ CloseGroup
             PROVE  /\ UNCHANGED <<pages, phase, spec>>
                    /\ replay'.result \in {replay.result, <<>>}
                    /\ replay'.pc \in {"begin", "group", "done"}
                    /\ replay'.pc # "done" => replay'.checks = 0
  BY ResultKept
<1> USE DEF Step, others, captureVars
<1>1. CASE Start
  BY <1>1 DEF Start, NewReplay
<1>2. CASE Again
  BY <1>2 DEF Again, NewReplay
<1>3. CASE Begin
  BY <1>3 DEF Begin, Stop, Inv, ReplayInv, NewReplay, VerdictInv
<1>4. CASE ReadForGroup
  BY <1>4 DEF ReadForGroup, ReadRaw, Stop, Inv, ReplayInv, NewReplay, VerdictInv
<1>5. CASE CloseGroup
  BY <1>5 DEF CloseGroup, Inv, ReplayInv, NewReplay, VerdictInv
<1> QED
  BY <1>1, <1>2, <1>3, <1>4, <1>5

\* Changes from outside disturb neither what was counted nor what was captured.
LEMMA OutsideVerdict ==
    Inv /\ VerdictInv /\ (Seal \/ Environment \/ UNCHANGED vars) => VerdictInv'
<1> SUFFICES ASSUME Inv, VerdictInv, Seal \/ Environment \/ UNCHANGED vars
             PROVE  VerdictInv'
  OBVIOUS
<1>1. CASE Seal \/ Upgrade \/ UNCHANGED vars
  <2>1. UNCHANGED <<pages, phase, spec, replay>>
    BY <1>1 DEF Seal, Upgrade, vars, others, captureVars
  <2> QED
    BY <2>1, VerdictAtRest
<1>2. ASSUME NEW new, Changed(new) PROVE VerdictInv'
  <2>1. /\ UNCHANGED <<pages, phase, spec>>
        /\ replay'.pc = replay.pc /\ replay'.todo = replay.todo
        /\ replay'.checks = replay.checks /\ replay'.recorded = replay.recorded
        /\ replay'.bindings = replay.bindings /\ replay'.result = replay.result
    BY <1>2 DEF Changed, captureVars, Inv, ReplayInv, NewReplay
  <2> QED
    BY <2>1, VerdictAtRest
<1>3. CASE Environment /\ ~ Upgrade
  BY <1>2, <1>3 DEF Environment, Alter, Edit, Restore, Follow, Quarantine
<1> QED
  BY <1>1, <1>3

\* While the capture runs nothing is bound, so nothing is judged.
LEMMA CaptureVerdict == Inv /\ VerdictInv /\ Capture => VerdictInv'
<1> SUFFICES ASSUME Inv, VerdictInv, Capture PROVE VerdictInv'
  OBVIOUS
<1>1. phase # "captured" /\ UNCHANGED <<replay, spec>>
  BY DEF Capture, CaptureNext, BudgetSpent, Fetch, Finish
<1>2. replay.bindings = {}
  BY <1>1 DEF Inv, ReplayInv
<1>3. ~ (replay.result # <<>> /\ replay.result.s7_01 = "PASS")
  BY <1>1 DEF VerdictInv
<1>4. ~ (replay.pc = "read" /\ replay.recorded = "PASS")
  BY <1>2 DEF VerdictInv
<1> QED
  BY <1>1, <1>3, <1>4 DEF VerdictInv, RecordedPassIsTrue

LEMMA VerdictStep == Inv /\ VerdictInv /\ [Next]_vars => VerdictInv'
BY VerifyAgainKeeps, ReadBoundKeeps, JudgeKeeps, BeforeReading, OutsideVerdict,
   CaptureVerdict DEF Next, ReplayStep

LEMMA VerdictInit == Init => VerdictInv
BY DEF Init, VerdictInv, RecordedPassIsTrue, NewReplay

\* A result that says S7-01 and S7-04 pass is true of the whole answer, whoever
\* changes the store between any two of the reads it rests on
\* (evaluator.native_replay, Snapshot.read).
THEOREM PassIsTrue == Spec => []RecordedPassIsTrue
<1>1. VerdictInv => RecordedPassIsTrue
  BY DEF VerdictInv
<1>2. Spec => []VerdictInv
  BY VerdictInit, VerdictStep, InvHolds, PTL DEF Spec
<1> QED
  BY <1>1, <1>2, PTL

-----------------------------------------------------------------------------
(* The types *)

\* What the types rest on: the loop never holds more than max_pages pages,
\* and what is read at the end was bound, so it is a page of the capture.
TypeInv == /\ TypeOK
           /\ Len(pages) <= MaxPages
           /\ phase = "fetch" => Len(pages) < MaxPages
           /\ replay.pc = "read" =>
                  /\ replay.todo \subseteq {BoundRead} \X spec.check_runs
                  /\ replay.todo # {} => AllBound(spec.check_runs)

\* Appending a page keeps the types of the capture.
LEMMA AppendType ==
    ASSUME CaptureTypeOK, evidence = <<>>, refusals = {},
           phase = "fetch", Len(pages) < MaxPages,
           NEW page \in PageType,
           pages' = Append(pages, page),
           phase' \in {"fetch", "finish"},
           phase' = "fetch" => Len(pages) + 1 < MaxPages,
           total' \in 0..MaxTotal,
           UNCHANGED <<endpoint, evidence, refusals>>
    PROVE  /\ CaptureTypeOK'
           /\ Len(pages') <= MaxPages
           /\ phase' = "fetch" => Len(pages') < MaxPages
<1>1. pages' \in Seq(PageType) /\ Len(pages') = Len(pages) + 1
  BY DEF CaptureTypeOK
<1>2. evidence' = <<>> /\ DOMAIN evidence' = {}
  <2>1. DOMAIN << >> = {}
    OBVIOUS
  <2> QED BY <2>1
<1>3. Len(pages) \in Nat
  BY DEF CaptureTypeOK
<1> QED
  BY <1>1, <1>2, <1>3, CaptureAssumption DEF CaptureTypeOK

\* Every step of the capture keeps its types and its limits.
LEMMA CaptureTypeStep ==
    ASSUME Inv, TypeInv, CaptureNext
    PROVE  /\ CaptureTypeOK'
           /\ Len(pages') <= MaxPages
           /\ phase' = "fetch" => Len(pages') < MaxPages
<1>1. CaptureTypeOK /\ CaptureInv
  BY DEF TypeInv, TypeOK, Inv
<1>2. CASE BudgetSpent
  <2> DEFINE page == [answer |-> NoAnswer, asked |-> FALSE, raw |-> FALSE,
                      has_next |-> FALSE, errors |-> {"byte_limit_exceeded"}]
  <2>1. page \in PageType
    BY DEF PageType, CaptureErrors
  <2>2. phase = "fetch" /\ evidence = <<>> /\ refusals = {}
    BY <1>1, <1>2 DEF BudgetSpent, CaptureInv, EvidenceInv
  <2> QED
    BY <1>1, <1>2, <2>1, <2>2, AppendType
       DEF BudgetSpent, TypeInv, CaptureTypeOK
<1>3. ASSUME NEW a \in Answers, Fetch(a)
      PROVE  /\ CaptureTypeOK'
             /\ Len(pages') <= MaxPages
             /\ phase' = "fetch" => Len(pages') < MaxPages
  <2> DEFINE plain == PageOf(a, total)
             index == Len(pages) + 1
             page == [plain EXCEPT !.errors =
                          @ \cup StopReason(a, total, index)]
  <2>1. plain \in PageType
    BY <1>1, PageOfReceived DEF CaptureInv
  <2>2. page \in PageType
    BY <2>1, StopReasonType DEF PageType
  <2>3. phase = "fetch" /\ evidence = <<>> /\ refusals = {}
    BY <1>1, <1>3 DEF Fetch, CaptureInv, EvidenceInv
  <2>4. total' \in 0..MaxTotal
    <3>1. plain.raw = BodyKept(a, total)
      BY DEF PageOf
    <3>2. a.size \in Nat \cup {NoBody} /\ total \in 0..MaxTotal
      BY <1>1, CaptureAssumption DEF AnswerType, CaptureTypeOK
    <3>3. CASE BodyKept(a, total)
      <4>1. a.size \in Nat /\ a.size <= Remaining(total)
        BY <3>2, <3>3 DEF BodyKept
      <4>2. total + a.size \in 0..MaxTotal
        BY <3>2, <4>1, CaptureAssumption DEF Remaining
      <4> QED
        BY <1>3, <3>1, <3>3, <4>2 DEF Fetch
    <3>4. CASE ~ BodyKept(a, total)
      BY <1>3, <3>1, <3>2, <3>4 DEF Fetch
    <3> QED BY <3>3, <3>4
  <2>5. /\ pages' = Append(pages, page)
        /\ phase' \in {"fetch", "finish"}
        /\ phase' = "fetch" => Len(pages) + 1 < MaxPages
        /\ UNCHANGED <<endpoint, evidence, refusals>>
    BY <1>3 DEF Fetch, Continues
  <2> QED
    BY <1>1, <2>2, <2>3, <2>4, <2>5, AppendType DEF TypeInv
<1>4. CASE Finish
  <2> DEFINE bad == {i \in DOMAIN pages : Refused(pages[i])}
  <2>1. /\ phase' = "captured"
        /\ refusals' = bad
        /\ evidence' = [i \in DOMAIN pages \ bad |->
               IF bad = {} THEN Record(pages[i])
               ELSE SiblingOf(Record(pages[i]))]
        /\ UNCHANGED <<endpoint, pages, total>>
    BY <1>4 DEF Finish
  <2>2. PaginationComplete \in BOOLEAN
    <3>1. pages \in Seq(PageType) /\ phase # "fetch"
      BY <1>1, <1>4 DEF CaptureTypeOK, Finish
    <3>2. pages # <<>>
      BY <1>1, <3>1 DEF CaptureInv, PagesInv
    <3> QED
      BY <3>1, <3>2 DEF PaginationComplete, PageType
  <2>3. ASSUME NEW page \in PageType
        PROVE  /\ Record(page) \in EnvelopeType
               /\ SiblingOf(Record(page)) \in EnvelopeType
    <3>1. StatusOf(page) \in {NoStatus, 200, 500}
      BY <2>3, CaptureAssumption DEF StatusOf, PageType, AnswerType, NoAnswer
    <3>2. page.raw \in BOOLEAN /\ page.errors \in SUBSET CaptureErrors
          /\ page.has_next \in BOOLEAN
      BY <2>3 DEF PageType
    <3>3. \A e \in EnvelopeType : Completed(e) \in EnvelopeType
      <4> TAKE e \in EnvelopeType
      <4>1. ExpectedCompleteness(e) \in BOOLEAN
        BY DEF ExpectedCompleteness, EnvelopeType
      <4>2. \A b \in BOOLEAN : [e EXCEPT !.complete = b] \in EnvelopeType
        BY DEF EnvelopeType
      <4> QED
        BY <4>1, <4>2 DEF Completed
    <3>4. Record(page) \in EnvelopeType
      <4> DEFINE plain == [raw |-> page.raw, status |-> StatusOf(page),
                           errors |-> page.errors, has_next |-> page.has_next,
                           pagination_complete |-> PaginationComplete,
                           complete |-> FALSE]
      <4>1. plain \in EnvelopeType
        BY <2>2, <3>1, <3>2 DEF EnvelopeType
      <4>2. Record(page) = Completed(plain)
        BY DEF Record
      <4> HIDE DEF plain
      <4> QED
        BY <3>3, <4>1, <4>2
    <3>5. [Record(page) EXCEPT !.errors = @ \cup {"sibling_page_refused"}]
             \in EnvelopeType
      BY <3>4 DEF EnvelopeType, CaptureErrors
    <3> QED
      BY <3>3, <3>4, <3>5 DEF SiblingOf
  <2>4. \A i \in DOMAIN pages : pages[i] \in PageType
    BY <1>1 DEF CaptureTypeOK
  <2>5. /\ DOMAIN evidence' \subseteq DOMAIN pages'
        /\ \A i \in DOMAIN evidence' : evidence'[i] \in EnvelopeType
    BY <2>1, <2>3, <2>4
  <2> QED
    BY <1>1, <2>1, <2>5 DEF CaptureTypeOK, TypeInv
<1> QED
  BY <1>2, <1>3, <1>4 DEF CaptureNext

\* The ids of the evidence are ids.
LEMMA EvidenceIds ==
    ASSUME TypeInv
    PROVE  DOMAIN evidence \subseteq Ids /\ DOMAIN pages \subseteq Ids
<1>1. /\ pages \in Seq(PageType) /\ Len(pages) <= MaxPages
      /\ DOMAIN evidence \subseteq DOMAIN pages
  BY DEF TypeInv, TypeOK, CaptureTypeOK
<1>2. DOMAIN pages = 1..Len(pages) /\ Len(pages) \in Nat
  BY <1>1
<1> QED
  BY <1>1, <1>2, CaptureAssumption DEF Ids

\* A nonempty set of natural numbers has a least element.
LEMMA LeastNumber ==
    ASSUME NEW T \in SUBSET Nat, T # {}
    PROVE  \E n \in T : \A m \in T : n <= m
<1>1. PICK n \in T : \A m \in T : ~ (<<m, n>> \in OpToRel(<, Nat))
  BY NatLessThanWellFounded, WFMin
<1>2. \A m \in T : ~ (m < n)
  BY <1>1 DEF OpToRel
<1> QED
  BY <1>2

\* There is a first one among the reads that are left.
LEMMA FirstIsLeft ==
    ASSUME NEW reads \in SUBSET (Reads \X Ids), reads # {}
    PROVE  First(reads) \in reads
<1> DEFINE kinds == {r[1] : r \in reads}
<1>1. \A r \in reads : r = <<r[1], r[2]>> /\ r[1] \in Nat /\ r[2] \in Nat
  BY CaptureAssumption DEF Reads, V6Read, BoundRead, Ids
<1>2. PICK a \in kinds : \A m \in kinds : a <= m
  <2>1. kinds \in SUBSET Nat /\ kinds # {}
    BY <1>1
  <2> HIDE DEF kinds
  <2> QED BY <2>1, LeastNumber
<1> DEFINE ids == {r[2] : r \in {s \in reads : s[1] = a}}
<1>3. PICK b \in ids : \A m \in ids : b <= m
  <2>1. ids \in SUBSET Nat /\ ids # {}
    BY <1>1, <1>2
  <2> HIDE DEF ids
  <2> QED BY <2>1, LeastNumber
<1>4. <<a, b>> \in reads
  BY <1>1, <1>3
<1>5. \A other \in reads : \/ <<a, b>>[1] < other[1]
                           \/ /\ <<a, b>>[1] = other[1]
                              /\ <<a, b>>[2] <= other[2]
  BY <1>1, <1>2, <1>3
<1> QED
  BY <1>4, <1>5 DEF First

\* A new replay has the type of a replay.
LEMMA NewReplayType ==
    ASSUME NEW second \in BOOLEAN
    PROVE  NewReplay(second) \in ReplayType
BY DEF NewReplay, ReplayType, NoReport, ReportType, GroupIds, Statuses, Exits

LEMMA TypesInit == Init => TypeInv
<1> SUFFICES ASSUME Init PROVE TypeInv
  OBVIOUS
<1>1. CaptureTypeOK /\ phase = "fetch" /\ Len(pages) = 0
  <2>1. DOMAIN << >> = {}
    OBVIOUS
  <2> QED
    BY <2>1, CaptureAssumption DEF Init, CaptureInit, CaptureTypeOK
<1>2. store \in StoreType
  BY DEF Init, StoreType, StateType, Intact
<1>3. /\ changes \in 0..MaxChanges /\ definition \in 1..MaxVersion
      /\ spec \in Specs
  BY ReplayAssumption DEF Init
<1>4. replay \in ReplayType /\ replay.pc # "read"
  BY NewReplayType DEF Init, ReplayType, NewReplay
<1>5. expected \in [result : ResultType \cup {<<>>}, moved : BOOLEAN]
  BY DEF Init, NothingExpected
<1>6. Len(pages) <= MaxPages /\ Len(pages) < MaxPages
  BY <1>1, CaptureAssumption
<1> QED
  BY <1>1, <1>2, <1>3, <1>4, <1>5, <1>6 DEF TypeInv, TypeOK

\* Which reads of bound bytes are left, in the types.
ReadsAreBound == replay.pc = "read" =>
    /\ replay.todo \subseteq {BoundRead} \X spec.check_runs
    /\ replay.todo # {} => AllBound(spec.check_runs)

\* A step that leaves the capture and the specification alone keeps the types
\* of those.
LEMMA TypesAtRest ==
    ASSUME TypeInv, UNCHANGED <<captureVars, spec>>,
           store' \in StoreType, changes' \in 0..MaxChanges,
           definition' \in 1..MaxVersion, replay' \in ReplayType,
           expected' \in [result : ResultType \cup {<<>>}, moved : BOOLEAN],
           ReadsAreBound'
    PROVE  TypeInv'
<1>1. /\ CaptureTypeOK' <=> CaptureTypeOK
      /\ pages' = pages /\ phase' = phase /\ spec' = spec
  BY DEF captureVars, CaptureTypeOK
<1> QED
  BY <1>1 DEF TypeInv, TypeOK, ReadsAreBound

\* A step of the replay: the other variables keep their types.
LEMMA StepTypes ==
    ASSUME TypeInv, NEW new \in ReplayType, Step(new), ReadsAreBound'
    PROVE  TypeInv'
BY TypesAtRest DEF Step, others, TypeInv, TypeOK

\* A replay that stops has the type of a replay.
LEMMA StopTypes ==
    ASSUME TypeInv, NEW exit \in Exits, Stop(exit)
    PROVE  TypeInv'
<1>1. [replay EXCEPT !.pc = "done", !.exit = exit] \in ReplayType
  BY DEF TypeInv, TypeOK, ReplayType
<1>2. replay'.pc = "done"
  BY DEF Stop, Step, TypeInv, TypeOK, ReplayType
<1> QED
  BY <1>1, <1>2, StepTypes DEF Stop, ReadsAreBound

-----------------------------------------------------------------------------
(* The store keeps its type *)

\* A change from outside.
LEMMA ChangedTypes ==
    ASSUME TypeInv, NEW new \in StoreType, Changed(new)
    PROVE  TypeInv'
<1>1. replay' = [replay EXCEPT !.moved = @ \/ Running]
  BY DEF Changed
<1>2. replay' \in ReplayType
  <2>1. (replay.moved \/ Running) \in BOOLEAN
    BY DEF TypeInv, TypeOK, ReplayType, Running
  <2> QED
    BY <1>1, <2>1 DEF TypeInv, TypeOK, ReplayType
<1>3. ReadsAreBound'
  <2>1. /\ replay'.pc = replay.pc /\ replay'.todo = replay.todo
        /\ replay'.bindings = replay.bindings /\ spec' = spec
    BY <1>1 DEF Changed, TypeInv, TypeOK, ReplayType
  <2> QED
    BY <2>1 DEF ReadsAreBound, AllBound, TypeInv
<1>4. changes' \in 0..MaxChanges
  BY ReplayAssumption DEF Changed, TypeInv, TypeOK
<1> QED
  BY <1>2, <1>3, <1>4, TypesAtRest DEF Changed, TypeInv, TypeOK

LEMMA EnvironmentTypes == TypeInv /\ Environment => TypeInv'
<1> SUFFICES ASSUME TypeInv, Environment PROVE TypeInv'
  OBVIOUS
<1> USE DEF TypeInv, TypeOK, StoreType, StateType
<1>1. ASSUME NEW d \in Damage, Alter(d) PROVE TypeInv'
  <2>1. [store EXCEPT !.state.damage = @ \cup {d}] \in StoreType
    OBVIOUS
  <2> QED
    BY <1>1, <2>1, ChangedTypes DEF Alter
<1>2. CASE Edit
  <2>1. [store EXCEPT !.state.edited = TRUE] \in StoreType
    OBVIOUS
  <2> QED
    BY <1>2, <2>1, ChangedTypes DEF Edit
<1>3. CASE Restore
  <2>1. [store EXCEPT !.state = Intact] \in StoreType
    BY DEF Intact
  <2> QED
    BY <1>3, <2>1, ChangedTypes DEF Restore
<1>4. CASE Follow
  <2>1. [store EXCEPT !.next = "revision", !.chained = store.state]
            \in StoreType
    OBVIOUS
  <2> QED
    BY <1>4, <2>1, ChangedTypes DEF Follow
<1>5. CASE Quarantine
  <2>1. [store EXCEPT !.next = "quarantine", !.chained = store.state]
            \in StoreType
    OBVIOUS
  <2> QED
    BY <1>5, <2>1, ChangedTypes DEF Quarantine
<1>6. CASE Upgrade
  <2>1. definition' \in 1..MaxVersion
    BY <1>6, ReplayAssumption DEF Upgrade
  <2>2. UNCHANGED <<captureVars, store, changes, spec, replay, expected>>
    BY <1>6 DEF Upgrade
  <2>3. ReadsAreBound'
    BY <2>2 DEF ReadsAreBound, AllBound
  <2> QED
    BY <2>1, <2>2, <2>3, TypesAtRest
<1> QED
  BY <1>1, <1>2, <1>3, <1>4, <1>5, <1>6 DEF Environment

-----------------------------------------------------------------------------
(* The replay keeps its type *)

LEMMA ReportTypes == TypeInv => Report \in ReportType
<1> SUFFICES ASSUME TypeInv PROVE Report \in ReportType
  OBVIOUS
<1>1. DOMAIN evidence \subseteq Ids
  BY EvidenceIds
<1>2. store.state.edited \in BOOLEAN
  BY DEF TypeInv, TypeOK, StoreType, StateType
<1> QED
  BY <1>1, <1>2 DEF Report, ReportType

LEMMA RawReadsTypes ==
    ASSUME TypeInv, NEW g \in GroupIds, NEW report \in ReportType
    PROVE  RawReads(g, report) \in SUBSET (Reads \X Ids)
<1>1. report.held \subseteq Ids
  BY DEF ReportType
<1>2. V6Read \in Reads /\ W4Read \in Reads
  BY DEF Reads, V6Read, W4Read, BoundRead
<1> QED
  BY <1>1, <1>2 DEF RawReads

LEMMA BeginTypes == TypeInv /\ Begin => TypeInv'
<1> SUFFICES ASSUME TypeInv, Begin PROVE TypeInv'
  OBVIOUS
<1>1. CASE Stop("DEFINITION_CHANGED")
  BY <1>1, StopTypes DEF Exits
<1>2. CASE Step([replay EXCEPT !.pc = "group", !.report = Report,
                               !.todo = RawReads(1, Report)])
  <2>1. Report \in ReportType
    BY ReportTypes
  <2>2. RawReads(1, Report) \in SUBSET (Reads \X Ids)
    BY <2>1, RawReadsTypes DEF GroupIds
  <2>3. [replay EXCEPT !.pc = "group", !.report = Report,
                       !.todo = RawReads(1, Report)] \in ReplayType
    BY <2>1, <2>2 DEF TypeInv, TypeOK, ReplayType
  <2>4. replay'.pc = "group"
    BY <1>2 DEF Step, TypeInv, TypeOK, ReplayType
  <2> QED
    BY <1>2, <2>3, <2>4, StepTypes DEF ReadsAreBound
<1> QED
  BY <1>1, <1>2 DEF Begin

LEMMA ReadForGroupTypes == TypeInv /\ ReadForGroup => TypeInv'
<1> SUFFICES ASSUME TypeInv, ReadForGroup PROVE TypeInv'
  OBVIOUS
<1>1. CASE Gone
  BY <1>1, StopTypes DEF ReadForGroup, ReadRaw, Exits
<1>2. CASE ~ Gone
  <2> DEFINE r == First(replay.todo)
             new == [replay EXCEPT
                 !.todo = @ \ {r},
                 !.lost = @ \/ <<"raw", r[2]>> \in store.state.damage]
  <2>1. (replay.lost \/ <<"raw", r[2]>> \in store.state.damage) \in BOOLEAN
    BY DEF TypeInv, TypeOK, ReplayType
  <2>2. new \in ReplayType /\ new.pc = replay.pc
    BY <2>1 DEF TypeInv, TypeOK, ReplayType
  <2>3. Step(new) /\ replay.pc = "group"
    BY <1>2 DEF ReadForGroup, ReadRaw
  <2>4. replay' = new
    BY <2>3 DEF Step
  <2> HIDE DEF new
  <2> QED
    BY <2>2, <2>3, <2>4, StepTypes DEF ReadsAreBound
<1> QED
  BY <1>1, <1>2

LEMMA CloseGroupTypes == TypeInv /\ CloseGroup => TypeInv'
<1> SUFFICES ASSUME TypeInv, CloseGroup PROVE TypeInv'
  OBVIOUS
<1> DEFINE overall == Overall(replay.lost)
           todo == IF replay.group + 1 \in GroupIds
                   THEN RawReads(replay.group + 1, replay.report) ELSE {}
           new == [replay EXCEPT
               !.group = @ + 1, !.todo = todo, !.lost = FALSE,
               !.validation[replay.group] = overall,
               !.bindings = @ \cup Bound(overall)]
<1>1. overall \in Statuses
  BY DEF Overall, Statuses
<1>2. replay.report \in ReportType
  BY DEF TypeInv, TypeOK, ReplayType
<1>3. todo \in SUBSET (Reads \X Ids)
  BY <1>2, RawReadsTypes
<1>4. Bound(overall) \in SUBSET Ids
  BY <1>2 DEF Bound, Located, ReportType
<1>5. replay.group \in GroupIds /\ replay.group + 1 \in 1..3
  BY DEF CloseGroup, GroupIds
<1> HIDE DEF overall, todo
<1>6. new \in ReplayType /\ new.pc = replay.pc
  BY <1>1, <1>3, <1>4, <1>5 DEF TypeInv, TypeOK, ReplayType
<1>7. Step(new) /\ replay.pc = "group"
  BY DEF CloseGroup, overall, todo
<1>8. replay' = new
  BY <1>7 DEF Step
<1> HIDE DEF new
<1> QED
  BY <1>6, <1>7, <1>8, StepTypes DEF ReadsAreBound

LEMMA VerifyAgainTypes == TypeInv /\ VerifyAgain => TypeInv'
<1> SUFFICES ASSUME TypeInv, VerifyAgain PROVE TypeInv'
  OBVIOUS
<1> DEFINE todo == IF AllBound(spec.check_runs)
                   THEN {BoundRead} \X spec.check_runs ELSE {}
           new == [replay EXCEPT !.pc = "read",
                       !.recorded = RawApiDataStored(Report), !.todo = todo]
<1>1. spec.check_runs \subseteq Ids
  BY ReplayAssumption DEF TypeInv, TypeOK, SpecType
<1>2. todo \in SUBSET (Reads \X Ids)
  BY <1>1 DEF Reads, V6Read, BoundRead
<1>3. RawApiDataStored(Report) \in Statuses
  BY DEF RawApiDataStored, Statuses
<1>4. /\ todo \subseteq {BoundRead} \X spec.check_runs
      /\ todo # {} => AllBound(spec.check_runs)
  OBVIOUS
<1> HIDE DEF todo
<1>5. new \in ReplayType /\ new.todo = todo /\ new.bindings = replay.bindings
  BY <1>2, <1>3 DEF TypeInv, TypeOK, ReplayType
<1>6. Step(new)
  BY DEF VerifyAgain, todo
<1>7. replay' = new /\ spec' = spec
  BY <1>6 DEF Step, others
<1> HIDE DEF new
<1>8. ReadsAreBound'
  BY <1>4, <1>5, <1>7 DEF ReadsAreBound, AllBound
<1> QED
  BY <1>5, <1>6, <1>8, StepTypes

\* The id of the next read of bound bytes is a page of the capture.
LEMMA NextIsAPage ==
    ASSUME Inv, TypeInv, replay.pc = "read", replay.todo # {}
    PROVE  /\ First(replay.todo) \in replay.todo
           /\ First(replay.todo) = <<BoundRead, First(replay.todo)[2]>>
           /\ First(replay.todo)[2] \in spec.check_runs
           /\ First(replay.todo)[2] \in DOMAIN pages
<1>1. replay.todo \in SUBSET (Reads \X Ids)
  BY DEF TypeInv, TypeOK, ReplayType
<1>2. First(replay.todo) \in replay.todo
  BY <1>1, FirstIsLeft
<1>3. /\ replay.todo \subseteq {BoundRead} \X spec.check_runs
      /\ AllBound(spec.check_runs)
  BY DEF TypeInv
<1>4. replay.bindings # {} /\ spec.check_runs \subseteq replay.bindings
  BY <1>3 DEF AllBound
<1>5. replay.bindings = DOMAIN pages
  BY <1>4 DEF Inv, ReplayInv, BoundIsWholeAnswer
<1> QED
  BY <1>2, <1>3, <1>4, <1>5

LEMMA ReadBoundTypes == Inv /\ TypeInv /\ ReadBound => TypeInv'
<1> SUFFICES ASSUME Inv, TypeInv, ReadBound PROVE TypeInv'
  OBVIOUS
<1> DEFINE id == First(replay.todo)[2]
<1>1. CASE Gone
  BY <1>1, StopTypes DEF ReadBound, Exits
<1>2. CASE ~ Gone /\ Drifted(id)
  BY <1>2, StopTypes DEF ReadBound, Exits
<1>3. CASE ~ Gone /\ ~ Drifted(id)
  <2> DEFINE new == [replay EXCEPT !.todo = @ \ {<<BoundRead, id>>},
                                   !.checks = @ + OnDisk(id)]
  <2>1. replay.pc = "read" /\ replay.todo # {} /\ Step(new)
    BY <1>3 DEF ReadBound
  <2>2. OnDisk(id) \in Nat
    BY <2>1, NextIsAPage, PagesHaveChecks DEF OnDisk, Inv
  <2>3. replay.checks + OnDisk(id) \in Nat
    BY <2>2 DEF TypeInv, TypeOK, ReplayType
  <2>4. /\ new \in ReplayType
        /\ new.todo \subseteq replay.todo /\ new.bindings = replay.bindings
    BY <2>3 DEF TypeInv, TypeOK, ReplayType
  <2>5. replay' = new /\ spec' = spec
    BY <2>1 DEF Step, others
  <2> HIDE DEF new
  <2>6. ReadsAreBound'
    BY <2>1, <2>4, <2>5 DEF ReadsAreBound, AllBound, TypeInv
  <2> QED
    BY <2>1, <2>4, <2>6, StepTypes
<1> QED
  BY <1>1, <1>2, <1>3

LEMMA JudgeTypes == TypeInv /\ Judge => TypeInv'
<1> SUFFICES ASSUME TypeInv, Judge PROVE TypeInv'
  OBVIOUS
<1> DEFINE exit == IF replay.second
                   THEN Mismatch(Result, expected.result) ELSE "written"
           new == [replay EXCEPT !.pc = "done", !.result = Result,
                                 !.exit = exit]
<1>1. OneAppCheck \in Statuses
  BY DEF OneAppCheck, Statuses
<1>2. (replay.bindings # {} /\ replay.report.edited) \in BOOLEAN
  BY DEF TypeInv, TypeOK, ReplayType, ReportType
<1>3. Result \in ResultType
  BY <1>1, <1>2 DEF Result, ResultType, TypeInv, TypeOK, ReplayType
<1>4. exit \in Exits
  BY DEF Mismatch, Exits
<1> HIDE DEF exit
<1>5. new \in ReplayType /\ new.pc = "done"
  BY <1>3, <1>4 DEF TypeInv, TypeOK, ReplayType
<1>6. Step(new)
  BY DEF Judge, exit
<1>7. replay' = new
  BY <1>6 DEF Step
<1> HIDE DEF new
<1> QED
  BY <1>5, <1>6, <1>7, StepTypes DEF ReadsAreBound

LEMMA StartTypes == TypeInv /\ (Seal \/ Start \/ Again) => TypeInv'
<1> SUFFICES ASSUME TypeInv, Seal \/ Start \/ Again PROVE TypeInv'
  OBVIOUS
<1>1. CASE Seal
  <2>1. store' \in StoreType
    BY <1>1 DEF Seal, TypeInv, TypeOK, StoreType
  <2>2. UNCHANGED <<captureVars, changes, definition, spec, replay, expected>>
    BY <1>1 DEF Seal, others
  <2>3. ReadsAreBound'
    BY <2>2 DEF ReadsAreBound, AllBound, TypeInv
  <2> QED
    BY <2>1, <2>2, <2>3, TypesAtRest DEF TypeInv, TypeOK
<1>2. CASE Start
  <2>1. NewReplay(FALSE) \in ReplayType
    BY NewReplayType
  <2>2. replay'.pc = "begin"
    BY <1>2 DEF Start, Step, NewReplay
  <2> QED
    BY <1>2, <2>1, <2>2, StepTypes DEF Start, ReadsAreBound
<1>3. CASE Again
  <2>1. replay' \in ReplayType
    BY <1>3, NewReplayType DEF Again
  <2>2. replay'.pc = "begin"
    BY <1>3 DEF Again, NewReplay
  <2>3. expected' \in [result : ResultType \cup {<<>>}, moved : BOOLEAN]
    BY <1>3 DEF Again, TypeInv, TypeOK, ReplayType
  <2> QED
    BY <1>3, <2>1, <2>2, <2>3, TypesAtRest
       DEF Again, others, TypeInv, TypeOK, ReadsAreBound
<1> QED
  BY <1>1, <1>2, <1>3

LEMMA CaptureTypes == Inv /\ TypeInv /\ Capture => TypeInv'
<1> SUFFICES ASSUME Inv, TypeInv, Capture PROVE TypeInv'
  OBVIOUS
<1>1. /\ CaptureTypeOK'
      /\ Len(pages') <= MaxPages
      /\ phase' = "fetch" => Len(pages') < MaxPages
  BY CaptureTypeStep DEF Capture
<1>2. UNCHANGED <<store, changes, definition, spec, replay, expected>>
  BY DEF Capture
<1>3. ReadsAreBound'
  BY <1>2 DEF ReadsAreBound, AllBound, TypeInv
<1> QED
  BY <1>1, <1>2, <1>3 DEF TypeInv, TypeOK, ReadsAreBound

LEMMA TypesStep == Inv /\ TypeInv /\ [Next]_vars => TypeInv'
<1> SUFFICES ASSUME Inv, TypeInv, [Next]_vars PROVE TypeInv'
  OBVIOUS
<1>1. CASE UNCHANGED vars
  <2>1. UNCHANGED <<captureVars, store, changes, definition, spec, replay,
                    expected>>
    BY <1>1 DEF vars
  <2>2. ReadsAreBound'
    BY <2>1 DEF ReadsAreBound, AllBound, TypeInv
  <2> QED
    BY <2>1, <2>2, TypesAtRest DEF TypeInv, TypeOK
<1> QED
  BY <1>1, CaptureTypes, StartTypes, BeginTypes, ReadForGroupTypes,
     CloseGroupTypes, VerifyAgainTypes, ReadBoundTypes, JudgeTypes,
     EnvironmentTypes DEF Next, ReplayStep

LEMMA TypesHold == Spec => []TypeInv
BY TypesInit, TypesStep, InvHolds, PTL DEF Spec

\* Every variable of the capture, the store and the replay has its type in every
\* state (Collector.capture, replay.py).
THEOREM TypesAreKept == Spec => []TypeOK
<1>1. TypeInv => TypeOK
  BY DEF TypeInv
<1> QED
  BY <1>1, TypesHold, PTL

-----------------------------------------------------------------------------
(* A replay at rest *)

\* Whether a group passes when the store is as the capture left it.
GroupAtRest(g) ==
    LET group == spec.groups[g]
    IN  IF /\ group.ids # {}
           /\ group.ids \subseteq DOMAIN evidence
           /\ V5(group.ids) /\ V6(group.ids)
           /\ group.complete => \A id \in group.ids : Complete(id)
        THEN "PASS" ELSE "NOT_PROVEN"

\* The role is bound once the whole capture is.
RoleAtRest == spec.check_runs # {} /\ spec.check_runs \subseteq DOMAIN pages

\* S7-01 of a store that verifies.
StoredAtRest ==
    IF ~ RoleAtRest THEN "NOT_PROVEN"
    ELSE IF \E id \in spec.check_runs : /\ ~ evidence[id].raw
                                        /\ evidence[id].status = 200
                                        /\ evidence[id].errors = {}
         THEN "FAILED"
    ELSE IF /\ \A id \in spec.check_runs : Complete(id)
            /\ DOMAIN evidence \subseteq spec.check_runs
         THEN "PASS" ELSE "NOT_PROVEN"

\* No page of a set reports a check of the App.
NoCheck(indices) == \A i \in indices : pages[i].answer.checks = 0

\* S7-04 of the pages as they were captured.
CheckAtRest ==
    IF ~ RoleAtRest THEN "NOT_PROVEN"
    ELSE IF OneCheck(spec.check_runs) THEN "PASS"
    ELSE IF NoCheck(spec.check_runs) THEN "NOT_PROVEN"
    ELSE "FAILED"

\* The result that the capture and the specification decide.
DecidedAtRest(r) == /\ r.bindings = DOMAIN pages
                    /\ r.validation = [g \in GroupIds |-> GroupAtRest(g)]
                    /\ r.s7_01 = StoredAtRest
                    /\ r.s7_04 = CheckAtRest

\* The count of the checks in a set of pages, as far as a verdict needs it.
Counted(count, indices) == /\ count \in Nat
                           /\ count = 0 <=> NoCheck(indices)
                           /\ count = 1 <=> OneCheck(indices)

\* The pages of the role that were read and counted.
WasRead == {i \in spec.check_runs : <<BoundRead, i>> \notin replay.todo}

\* Before the revision is sealed there is nothing to replay.
UnsealedInv ==
    /\ store.sealed => phase = "captured"
    /\ ~ store.sealed => /\ replay.pc = "idle"
                         /\ replay.bindings = {}
                         /\ ~ replay.second
                         /\ replay.exit = "none"
                         /\ replay.result = <<>>
                         /\ expected.result = <<>>

\* The report the replay works with is still true, and of a sound store.
Undisturbed == /\ replay.pc \in {"group", "read"}
               /\ ~ replay.moved
               /\ replay.report.valid
               /\ replay.report.revision = "VALID"

\* What is known while a replay runs and nobody touches the store.
RunningInv ==
    /\ replay.pc \in {"group", "read"} /\ ~ replay.moved =>
           replay.report = Report
    /\ replay.bindings # {} => /\ replay.report.valid
                               /\ replay.report.revision = "VALID"
    /\ replay.pc \in {"idle", "begin"} => replay.bindings = {}
    /\ replay.pc = "begin" => /\ replay.group = 1 /\ ~ replay.lost
                              /\ \A g \in GroupIds :
                                     replay.validation[g] = "NOT_PROVEN"
    /\ replay.pc = "read" => replay.group \notin GroupIds
    /\ Undisturbed => /\ ~ replay.lost
                      /\ \A g \in GroupIds :
                             replay.validation[g] =
                                 IF g < replay.group THEN GroupAtRest(g)
                                 ELSE "NOT_PROVEN"

\* What is known of the two criteria while the bound bytes are read.
CriteriaInv ==
    replay.pc = "read" /\ Undisturbed /\ replay.bindings # {} =>
        /\ replay.recorded = StoredAtRest
        /\ RoleAtRest => Counted(replay.checks, WasRead)

\* The results there are, of replays nobody disturbed, are the decided ones.
ResultInv ==
    /\ replay.result # <<>> /\ ~ replay.moved /\ replay.result.bindings # {} =>
           DecidedAtRest(replay.result)
    /\ expected.result # <<>> /\ ~ expected.moved
       /\ expected.result.bindings # {} => DecidedAtRest(expected.result)
    /\ replay.exit = "written" => replay.result # <<>>
    /\ replay.exit \in {"written", "RESULT_MISMATCH"} => replay.pc = "done"
    /\ replay.second => expected.result # <<>>
    /\ MismatchMeansRace

RaceInv == UnsealedInv /\ RunningInv /\ CriteriaInv /\ ResultInv

-----------------------------------------------------------------------------
(* What the capture and the specification decide *)

\* It stays decided while both are left alone.
LEMMA StaysDecided ==
    ASSUME UNCHANGED <<captureVars, spec>>
    PROVE  /\ \A g : GroupAtRest(g)' = GroupAtRest(g)
           /\ RoleAtRest' <=> RoleAtRest
           /\ StoredAtRest' = StoredAtRest
           /\ CheckAtRest' = CheckAtRest
           /\ \A r : DecidedAtRest(r)' <=> DecidedAtRest(r)
           /\ \A c, S : Counted(c, S)' <=> Counted(c, S)
<1>1. UNCHANGED <<endpoint, phase, pages, total, evidence, refusals, spec>>
  BY DEF captureVars
<1>2. \A S : /\ OneCheck(S)' <=> OneCheck(S)
             /\ NoCheck(S)' <=> NoCheck(S)
             /\ V5(S)' <=> V5(S)
             /\ V6(S)' <=> V6(S)
  BY <1>1 DEF OneCheck, NoCheck, V5, V6
<1>3. \A g : GroupAtRest(g)' = GroupAtRest(g)
  <2> TAKE g
  <2> DEFINE ids == spec.groups[g].ids
             complete == spec.groups[g].complete
  <2>1. V5(ids)' <=> V5(ids)
    BY <1>1 DEF V5
  <2>2. V6(ids)' <=> V6(ids)
    BY <1>1 DEF V6
  <2>3. (complete => \A id \in ids : Complete(id))'
            <=> (complete => \A id \in ids : Complete(id))
    BY <1>1 DEF Complete
  <2> QED
    BY <1>1, <2>1, <2>2, <2>3 DEF GroupAtRest
<1>4. RoleAtRest' <=> RoleAtRest
  BY <1>1 DEF RoleAtRest
<1>5. StoredAtRest' = StoredAtRest
  BY <1>1, <1>4 DEF StoredAtRest, Complete
<1>6. CheckAtRest' = CheckAtRest
  BY <1>1, <1>4 DEF CheckAtRest, OneCheck, NoCheck
<1>7. \A r : DecidedAtRest(r)' <=> DecidedAtRest(r)
  BY <1>1, <1>3, <1>5, <1>6 DEF DecidedAtRest
<1>8. \A c, S : Counted(c, S)' <=> Counted(c, S)
  BY <1>1 DEF Counted, OneCheck, NoCheck
<1> QED
  BY <1>3, <1>4, <1>5, <1>6, <1>7, <1>8

\* A store that verifies holds the evidence as the capture left it.
LEMMA ValidIsUntouched ==
    ASSUME Report.revision = "VALID"
    PROVE  /\ ~ Gone
           /\ store.state.damage = {}
           /\ Report.held = DOMAIN evidence
           /\ Report.edited = store.state.edited
BY DEF Report

\* The overall status of a group is the decided one.
LEMMA OverallAtRest ==
    ASSUME replay.report = Report, Report.valid, Report.revision = "VALID",
           ~ replay.lost
    PROVE  Overall(replay.lost) = GroupAtRest(replay.group)
<1>1. replay.report.held = DOMAIN evidence
  BY ValidIsUntouched
<1>2. Group.ids \subseteq DOMAIN evidence => Located = Group.ids
  BY <1>1 DEF Located
<1>3. CASE ~ (Group.ids # {} /\ Group.ids \subseteq DOMAIN evidence)
  BY <1>1, <1>3 DEF Overall, GroupAtRest, Group
<1>4. CASE Group.ids # {} /\ Group.ids \subseteq DOMAIN evidence
  <2>1. Located = Group.ids
    BY <1>2, <1>4
  <2>2. V7(Located) <=>
            (Group.complete => \A id \in Group.ids : Complete(id))
    BY <2>1 DEF V7
  <2>3. Overall(replay.lost) =
            IF V5(Group.ids) /\ V6(Group.ids) /\ V7(Located)
            THEN "PASS" ELSE "NOT_PROVEN"
    BY <1>1, <1>4, <2>1 DEF Overall
  <2> QED
    BY <1>4, <2>2, <2>3 DEF GroupAtRest, Group
<1> QED
  BY <1>3, <1>4

\* S7-01 is the decided one once the capture is bound.
LEMMA StoredIsDecided ==
    ASSUME Report.valid, Report.revision = "VALID",
           replay.bindings = DOMAIN pages
    PROVE  /\ AllBound(spec.check_runs) <=> RoleAtRest
           /\ RawApiDataStored(Report) = StoredAtRest
BY DEF AllBound, RoleAtRest, RawApiDataStored, StoredAtRest

\* Nothing is counted in no page.
LEMMA CountedNone == Counted(0, {})
BY DEF Counted, NoCheck, OneCheck

\* One more page is counted, whichever it is.
LEMMA CountedOneMore ==
    ASSUME NEW S, NEW k, k \notin S, NEW count, Counted(count, S),
           \A i \in S \cup {k} : pages[i].answer.checks \in Nat
    PROVE  Counted(count + pages[k].answer.checks, S \cup {k})
<1> DEFINE c(i) == pages[i].answer.checks
<1>1. count \in Nat /\ c(k) \in Nat /\ \A i \in S : c(i) \in Nat
  BY DEF Counted
<1>2. count = 0 <=> \A i \in S : c(i) = 0
  BY DEF Counted, NoCheck
<1>3. count = 1 <=>
          \E i \in S : c(i) = 1 /\ \A j \in S \ {i} : c(j) = 0
  BY DEF Counted, OneCheck
<1> HIDE DEF c
<1>4. count + c(k) = 0 <=> \A i \in S \cup {k} : c(i) = 0
  BY <1>1, <1>2
<1>5. ASSUME count + c(k) = 1
      PROVE  \E i \in S \cup {k} :
                 c(i) = 1 /\ \A j \in (S \cup {k}) \ {i} : c(j) = 0
  <2>1. CASE count = 0
    <3>1. c(k) = 1 /\ \A j \in S : c(j) = 0
      BY <1>1, <1>2, <1>5, <2>1
    <3> QED
      BY <3>1
  <2>2. CASE count = 1
    <3>1. c(k) = 0
      BY <1>1, <1>5, <2>2
    <3>2. PICK i \in S : c(i) = 1 /\ \A j \in S \ {i} : c(j) = 0
      BY <1>3, <2>2
    <3> QED
      BY <3>1, <3>2
  <2> QED
    BY <1>1, <1>5, <2>1, <2>2
<1>6. ASSUME NEW i \in S \cup {k}, c(i) = 1,
             \A j \in (S \cup {k}) \ {i} : c(j) = 0
      PROVE  count + c(k) = 1
  <2>1. CASE i = k
    <3>1. \A j \in S : c(j) = 0
      BY <1>6, <2>1
    <3> QED
      BY <1>1, <1>2, <1>6, <2>1, <3>1
  <2>2. CASE i # k
    <3>1. i \in S /\ c(k) = 0 /\ \A j \in S \ {i} : c(j) = 0
      BY <1>6, <2>2
    <3>2. count = 1
      BY <1>3, <1>6, <3>1
    <3> QED
      BY <3>1, <3>2
  <2> QED
    BY <2>1, <2>2
<1>7. count + c(k) = 1 <=>
          \E i \in S \cup {k} :
              c(i) = 1 /\ \A j \in (S \cup {k}) \ {i} : c(j) = 0
  BY <1>5, <1>6
<1> QED
  BY <1>1, <1>4, <1>7 DEF Counted, NoCheck, OneCheck, c

\* A full count gives the decided S7-04.
LEMMA CheckIsDecided ==
    ASSUME AllBound(spec.check_runs) <=> RoleAtRest,
           RoleAtRest => Counted(replay.checks, spec.check_runs)
    PROVE  OneAppCheck = CheckAtRest
<1>1. CASE ~ RoleAtRest
  BY <1>1 DEF OneAppCheck, CheckAtRest
<1>2. CASE RoleAtRest
  <2>1. /\ replay.checks \in Nat
        /\ replay.checks = 0 <=> NoCheck(spec.check_runs)
        /\ replay.checks = 1 <=> OneCheck(spec.check_runs)
    BY <1>2 DEF Counted
  <2>2. \/ replay.checks = 0 \/ replay.checks = 1
        \/ replay.checks > 1 /\ replay.checks # 1 /\ replay.checks # 0
    BY <2>1
  <2>3. replay.checks = 0 => ~ (replay.checks > 1) /\ replay.checks # 1
    OBVIOUS
  <2> QED
    BY <1>2, <2>1, <2>2, <2>3 DEF OneAppCheck, CheckAtRest
<1> QED
  BY <1>1, <1>2

-----------------------------------------------------------------------------
(* Every step keeps what is decided *)

LEMMA RaceInit == Init => RaceInv
BY DEF Init, NothingExpected, NewReplay, RaceInv, UnsealedInv, RunningInv,
       CriteriaInv, ResultInv, Undisturbed, MismatchMeansRace, GroupIds

\* The results there are stay what they are when a step only takes them over.
LEMMA ResultStays ==
    ASSUME ResultInv, UNCHANGED <<captureVars, spec, expected>>,
           replay'.result = replay.result, replay'.second = replay.second,
           replay.moved => replay'.moved,
           \/ /\ replay'.exit = replay.exit
              /\ replay'.bindings = replay.bindings
              /\ replay'.pc = "done" <=> replay.pc = "done"
           \/ replay'.exit \notin {"written", "RESULT_MISMATCH"}
    PROVE  ResultInv'
<1>1. \A r : DecidedAtRest(r)' <=> DecidedAtRest(r)
  BY StaysDecided
<1> QED
  BY <1>1 DEF ResultInv, MismatchMeansRace

\* What a replay starts from.
LEMMA ResultCleared ==
    ASSUME UNCHANGED <<captureVars, spec>>,
           expected.result # <<>> /\ ~ expected.moved
               /\ expected.result.bindings # {} => DecidedAtRest(expected.result),
           replay'.result = <<>>, replay'.exit = "none",
           expected' = expected, replay'.second => expected.result # <<>>
    PROVE  ResultInv'
<1>1. DecidedAtRest(expected.result)' <=> DecidedAtRest(expected.result)
  BY StaysDecided
<1> QED
  BY <1>1 DEF ResultInv, MismatchMeansRace

LEMMA CaptureRace == RaceInv /\ Capture => RaceInv'
<1> SUFFICES ASSUME RaceInv, Capture PROVE RaceInv'
  OBVIOUS
<1>1. phase # "captured" /\ UNCHANGED <<store, replay, expected>>
  BY DEF Capture, CaptureNext, BudgetSpent, Fetch, Finish
<1>2. ~ store.sealed
  BY <1>1 DEF RaceInv, UnsealedInv
<1>3. /\ replay.pc = "idle" /\ replay.bindings = {} /\ ~ replay.second
      /\ replay.exit = "none" /\ replay.result = <<>>
      /\ expected.result = <<>>
  BY <1>2 DEF RaceInv, UnsealedInv
<1> QED
  BY <1>1, <1>2, <1>3 DEF RaceInv, UnsealedInv, RunningInv, CriteriaInv,
     ResultInv, Undisturbed, MismatchMeansRace

LEMMA SealRace == TypeInv /\ RaceInv /\ Seal => RaceInv'
<1> SUFFICES ASSUME TypeInv, RaceInv, Seal PROVE RaceInv'
  OBVIOUS
<1>1. /\ UNCHANGED <<captureVars, spec, replay, expected>>
      /\ phase = "captured" /\ phase' = phase
      /\ ~ store.sealed /\ store'.sealed
  BY DEF Seal, others, captureVars, TypeInv, TypeOK, StoreType
<1>2. replay.pc = "idle" /\ replay.bindings = {} /\ replay.exit = "none"
  BY <1>1 DEF RaceInv, UnsealedInv
<1>3. ResultInv'
  BY <1>1, ResultStays DEF RaceInv
<1>4. UnsealedInv' /\ RunningInv' /\ CriteriaInv'
  BY <1>1, <1>2 DEF UnsealedInv, RunningInv, CriteriaInv, Undisturbed
<1> QED
  BY <1>3, <1>4 DEF RaceInv

LEMMA StartRace == RaceInv /\ Start => RaceInv'
<1> SUFFICES ASSUME RaceInv, Start PROVE RaceInv'
  OBVIOUS
<1>1. /\ UNCHANGED <<captureVars, spec, store, expected>>
      /\ phase' = phase
      /\ replay' = NewReplay(FALSE) /\ store.sealed
  BY DEF Start, Step, others, captureVars
<1>2. ResultInv'
  BY <1>1, ResultCleared DEF RaceInv, ResultInv, NewReplay
<1>3. UnsealedInv' /\ RunningInv' /\ CriteriaInv'
  BY <1>1 DEF RaceInv, UnsealedInv, RunningInv, CriteriaInv, Undisturbed,
     NewReplay
<1> QED
  BY <1>2, <1>3 DEF RaceInv

LEMMA AgainRace == TypeInv /\ RaceInv /\ Again => RaceInv'
<1> SUFFICES ASSUME TypeInv, RaceInv, Again PROVE RaceInv'
  OBVIOUS
<1>1. /\ UNCHANGED <<captureVars, spec, store>>
      /\ phase' = phase
      /\ replay' = NewReplay(TRUE)
      /\ expected' = [result |-> replay.result, moved |-> replay.moved]
      /\ replay.exit = "written"
  BY DEF Again, others, captureVars
<1>2. store.sealed /\ replay.result # <<>>
  BY <1>1 DEF RaceInv, UnsealedInv, ResultInv
<1>3. \A r : DecidedAtRest(r)' <=> DecidedAtRest(r)
  BY <1>1, StaysDecided
<1>4. ResultInv'
  BY <1>1, <1>2, <1>3 DEF RaceInv, ResultInv, NewReplay, MismatchMeansRace
<1>5. UnsealedInv' /\ RunningInv' /\ CriteriaInv'
  BY <1>1, <1>2 DEF RaceInv, UnsealedInv, RunningInv, CriteriaInv,
     Undisturbed, NewReplay
<1> QED
  BY <1>4, <1>5 DEF RaceInv

\* A change from outside is seen: the replay that runs has moved.
LEMMA ChangedRace ==
    ASSUME TypeInv, RaceInv, NEW new, new.sealed, Changed(new)
    PROVE  RaceInv'
<1>1. /\ UNCHANGED <<captureVars, spec, expected>>
      /\ phase' = phase
      /\ store.sealed /\ store'.sealed
      /\ replay' = [replay EXCEPT !.moved = @ \/ Running]
  BY DEF Changed, captureVars
<1>2. /\ replay'.pc = replay.pc /\ replay'.result = replay.result
      /\ replay'.second = replay.second /\ replay'.exit = replay.exit
      /\ replay'.bindings = replay.bindings /\ replay'.report = replay.report
      /\ replay'.group = replay.group /\ replay'.lost = replay.lost
      /\ replay'.validation = replay.validation
      /\ replay'.moved = (replay.moved \/ Running)
  BY <1>1 DEF TypeInv, TypeOK, ReplayType
<1>3. ResultInv'
  BY <1>1, <1>2, ResultStays DEF RaceInv
<1>4. replay'.pc \in {"group", "read"} => replay'.moved
  BY <1>2 DEF Running
<1>5. UnsealedInv' /\ RunningInv' /\ CriteriaInv'
  BY <1>1, <1>2, <1>4 DEF RaceInv, UnsealedInv, RunningInv, CriteriaInv,
     Undisturbed
<1> QED
  BY <1>3, <1>5 DEF RaceInv

\* A step that touches nothing a result depends on.
LEMMA RaceAtRest ==
    ASSUME RaceInv, UNCHANGED <<captureVars, spec, store, replay, expected>>
    PROVE  RaceInv'
<1>1. ResultInv'
  BY ResultStays DEF RaceInv
<1>2. /\ \A g : GroupAtRest(g)' = GroupAtRest(g)
      /\ RoleAtRest' <=> RoleAtRest
      /\ StoredAtRest' = StoredAtRest
      /\ \A c, S : Counted(c, S)' <=> Counted(c, S)
  BY StaysDecided
<1>3. phase' = phase /\ Report' = Report
  BY DEF captureVars, Report, Gone
<1>4. Undisturbed' <=> Undisturbed
  BY DEF Undisturbed
<1>5. UnsealedInv' /\ RunningInv'
  BY <1>2, <1>3, <1>4 DEF RaceInv, UnsealedInv, RunningInv
<1>6. WasRead' = WasRead
  BY DEF WasRead
<1>7. Counted(replay.checks, WasRead)' <=> Counted(replay.checks, WasRead)
  BY <1>6 DEF Counted, NoCheck, OneCheck, captureVars
<1>8. CriteriaInv'
  BY <1>2, <1>4, <1>7 DEF RaceInv, CriteriaInv
<1> QED
  BY <1>1, <1>5, <1>8 DEF RaceInv

LEMMA EnvironmentRace == TypeInv /\ RaceInv /\ Environment => RaceInv'
<1> SUFFICES ASSUME TypeInv, RaceInv, Environment PROVE RaceInv'
  OBVIOUS
<1>1. CASE Upgrade
  BY <1>1, RaceAtRest DEF Upgrade
<1>2. ASSUME NEW new, Changed(new), new.sealed = store.sealed PROVE RaceInv'
  BY <1>2, ChangedRace DEF Changed
<1>3. store \in StoreType
  BY DEF TypeInv, TypeOK
<1>4. ASSUME NEW d \in Damage, Alter(d) PROVE RaceInv'
  BY <1>2, <1>3, <1>4 DEF Alter, StoreType
<1>5. CASE Edit
  BY <1>2, <1>3, <1>5 DEF Edit, StoreType
<1>6. CASE Restore
  BY <1>2, <1>3, <1>6 DEF Restore, StoreType
<1>7. CASE Follow
  BY <1>2, <1>3, <1>7 DEF Follow, StoreType
<1>8. CASE Quarantine
  BY <1>2, <1>3, <1>8 DEF Quarantine, StoreType
<1> QED
  BY <1>1, <1>4, <1>5, <1>6, <1>7, <1>8 DEF Environment

-----------------------------------------------------------------------------
(* The steps of the replay *)

\* What every step of a replay leaves alone.
LEMMA StepKeeps ==
    ASSUME RaceInv, NEW new, Step(new), replay.pc # "idle"
    PROVE  /\ UNCHANGED <<captureVars, spec, store, expected>>
           /\ replay' = new
           /\ Report' = Report
           /\ UnsealedInv'
           /\ \A g : GroupAtRest(g)' = GroupAtRest(g)
           /\ RoleAtRest' <=> RoleAtRest
           /\ StoredAtRest' = StoredAtRest
           /\ \A r : DecidedAtRest(r)' <=> DecidedAtRest(r)
<1>1. UNCHANGED <<captureVars, spec, store, expected>> /\ replay' = new
  BY DEF Step, others
<1>2. Report' = Report
  BY <1>1 DEF captureVars, Report, Gone
<1>3. UnsealedInv'
  BY <1>1 DEF RaceInv, UnsealedInv, captureVars
<1> QED
  BY <1>1, <1>2, <1>3, StaysDecided

\* A replay that stops without a result leaves nothing to compare.
LEMMA StopRace ==
    ASSUME TypeInv, RaceInv, replay.pc # "idle",
           NEW exit \in {"uncaught", "drift", "DEFINITION_CHANGED"}, Stop(exit)
    PROVE  RaceInv'
<1>1. /\ UNCHANGED <<captureVars, spec, store, expected>>
      /\ replay' = [replay EXCEPT !.pc = "done", !.exit = exit]
      /\ UnsealedInv'
  BY StepKeeps DEF Stop
<1>2. /\ replay'.pc = "done" /\ replay'.exit = exit
      /\ replay'.result = replay.result /\ replay'.second = replay.second
      /\ replay'.moved = replay.moved /\ replay'.bindings = replay.bindings
      /\ replay'.report = replay.report
  BY <1>1 DEF TypeInv, TypeOK, ReplayType
<1>3. ResultInv'
  BY <1>1, <1>2, ResultStays DEF RaceInv
<1>4. RunningInv' /\ CriteriaInv'
  BY <1>2 DEF RaceInv, RunningInv, CriteriaInv, Undisturbed
<1> QED
  BY <1>1, <1>3, <1>4 DEF RaceInv

LEMMA BeginRace == TypeInv /\ RaceInv /\ Begin => RaceInv'
<1> SUFFICES ASSUME TypeInv, RaceInv, Begin PROVE RaceInv'
  OBVIOUS
<1> DEFINE new == [replay EXCEPT !.pc = "group", !.report = Report,
                                 !.todo = RawReads(1, Report)]
<1>1. replay.pc = "begin"
  BY DEF Begin
<1>2. CASE Stop("DEFINITION_CHANGED")
  BY <1>1, <1>2, StopRace
<1>3. CASE Step(new)
  <2>1. /\ UNCHANGED <<captureVars, spec, store, expected>>
        /\ replay' = new /\ Report' = Report /\ UnsealedInv'
    BY <1>1, <1>3, StepKeeps
  <2>2. /\ replay'.pc = "group" /\ replay'.report = Report
        /\ replay'.exit = replay.exit
        /\ replay'.result = replay.result /\ replay'.second = replay.second
        /\ replay'.moved = replay.moved /\ replay'.bindings = replay.bindings
        /\ replay'.group = replay.group /\ replay'.lost = replay.lost
        /\ replay'.validation = replay.validation
    BY <2>1 DEF TypeInv, TypeOK, ReplayType
  <2>3. ResultInv'
    BY <1>1, <2>1, <2>2, ResultStays DEF RaceInv
  <2>4. replay.group = 1 /\ ~ replay.lost /\ replay.bindings = {}
        /\ \A g \in GroupIds : replay.validation[g] = "NOT_PROVEN"
    BY <1>1 DEF RaceInv, RunningInv
  <2>5. \A g \in GroupIds : ~ (g < 1)
    BY DEF GroupIds
  <2>6. RunningInv'
    BY <2>1, <2>2, <2>4, <2>5 DEF RunningInv
  <2>7. CriteriaInv'
    BY <2>2 DEF CriteriaInv
  <2> QED
    BY <2>1, <2>3, <2>6, <2>7 DEF RaceInv
<1> QED
  BY <1>2, <1>3 DEF Begin

\* A read that nobody disturbs finds the bytes as they were captured.
LEMMA ReadForGroupRace == TypeInv /\ RaceInv /\ ReadForGroup => RaceInv'
<1> SUFFICES ASSUME TypeInv, RaceInv, ReadForGroup PROVE RaceInv'
  OBVIOUS
<1> DEFINE r == First(replay.todo)
           lost == replay.lost \/ <<"raw", r[2]>> \in store.state.damage
           new == [replay EXCEPT !.todo = @ \ {r}, !.lost = lost]
<1>1. replay.pc = "group"
  BY DEF ReadForGroup
<1>2. CASE Gone
  BY <1>1, <1>2, StopRace DEF ReadForGroup, ReadRaw
<1>3. CASE ~ Gone
  <2>1. Step(new)
    BY <1>3 DEF ReadForGroup, ReadRaw
  <2>2. /\ UNCHANGED <<captureVars, spec, store, expected>>
        /\ replay' = new /\ Report' = Report /\ UnsealedInv'
        /\ \A g : GroupAtRest(g)' = GroupAtRest(g)
    BY <1>1, <2>1, StepKeeps
  <2> HIDE DEF lost
  <2>3. /\ replay'.pc = "group" /\ replay'.report = replay.report
        /\ replay'.exit = replay.exit
        /\ replay'.result = replay.result /\ replay'.second = replay.second
        /\ replay'.moved = replay.moved /\ replay'.bindings = replay.bindings
        /\ replay'.group = replay.group /\ replay'.lost = lost
        /\ replay'.validation = replay.validation
    BY <1>1, <2>2 DEF TypeInv, TypeOK, ReplayType
  <2>4. ResultInv'
    BY <1>1, <2>2, <2>3, ResultStays DEF RaceInv
  <2>5. Undisturbed' <=> Undisturbed
    BY <1>1, <2>3 DEF Undisturbed
  <2>6. ASSUME Undisturbed PROVE ~ lost
    <3>1. Report.revision = "VALID" /\ ~ replay.lost
      BY <2>6 DEF RaceInv, RunningInv, Undisturbed
    <3> QED
      BY <3>1, ValidIsUntouched DEF lost
  <2>7. RunningInv'
    BY <1>1, <2>2, <2>3, <2>5, <2>6 DEF RaceInv, RunningInv
  <2>8. CriteriaInv'
    BY <2>3 DEF CriteriaInv
  <2> QED
    BY <2>2, <2>4, <2>7, <2>8 DEF RaceInv
<1> QED
  BY <1>2, <1>3

LEMMA CloseGroupRace == TypeInv /\ RaceInv /\ CloseGroup => RaceInv'
<1> SUFFICES ASSUME TypeInv, RaceInv, CloseGroup PROVE RaceInv'
  OBVIOUS
<1> DEFINE k == replay.group
           overall == Overall(replay.lost)
           todo == IF k + 1 \in GroupIds
                   THEN RawReads(k + 1, replay.report) ELSE {}
           new == [replay EXCEPT
               !.group = @ + 1, !.todo = todo, !.lost = FALSE,
               !.validation[k] = overall,
               !.bindings = @ \cup Bound(overall)]
<1>1. replay.pc = "group" /\ k \in GroupIds /\ Step(new)
  BY DEF CloseGroup
<1>2. /\ UNCHANGED <<captureVars, spec, store, expected>>
      /\ replay' = new /\ Report' = Report /\ UnsealedInv'
      /\ \A g : GroupAtRest(g)' = GroupAtRest(g)
  BY <1>1, StepKeeps
<1> HIDE DEF overall, todo
<1>3. /\ replay'.pc = "group" /\ replay'.report = replay.report
      /\ replay'.exit = replay.exit
      /\ replay'.result = replay.result /\ replay'.second = replay.second
      /\ replay'.moved = replay.moved
      /\ replay'.bindings = replay.bindings \cup Bound(overall)
      /\ replay'.group = replay.group + 1 /\ ~ replay'.lost
      /\ replay'.validation = [replay.validation EXCEPT ![k] = overall]
  BY <1>1, <1>2 DEF TypeInv, TypeOK, ReplayType
<1>4. ResultInv'
  <2>1. replay.exit \notin {"written", "RESULT_MISMATCH"}
    BY <1>1 DEF RaceInv, ResultInv
  <2> QED
    BY <1>2, <1>3, <2>1, ResultStays DEF RaceInv
<1>5. Undisturbed' <=> Undisturbed
  BY <1>1, <1>3 DEF Undisturbed
<1>6. Bound(overall) # {} => /\ replay.report.valid
                             /\ replay.report.revision = "VALID"
  BY DEF Bound, overall, Overall
<1>7. ASSUME Undisturbed
      PROVE  \A g \in GroupIds : replay'.validation[g] =
                 IF g < replay'.group THEN GroupAtRest(g) ELSE "NOT_PROVEN"
  <2>1. /\ ~ replay.lost /\ replay.report = Report
        /\ Report.valid /\ Report.revision = "VALID"
    BY <1>7 DEF RaceInv, RunningInv, Undisturbed
  <2>2. overall = GroupAtRest(k)
    BY <2>1, OverallAtRest DEF overall
  <2>3. \A g \in GroupIds : replay.validation[g] =
            IF g < k THEN GroupAtRest(g) ELSE "NOT_PROVEN"
    BY <1>7 DEF RaceInv, RunningInv
  <2>4. replay.validation \in [GroupIds -> Statuses]
    BY DEF TypeInv, TypeOK, ReplayType
  <2>5. \A g \in GroupIds : g < k + 1 <=> g < k \/ g = k
    BY <1>1 DEF GroupIds
  <2>6. ~ (k < k)
    BY <1>1 DEF GroupIds
  <2> QED
    BY <1>1, <1>3, <2>2, <2>3, <2>4, <2>5, <2>6
<1>8. RunningInv'
  BY <1>1, <1>2, <1>3, <1>5, <1>6, <1>7 DEF RaceInv, RunningInv
<1>9. CriteriaInv'
  BY <1>3 DEF CriteriaInv
<1> QED
  BY <1>2, <1>4, <1>8, <1>9 DEF RaceInv

\* Before the bound bytes are read, nothing is counted.
LEMMA VerifyAgainRace ==
    Inv /\ TypeInv /\ VerdictInv /\ RaceInv /\ VerifyAgain => RaceInv'
<1> SUFFICES ASSUME Inv, TypeInv, VerdictInv, RaceInv, VerifyAgain
             PROVE  RaceInv'
  OBVIOUS
<1> DEFINE todo == IF AllBound(spec.check_runs)
                   THEN {BoundRead} \X spec.check_runs ELSE {}
           recorded == RawApiDataStored(Report)
           new == [replay EXCEPT !.pc = "read", !.recorded = recorded,
                                 !.todo = todo]
<1>1. replay.pc = "group" /\ replay.group \notin GroupIds /\ Step(new)
  BY DEF VerifyAgain
<1>2. /\ UNCHANGED <<captureVars, spec, store, expected>>
      /\ replay' = new /\ Report' = Report /\ UnsealedInv'
      /\ \A g : GroupAtRest(g)' = GroupAtRest(g)
      /\ RoleAtRest' <=> RoleAtRest
      /\ StoredAtRest' = StoredAtRest
  BY <1>1, StepKeeps
<1> HIDE DEF todo, recorded
<1>3. /\ replay'.pc = "read" /\ replay'.report = replay.report
      /\ replay'.exit = replay.exit
      /\ replay'.result = replay.result /\ replay'.second = replay.second
      /\ replay'.moved = replay.moved /\ replay'.bindings = replay.bindings
      /\ replay'.group = replay.group /\ replay'.lost = replay.lost
      /\ replay'.validation = replay.validation
      /\ replay'.checks = replay.checks
      /\ replay'.recorded = recorded /\ replay'.todo = todo
  BY <1>1, <1>2 DEF TypeInv, TypeOK, ReplayType
<1>4. ResultInv'
  BY <1>1, <1>2, <1>3, ResultStays DEF RaceInv
<1>5. Undisturbed' <=> Undisturbed
  BY <1>1, <1>3 DEF Undisturbed
<1>6. RunningInv'
  BY <1>1, <1>2, <1>3, <1>5 DEF RaceInv, RunningInv
<1>7. ASSUME Undisturbed, replay.bindings # {}
      PROVE  /\ recorded = StoredAtRest
             /\ RoleAtRest => Counted(replay.checks, {})
             /\ RoleAtRest => WasRead' = {}
  <2>1. Report.valid /\ Report.revision = "VALID"
    BY <1>7 DEF RaceInv, RunningInv, Undisturbed
  <2>2. replay.bindings = DOMAIN pages
    BY <1>7 DEF Inv, ReplayInv, BoundIsWholeAnswer
  <2>3. recorded = StoredAtRest /\ (AllBound(spec.check_runs) <=> RoleAtRest)
    BY <2>1, <2>2, StoredIsDecided DEF recorded
  <2>4. replay.checks = 0
    BY <1>1 DEF VerdictInv
  <2>5. RoleAtRest => WasRead' = {}
    BY <1>2, <1>3, <2>3 DEF WasRead, todo
  <2> QED
    BY <2>3, <2>4, <2>5, CountedNone
<1>8. CriteriaInv'
  <2> SUFFICES ASSUME Undisturbed', (replay.bindings # {})'
               PROVE  (/\ replay.recorded = StoredAtRest
                       /\ RoleAtRest => Counted(replay.checks, WasRead))'
    BY DEF CriteriaInv
  <2>1. Undisturbed /\ replay.bindings # {}
    BY <1>3, <1>5
  <2>2. (replay.recorded = StoredAtRest)'
    BY <1>2, <1>3, <1>7, <2>1
  <2>3. ASSUME RoleAtRest' PROVE Counted(replay.checks, WasRead)'
    <3>1. Counted(replay.checks, {}) /\ WasRead' = {}
      BY <1>2, <1>7, <2>1, <2>3
    <3>2. replay'.checks = replay.checks /\ pages' = pages
      BY <1>2, <1>3 DEF captureVars
    <3> QED
      BY <3>1, <3>2 DEF Counted, NoCheck, OneCheck
  <2> QED
    BY <2>2, <2>3
<1> QED
  BY <1>2, <1>4, <1>6, <1>8 DEF RaceInv

\* A bound page is counted as it was captured.
LEMMA ReadBoundRace == Inv /\ TypeInv /\ RaceInv /\ ReadBound => RaceInv'
<1> SUFFICES ASSUME Inv, TypeInv, RaceInv, ReadBound PROVE RaceInv'
  OBVIOUS
<1> DEFINE id == First(replay.todo)[2]
           new == [replay EXCEPT !.todo = @ \ {<<BoundRead, id>>},
                                 !.checks = @ + OnDisk(id)]
<1>1. replay.pc = "read" /\ replay.todo # {}
  BY DEF ReadBound
<1>2. CASE Gone \/ Drifted(id)
  BY <1>1, <1>2, StopRace DEF ReadBound
<1>3. CASE ~ Gone /\ ~ Drifted(id)
  <2>1. Step(new)
    BY <1>3 DEF ReadBound
  <2>2. /\ UNCHANGED <<captureVars, spec, store, expected>>
        /\ replay' = new /\ Report' = Report /\ UnsealedInv'
        /\ \A g : GroupAtRest(g)' = GroupAtRest(g)
        /\ RoleAtRest' <=> RoleAtRest
        /\ StoredAtRest' = StoredAtRest
    BY <1>1, <2>1, StepKeeps
  <2>3. /\ First(replay.todo) \in replay.todo
        /\ <<BoundRead, id>> \in replay.todo
        /\ id \in spec.check_runs /\ id \in DOMAIN pages
    BY <1>1, NextIsAPage
  <2>4. OnDisk(id) = pages[id].answer.checks
    BY <1>3 DEF OnDisk, Drifted
  <2> HIDE DEF id
  <2>5. /\ replay'.pc = "read" /\ replay'.report = replay.report
        /\ replay'.exit = replay.exit
        /\ replay'.result = replay.result /\ replay'.second = replay.second
        /\ replay'.moved = replay.moved /\ replay'.bindings = replay.bindings
        /\ replay'.group = replay.group /\ replay'.lost = replay.lost
        /\ replay'.validation = replay.validation
        /\ replay'.recorded = replay.recorded
        /\ replay'.checks = replay.checks + pages[id].answer.checks
        /\ replay'.todo = replay.todo \ {<<BoundRead, id>>}
    BY <1>1, <2>2, <2>4 DEF TypeInv, TypeOK, ReplayType
  <2>6. ResultInv'
    BY <1>1, <2>2, <2>5, ResultStays DEF RaceInv
  <2>7. Undisturbed' <=> Undisturbed
    BY <1>1, <2>5 DEF Undisturbed
  <2>8. RunningInv'
    BY <1>1, <2>2, <2>5, <2>7 DEF RaceInv, RunningInv
  <2>9. WasRead' = WasRead \cup {id} /\ id \notin WasRead
    BY <2>2, <2>3, <2>5 DEF WasRead
  <2>10. ASSUME Undisturbed, replay.bindings # {}, RoleAtRest
         PROVE  Counted(replay.checks, WasRead)'
    <3>1. Counted(replay.checks, WasRead)
      BY <1>1, <2>10 DEF RaceInv, CriteriaInv
    <3>2. \A i \in WasRead \cup {id} : i \in DOMAIN pages
      BY <2>3, <2>10 DEF WasRead, RoleAtRest
    <3>3. \A i \in WasRead \cup {id} : pages[i].answer.checks \in Nat
      BY <3>2, PagesHaveChecks DEF Inv
    <3>4. Counted(replay.checks + pages[id].answer.checks, WasRead \cup {id})
      BY <2>9, <3>1, <3>3, CountedOneMore
    <3>5. pages' = pages
      BY <2>2 DEF captureVars
    <3> QED
      BY <2>5, <2>9, <3>4, <3>5 DEF Counted, NoCheck, OneCheck
  <2>11. CriteriaInv'
    <3> SUFFICES ASSUME Undisturbed', (replay.bindings # {})'
                 PROVE  (/\ replay.recorded = StoredAtRest
                         /\ RoleAtRest => Counted(replay.checks, WasRead))'
      BY DEF CriteriaInv
    <3>1. Undisturbed /\ replay.bindings # {}
      BY <2>5, <2>7
    <3>2. (replay.recorded = StoredAtRest)'
      BY <1>1, <2>2, <2>5, <3>1 DEF RaceInv, CriteriaInv
    <3> QED
      BY <2>2, <2>10, <3>1, <3>2
  <2> QED
    BY <2>2, <2>6, <2>8, <2>11 DEF RaceInv
<1> QED
  BY <1>2, <1>3

-----------------------------------------------------------------------------
(* The comparison *)

\* Two decided results with the same snapshot are equal.
LEMMA SameSnapshotSameResult ==
    ASSUME NEW new \in ResultType, NEW old \in ResultType,
           Digest(new) = Digest(old), DecidedAtRest(new), DecidedAtRest(old)
    PROVE  new = old
<1>1. /\ new.bindings = old.bindings /\ new.edited = old.edited
      /\ new.definition = old.definition
  BY DEF Digest
<1>2. /\ new.validation = old.validation /\ new.s7_01 = old.s7_01
      /\ new.s7_04 = old.s7_04
  BY DEF DecidedAtRest
<1> QED
  BY <1>1, <1>2 DEF ResultType

\* The result of a replay that nobody disturbed is the decided one.
LEMMA ResultIsDecided ==
    ASSUME Inv, TypeInv, RaceInv, replay.pc = "read", replay.todo = {},
           ~ replay.moved, replay.bindings # {}
    PROVE  DecidedAtRest(Result)
<1>1. Undisturbed
  BY DEF RaceInv, RunningInv, Undisturbed
<1>2. replay.bindings = DOMAIN pages
  BY DEF Inv, ReplayInv, BoundIsWholeAnswer
<1>3. /\ replay.recorded = StoredAtRest
      /\ RoleAtRest => Counted(replay.checks, WasRead)
  BY <1>1 DEF RaceInv, CriteriaInv
<1>4. WasRead = spec.check_runs
  BY DEF WasRead
<1>5. AllBound(spec.check_runs) <=> RoleAtRest
  BY <1>2 DEF AllBound, RoleAtRest
<1>6. OneAppCheck = CheckAtRest
  BY <1>3, <1>4, <1>5, CheckIsDecided
<1>7. replay.validation = [g \in GroupIds |-> GroupAtRest(g)]
  <2>1. replay.group = 3
    BY DEF RaceInv, RunningInv, TypeInv, TypeOK, ReplayType, GroupIds
  <2>2. \A g \in GroupIds : g < replay.group
    BY <2>1 DEF GroupIds
  <2>3. replay.validation \in [GroupIds -> Statuses]
    BY DEF TypeInv, TypeOK, ReplayType
  <2>4. \A g \in GroupIds : replay.validation[g] = GroupAtRest(g)
    BY <1>1, <2>2 DEF RaceInv, RunningInv
  <2> QED
    BY <2>3, <2>4
<1> QED
  BY <1>2, <1>3, <1>6, <1>7 DEF Result, DecidedAtRest

LEMMA JudgeRace == Inv /\ TypeInv /\ RaceInv /\ Judge => RaceInv'
<1> SUFFICES ASSUME Inv, TypeInv, RaceInv, Judge PROVE RaceInv'
  OBVIOUS
<1> DEFINE exit == IF replay.second
                   THEN Mismatch(Result, expected.result) ELSE "written"
           new == [replay EXCEPT !.pc = "done", !.result = Result,
                                 !.exit = exit]
<1>1. replay.pc = "read" /\ replay.todo = {} /\ Step(new)
  BY DEF Judge
<1>2. /\ UNCHANGED <<captureVars, spec, store, expected>>
      /\ replay' = new /\ UnsealedInv'
      /\ \A r : DecidedAtRest(r)' <=> DecidedAtRest(r)
  BY <1>1, StepKeeps
<1> HIDE DEF exit
<1>3. /\ replay'.pc = "done" /\ replay'.report = replay.report
      /\ replay'.exit = exit
      /\ replay'.result = Result /\ replay'.second = replay.second
      /\ replay'.moved = replay.moved /\ replay'.bindings = replay.bindings
  BY <1>2 DEF TypeInv, TypeOK, ReplayType
<1>4. RunningInv' /\ CriteriaInv'
  BY <1>3 DEF RaceInv, RunningInv, CriteriaInv, Undisturbed
<1>5. Result # <<>> /\ Result.bindings = replay.bindings
  <2>1. "bindings" \in DOMAIN Result /\ "bindings" \notin DOMAIN <<>>
    BY DEF Result
  <2> QED
    BY <2>1 DEF Result
<1>6. ~ replay.moved /\ Result.bindings # {} => DecidedAtRest(Result)
  BY <1>1, <1>5, ResultIsDecided
<1>7. ASSUME exit = "RESULT_MISMATCH", replay.bindings # {}
      PROVE  replay.moved \/ expected.moved
  <2> SUFFICES ASSUME ~ replay.moved, ~ expected.moved PROVE FALSE
    OBVIOUS
  <2>1. /\ replay.second
        /\ Digest(Result) = Digest(expected.result)
        /\ Result # expected.result
    BY <1>7 DEF exit, Mismatch
  <2>2. expected.result # <<>>
    BY <2>1 DEF RaceInv, ResultInv
  <2>3. expected.result \in ResultType
    BY <2>2 DEF TypeInv, TypeOK
  <2>4. expected.result.bindings = Result.bindings
    BY <2>1 DEF Digest
  <2>5. DecidedAtRest(expected.result)
    BY <1>5, <1>7, <2>2, <2>4 DEF RaceInv, ResultInv
  <2>6. DecidedAtRest(Result)
    BY <1>5, <1>6, <1>7
  <2>7. Result \in ResultType
    <3>1. OneAppCheck \in Statuses
      BY DEF OneAppCheck, Statuses
    <3>2. (replay.bindings # {} /\ replay.report.edited) \in BOOLEAN
      BY DEF TypeInv, TypeOK, ReplayType, ReportType
    <3> QED
      BY <3>1, <3>2 DEF Result, ResultType, TypeInv, TypeOK, ReplayType
  <2> QED
    BY <2>1, <2>3, <2>5, <2>6, <2>7, SameSnapshotSameResult
<1>8. ResultInv'
  BY <1>2, <1>3, <1>5, <1>6, <1>7 DEF RaceInv, ResultInv, MismatchMeansRace
<1> QED
  BY <1>2, <1>4, <1>8 DEF RaceInv

LEMMA RaceStep ==
    Inv /\ TypeInv /\ VerdictInv /\ RaceInv /\ [Next]_vars => RaceInv'
<1> SUFFICES ASSUME Inv, TypeInv, VerdictInv, RaceInv, [Next]_vars
             PROVE  RaceInv'
  OBVIOUS
<1>1. CASE UNCHANGED vars
  <2>1. UNCHANGED <<captureVars, spec, store, replay, expected>>
    BY <1>1 DEF vars
  <2> QED
    BY <2>1, RaceAtRest
<1> QED
  BY <1>1, CaptureRace, SealRace, StartRace, AgainRace, EnvironmentRace,
     BeginRace, ReadForGroupRace, CloseGroupRace, VerifyAgainRace,
     ReadBoundRace, JudgeRace DEF Next, ReplayStep

\* Two replays that bound the same evidence and yet differ were disturbed:
\* without a change of the store while one of them runs, the bound hashes and
\* the Definition decide the result (replay.py, RESULT_MISMATCH).
THEOREM MismatchIsRace == Spec => []MismatchMeansRace
<1>1. Spec => []VerdictInv
  BY VerdictInit, VerdictStep, InvHolds, PTL DEF Spec
<1>2. Spec => []RaceInv
  BY <1>1, RaceInit, RaceStep, InvHolds, TypesHold, PTL DEF Spec
<1>3. RaceInv => MismatchMeansRace
  BY DEF RaceInv, ResultInv
<1> QED
  BY <1>2, <1>3, PTL
=============================================================================
