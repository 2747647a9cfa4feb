------------------------------- MODULE HumanGate -------------------------------
(***************************************************************************)
(* The Human Gate link of an evidence chain (iacreview/chain/gate.py): the *)
(* pull request and review captures the manifest names are read back from  *)
(* the evidence store, the gate records they give are regenerated, the     *)
(* presented record files are compared with them, and the approvals are    *)
(* judged (GV-1 to GV-4).  Everything here is a function of three things:  *)
(*                                                                         *)
(*  - capture: what the store holds.  capture.pull is a page of the pull   *)
(*    request or Nothing; capture.pages is a sequence of pages of reviews, *)
(*    each with the reviews and whether a next page was announced.         *)
(*  - listing: what the manifest names of it, and the store's own verdict. *)
(*  - entries: the presented records, one file per entry of the manifest.  *)
(*                                                                         *)
(* Digests are the values they are digests of, time stamps are numbers, a  *)
(* commit, an account or a record that is null in the raw answer is        *)
(* Nothing, and any field outside the recognised formats is the state      *)
(* UNKNOWN of its review.                                                  *)
(***************************************************************************)
EXTENDS Naturals, FiniteSets, Sequences, ChainStatus

CONSTANTS Nothing,      \* a null, an absent capture, a missing commit
          ConfigCommit  \* contract.config_commit of the manifest

STATES   == {"APPROVED", "CHANGES_REQUESTED", "COMMENTED", "DISMISSED", "PENDING"}
DECIDING == {"APPROVED", "CHANGES_REQUESTED"}
ASPECTS  == {"integrity", "account_separation", "revision_binding", "staleness"}
KINDS    == {"contract_approval", "candidate_review", "merge_decision"}

\* E-5: the page numbers are 1..n and every page but the last announces a next
\* page.  A set of at most one code.
page_sequence_problem(indexes, hasNext) ==
  LET n == Len(indexes) IN
  CASE Cardinality({indexes[i] : i \in 1..n}) # n -> {"review_capture_duplicate"}
    [] \E i \in 1..n : indexes[i] # i             -> {"review_capture_incomplete"}
    [] n = 0 \/ \E i \in 1..n : hasNext[i] # (i < n) -> {"review_capture_incomplete"}
    [] OTHER                                      -> {}

(* ------------------------------ load_sources --------------------------- *)

\* The listing of an untouched store whose manifest names every page.
\*   revision   the revision is VALID; reads     read_raw returns the bytes
\*   pull       the pull page is named; pages    the review pages that are named
\*   twin       the same capture of the reviews is stored and named twice
\*   integrity  PASS, or V5 / OTHER: the check of the validator that fails
\*   indexes    the page numbers the envelopes carry; decodes  pages are JSON
WholeListing(capture) ==
  [revision |-> TRUE, reads |-> TRUE, pull |-> TRUE,
   pages |-> DOMAIN capture.pages, twin |-> FALSE, integrity |-> "PASS",
   indexes |-> [i \in DOMAIN capture.pages |-> i], decodes |-> TRUE]

\* What the checks say of the captured reviews, when the manifest names one.
ReviewsCodes(capture, listing) ==
  IF listing.pages # DOMAIN capture.pages THEN {"review_capture_incomplete"}
  ELSE LET problem == page_sequence_problem(
                        listing.indexes,
                        [i \in DOMAIN capture.pages |-> capture.pages[i].next])
       IN IF problem # {} THEN problem
          ELSE IF ~capture.complete THEN {"review_capture_incomplete"}
          ELSE IF ~listing.reads THEN {"gate_source_integrity_not_pass"}
          ELSE {}

NamesReviews(capture, listing) == capture.pages # <<>> /\ listing.pages # {}
NamesPull(capture, listing)    == capture.pull # Nothing /\ listing.pull

\* The pull and review captures the gate may use, and the GV-1 codes of their
\* checks.  The E-1 check is about the pages that passed the others.
load_sources(capture, listing) ==
  LET none(codes) == [pull |-> FALSE, reviews |-> FALSE, codes |-> codes]
      problem == IF NamesReviews(capture, listing)
                 THEN ReviewsCodes(capture, listing) ELSE {}
      pull    == NamesPull(capture, listing) /\ listing.reads
      reviews == NamesReviews(capture, listing) /\ problem = {}
      unread  == IF NamesPull(capture, listing) /\ ~listing.reads
                 THEN {"gate_source_integrity_not_pass"} ELSE {}
      codes   == problem \cup unread
  IN CASE ~listing.revision -> none({"gate_source_integrity_not_pass"})
       [] (pull \/ reviews) /\ listing.integrity # "PASS" ->
            none(codes \cup {IF listing.integrity = "V5"
                             THEN "review_capture_incomplete"
                             ELSE "gate_source_integrity_not_pass"})
       [] reviews /\ listing.twin -> none(codes \cup {"gate_source_missing"})
       [] pull /\ reviews /\ capture.pull.number # capture.number ->
            none(codes \cup {"gate_source_missing"})
       [] OTHER -> [pull |-> pull, reviews |-> reviews, codes |-> codes]

(* ------------------------------- aggregate ----------------------------- *)

\* Review.key: by submitted_at, then by id.
Before(a, b) == \/ a.at < b.at
                \/ a.at = b.at /\ a.id < b.id

Latest(set) == CHOOSE r \in set : \A q \in set : q = r \/ Before(q, r)

\* The state of one reviewer, whose submitted reviews are own: the order of the
\* reviews must be shown by the time stamps and not be denied by the ids.
reviewer_state(own) ==
  LET ordering == {r \in own : r.state \in DECIDING \cup {"DISMISSED"}}
      deciding == {r \in own : r.state \in DECIDING}
      none(codes) == [state |-> "none", deciding |-> Nothing, codes |-> codes]
  IN CASE \E a, b \in ordering : a.at = b.at /\ a.state # b.state ->
            none({"review_order_ambiguous"})
       [] \E a, b \in ordering : a.at < b.at /\ a.id > b.id ->
            none({"review_order_inconsistent"})
       [] deciding = {} -> none({})
       [] \E r \in ordering : r.state = "DISMISSED" /\ Before(Latest(deciding), r) ->
            none({"review_dismissal_effect_unknown"})
       [] OTHER -> [state |-> IF Latest(deciding).state = "APPROVED"
                              THEN "approved" ELSE "changes_requested",
                    deciding |-> Latest(deciding), codes |-> {}]

\* Faulty variant: the same review on two pages is taken for one.
UnusableCodesOfRepeats(items) ==
  {"gate_source_unrecognized" : i \in {j \in DOMAIN items : items[j].state \notin STATES}}

\* Stage A of aggregate, over the reviews of every page in page order.
UnusableCodes(items) ==
  LET recognised == {i \in DOMAIN items : items[i].state \in STATES}
      first(i)   == CHOOSE j \in recognised :
                      /\ items[j].id = items[i].id
                      /\ \A k \in recognised : items[k].id = items[i].id => j <= k
      repeats    == {i \in recognised : first(i) # i}
  IN {"gate_source_unrecognized" : i \in DOMAIN items \ recognised}
     \cup {IF items[first(i)] = items[i] THEN "review_capture_duplicate"
           ELSE "review_conflict" : i \in repeats}

\* Stage B.  reviewers maps an account to its reviewer_state.
aggregate(items) ==
  LET submitted  == {items[i] : i \in {j \in DOMAIN items : items[j].state # "PENDING"}}
      accounts   == {r.user : r \in submitted} \ {Nothing}
      unusable   == UnusableCodes(items)
      reviewers  == IF unusable # {} THEN << >>
                    ELSE [u \in accounts |->
                            reviewer_state({r \in submitted : r.user = u})]
  IN [usable    |-> unusable = {},
      reviewers |-> reviewers,
      unknownActor |-> /\ unusable = {}
                       /\ \E r \in submitted : r.user = Nothing /\ r.state \in DECIDING,
      codes     |-> unusable \cup UNION {reviewers[u].codes : u \in DOMAIN reviewers}]

(* --------------------------------- build ------------------------------- *)

NoAggregation == [usable |-> FALSE, reviewers |-> << >>, unknownActor |-> FALSE,
                  codes |-> {}]

relation(user, author) ==
  IF author = Nothing THEN "unknown"
  ELSE IF user = author THEN "same_actor" ELSE "distinct_actor"

\* A gate record.  source says whether the evidence it cites is the manifest's
\* ("named"), evidence outside the manifest ("unlisted") or has another digest.
Record(kind, item, decision, commit, with) ==
  [kind |-> kind, item |-> item, decision |-> decision, commit |-> commit,
   relation |-> with, source |-> "named"]

Key(rec) == <<rec.kind, rec.item>>

ContractRecord ==
  Record("contract_approval", "git", "approved", ConfigCommit, "unknown")

MergeDecision(pull) ==
  CASE pull.state = "merged" -> {"merged"}
    [] pull.state = "closed" -> {"closed_unmerged"}
    [] pull.state = "open"   -> {"open"}
    [] OTHER                 -> {}

Items(pages) == LET f[n \in 0..Len(pages)] ==
                      IF n = 0 THEN <<>> ELSE f[n - 1] \o pages[n].items
                IN f[Len(pages)]

\* Everything regenerated from the raw evidence: the records, which kinds were
\* found (loaded) and which were read completely (complete), and the facts that
\* GV-2 to GV-4 read.
build(capture, listing) ==
  LET sources  == load_sources(capture, listing)
      seen     == sources.pull /\ listing.decodes
      decided  == IF seen THEN MergeDecision(capture.pull) ELSE {}
      readable == sources.reviews /\ listing.decodes
      agg      == IF readable THEN aggregate(Items(capture.pages)) ELSE NoAggregation
      author   == IF seen THEN capture.pull.author ELSE Nothing
      head     == IF seen THEN capture.pull.head ELSE Nothing
      undecoded == (sources.pull \/ sources.reviews) /\ ~listing.decodes
      review(u) == LET r == agg.reviewers[u] IN
                   Record("candidate_review", u, r.state,
                          IF r.deciding = Nothing THEN Nothing ELSE r.deciding.commit,
                          relation(u, author))
  IN [records  |-> {ContractRecord}
                   \cup {Record("merge_decision", "pull", d, head, "unknown") : d \in decided}
                   \cup {review(u) : u \in DOMAIN agg.reviewers},
      loaded   |-> {"contract_approval"}
                   \cup (IF sources.pull THEN {"merge_decision"} ELSE {})
                   \cup (IF sources.reviews THEN {"candidate_review"} ELSE {}),
      complete |-> {"contract_approval"}
                   \cup (IF decided # {} THEN {"merge_decision"} ELSE {})
                   \cup (IF agg.usable THEN {"candidate_review"} ELSE {}),
      agg      |-> agg,
      author   |-> author,
      head     |-> head,
      codes    |-> sources.codes \cup agg.codes
                   \cup (IF undecoded THEN {"review_capture_incomplete"} ELSE {})
                   \cup (IF seen /\ decided = {} THEN {"gate_source_unrecognized"} ELSE {})]

(* ---------------------------- _read_presented -------------------------- *)

\* An entry of the manifest: the kind it names, what is read from the file behind
\* it and the record of a file that is read.  A file outside the schema is garbage,
\* or a self-declaration when it states an approval.
RecordFiles == {"read", "missing", "unreadable", "changed", "garbage", "self_declaration"}

\* The code that makes an entry unusable: a set of at most one.
Refusal(entry) ==
  CASE entry.file = "missing"          -> {"gate_record_missing"}
    [] entry.file = "changed"          -> {"gate_record_mismatch"}
    [] entry.file = "self_declaration" -> {}
    [] entry.file = "read"             -> IF entry.record.kind = entry.kind THEN {}
                                          ELSE {"gate_record_mismatch"}
    [] OTHER                           -> {"gate_record_invalid"}

SelfDeclared(entries) == \E i \in DOMAIN entries : entries[i].file = "self_declaration"

Good(entries) == {i \in DOMAIN entries : entries[i].file = "read" /\ Refusal(entries[i]) = {}}

Repeated(entries) ==
  \E i, j \in Good(entries) : i # j /\ Key(entries[i].record) = Key(entries[j].record)

\* The unusable entries of a kind: each may stand for one of its records.
unusable(entries, kind) ==
  {i \in DOMAIN entries : entries[i].kind = kind /\ Refusal(entries[i]) # {}}

(* --------------------------------- check ------------------------------- *)

\* G-08: the evidence a record cites is evidence the manifest names.
Cited(rec, capture, listing) ==
  CASE rec.kind = "contract_approval" -> TRUE
    [] rec.source = "unlisted"        -> FALSE
    [] rec.kind = "merge_decision"    -> listing.pull
    [] OTHER                          -> listing.pages = DOMAIN capture.pages

\* Faulty variant: a record that nothing regenerates is let through.
RecordCodesOfTwins(rec, facts, cited) ==
  LET twins == {r \in facts.records : Key(r) = Key(rec)} IN
  IF ~cited THEN {<<"integrity", "gate_source_missing">>}
  ELSE (IF rec.kind = "contract_approval" /\ rec.commit # ConfigCommit
        THEN {<<"revision_binding", "gate_binds_other_commit">>} ELSE {})
       \cup {<<"integrity", "gate_record_mismatch">> : t \in twins \ {rec}}

\* G-09 to G-12 for one presented record: a set of <<aspect, code>>.
RecordCodes(rec, facts, cited) ==
  LET twins == {r \in facts.records : Key(r) = Key(rec)} IN
  IF ~cited THEN {<<"integrity", "gate_source_missing">>}
  ELSE (IF rec.kind = "contract_approval" /\ rec.commit # ConfigCommit
        THEN {<<"revision_binding", "gate_binds_other_commit">>} ELSE {})
       \cup
       (CASE twins = {} /\ rec.kind \in facts.complete ->
               {<<"integrity", "gate_record_mismatch">>}
          [] twins = {} /\ rec.kind \notin facts.loaded ->
               {<<"integrity", "gate_source_missing">>}
          [] rec \notin twins /\ twins # {} ->
               {<<"integrity", "gate_record_mismatch">>}
               \cup {<<"revision_binding", "approval_revision_misrecorded">> :
                       t \in {r \in twins : /\ rec.kind = "candidate_review"
                                            /\ r.commit # rec.commit}}
          [] OTHER -> {})

\* G-13: the regenerated records of a kind that nobody presented, beyond those an
\* unusable entry of that kind may stand for.
LeftOut(entries, facts, kind) ==
  LET keys == {Key(entries[i].record) : i \in Good(entries)}
      out  == {r \in facts.records : r.kind = kind /\ Key(r) \notin keys}
  IN /\ out # {}
     /\ unusable(entries, kind) = {} \/ Cardinality(out) > Cardinality(unusable(entries, kind))

IntegrityCodes(entries, facts) ==
  {<<"integrity", c>> : c \in facts.codes \cup UNION {Refusal(entries[i]) : i \in DOMAIN entries}}
  \cup (IF Repeated(entries) THEN {<<"integrity", "gate_record_invalid">>} ELSE {})
  \cup {<<"integrity", "gate_record_missing">> :
          k \in {m \in KINDS \ {"contract_approval"} : LeftOut(entries, facts, m)}}
  \cup (IF SelfDeclared(entries)
        THEN {<<"integrity", "approval_self_declared_only">>} ELSE {})

approved(facts) == {u \in DOMAIN facts.agg.reviewers : facts.agg.reviewers[u].state = "approved"}

distinct(facts) == {u \in approved(facts) : facts.author # Nothing /\ u # facts.author}

SeparationCodes(facts) ==
  {c \in {"changes_requested_outstanding", "actor_relation_unknown",
          "approval_not_shown", "separation_of_duty_not_shown"} :
     CASE c = "changes_requested_outstanding" ->
            \E u \in DOMAIN facts.agg.reviewers :
              facts.agg.reviewers[u].state = "changes_requested"
       [] c = "actor_relation_unknown" ->
            \/ facts.agg.unknownActor
            \/ approved(facts) # {} /\ facts.author = Nothing
       [] c = "approval_not_shown" -> approved(facts) = {}
       [] OTHER -> /\ approved(facts) # {}
                   /\ distinct(facts) = {}
                   /\ facts.author # Nothing}

\* GV-3: an approval of another commit is not counted.
BindingCodes(facts, head) ==
  LET commit(u) == facts.agg.reviewers[u].deciding.commit IN
  IF distinct(facts) = {} \/ \E u \in distinct(facts) : commit(u) = head THEN {}
  ELSE IF \E u \in distinct(facts) : commit(u) = Nothing
       THEN {"approval_revision_unverifiable"}
       ELSE {"approval_on_previous_head_only"}

Backed(entries, facts) ==
  \E i \in Good(entries) : LET rec == entries[i].record IN
    /\ rec.kind = "candidate_review"
    /\ rec.decision = "approved"
    /\ rec \in facts.records

StalenessCodes(entries, facts, head) ==
  (IF facts.head = Nothing THEN {"approval_revision_unverifiable"}
   ELSE IF facts.head # head THEN {"pr_head_mismatch"} ELSE {})
  \cup (IF SelfDeclared(entries) /\ ~Backed(entries, facts)
        THEN {"approval_self_declared_only"} ELSE {})

\* The codes of the link, each with its aspect, given the facts.
Judge(facts, capture, listing, entries, head) ==
  IntegrityCodes(entries, facts)
  \cup (UNION {RecordCodes(entries[i].record, facts,
                           Cited(entries[i].record, capture, listing)) :
                 i \in Good(entries)})
  \cup {<<"revision_binding", "gate_record_missing">> :
          k \in {"contract_approval"} \ {entries[i].record.kind : i \in Good(entries)}}
  \cup {<<"account_separation", c>> : c \in SeparationCodes(facts)}
  \cup {<<"revision_binding", c>> : c \in BindingCodes(facts, head)}
  \cup {<<"staleness", c>> : c \in StalenessCodes(entries, facts, head)}

\* The facts are regenerated once.
check(capture, listing, entries, head) ==
  UNION {Judge(facts, capture, listing, entries, head) : facts \in {build(capture, listing)}}

Codes(aspectCodes) == {p[2] : p \in aspectCodes}
================================================================================
