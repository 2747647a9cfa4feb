--------------------------- MODULE EvidenceReplay ---------------------------
(***************************************************************************)
(* The way of captured evidence to a verdict: the pages of one capture are *)
(* sealed in a revision of the Evidence Store, groups of them pass the     *)
(* integrity validator (evidence/integrity.py), what passed is bound to    *)
(* hashes (evidence/snapshot.py), the evaluator judges bound bytes only    *)
(* (evidence/evaluator.py), and a second replay is compared with the       *)
(* result of the first one (evidence/replay.py).                           *)
(*                                                                         *)
(* Another process, a disk or a Human may change the store between any two *)
(* reads of a replay.  EvidenceStore.tla models how revisions come to be;  *)
(* here one revision is written and verify() is what it reports of it.     *)
(* Of the criteria, S7-01 (the raw data is stored) and S7-04 (exactly one  *)
(* check of the App) are judged, over the one role both have in common.    *)
(***************************************************************************)
EXTENDS EvidenceCapture

CONSTANTS
    Specs,       \* replay specifications: validation groups and a bundle
    MaxChanges,  \* bound: changes of the store from outside
    MaxVersion   \* bound: versions of the Definition

Ids == 1..(MaxPages + 1)           \* an id beyond the pages is never stored
GroupIds == {1, 2}

SpecType == [groups : [GroupIds -> [ids : SUBSET Ids, complete : BOOLEAN]],
             check_runs : SUBSET Ids]

ASSUME ReplayAssumption ==
    /\ Specs \subseteq SpecType
    /\ MaxChanges \in Nat
    /\ MaxVersion \in Nat \ {0}

VARIABLES
    store,       \* what is on disk of the revision with the capture
    changes,     \* changes of the store so far
    definition,  \* version of the Definition file
    spec,        \* the replay specification in use
    replay,      \* the running replay
    expected     \* the result of the first replay, and whether it is there

vars == <<captureVars, store, changes, definition, spec, replay, expected>>
others == <<captureVars, changes, definition, spec>>

\* A file that differs, a foreign file in the directory, or no directory.  An
\* altered envelope no longer parses as one.
Whole == 0
Damage == ({"stray", "gone"} \X {Whole}) \cup ({"raw", "envelope"} \X Ids)

\* edited: the manifest was rewritten and is still a manifest of the files.
\* next: the revision after it, and the state that one chains to.
StateType == [damage : SUBSET Damage, edited : BOOLEAN]
StoreType == [sealed : BOOLEAN, state : StateType,
              next : {"none", "revision", "quarantine"}, chained : StateType]
Intact == [damage |-> {}, edited |-> FALSE]

Statuses == {"PASS", "FAILED", "NOT_PROVEN"}
ReportType == [valid : BOOLEAN,
               revision : {"absent", "VALID", "QUARANTINED", "broken"},
               edited : BOOLEAN, held : SUBSET Ids]
NoReport == [valid |-> FALSE, revision |-> "absent", edited |-> FALSE,
             held |-> {}]

ResultType == [bindings : SUBSET Ids, edited : BOOLEAN,
               validation : [GroupIds -> Statuses],
               s7_01 : Statuses, s7_04 : Statuses, definition : 1..MaxVersion]

Exits == {"none", "written", "DEFINITION_CHANGED", "SNAPSHOT_CHANGED",
           "RESULT_MISMATCH", "drift", "uncaught"}

\* What a pending read of an item is for: a check of its group, V6 or W4, or
\* the evaluation of bound bytes.  The numbers are the order of the checks.
V6Read == 1
W4Read == 2
BoundRead == 3
Reads == V6Read..BoundRead

ReplayType ==
    [pc : {"idle", "begin", "group", "read", "done"},
     report : ReportType, group : 1..3, todo : SUBSET (Reads \X Ids),
     lost : BOOLEAN,
     bindings : SUBSET Ids, validation : [GroupIds -> Statuses],
     recorded : Statuses, checks : Nat, exit : Exits,
     result : ResultType \cup {<<>>}, moved : BOOLEAN, second : BOOLEAN]

NewReplay(second) ==
    [pc |-> "begin", report |-> NoReport, group |-> 1, todo |-> {},
     lost |-> FALSE, bindings |-> {},
     validation |-> [g \in GroupIds |-> "NOT_PROVEN"],
     recorded |-> "NOT_PROVEN", checks |-> 0, exit |-> "none",
     result |-> <<>>, moved |-> FALSE, second |-> second]

-----------------------------------------------------------------------------
(* The store *)

Gone == <<"gone", Whole>> \in store.state.damage

\* EvidenceStore.verify() with this revision, and one more if there is one.
\* No hash covers the manifest of the last revision.  held: the ids whose
\* envelope it read, also in a revision that is broken.
Report ==
    LET revision ==
            IF ~ store.sealed \/ Gone THEN "absent"
            ELSE IF store.state.damage = {} THEN "VALID"
            ELSE IF /\ store.next = "quarantine"
                    /\ store.chained = store.state THEN "QUARANTINED"
            ELSE "broken"
    IN  [revision |-> revision,
         edited |-> store.state.edited,
         held |-> IF revision = "absent" THEN {}
                  ELSE {id \in DOMAIN evidence :
                            <<"envelope", id>> \notin store.state.damage},
         valid |-> CASE revision = "absent" -> store.next = "none"
                     [] revision = "VALID" ->
                            \/ store.next = "none"
                            \/ /\ store.next = "revision"
                               /\ store.chained = store.state
                     [] revision = "QUARANTINED" -> TRUE
                     [] revision = "broken" -> FALSE]

\* Every page the gate let through is added to one revision and sealed.
Seal ==
    /\ phase = "captured"
    /\ DOMAIN evidence # {}
    /\ ~ store.sealed
    /\ store' = [store EXCEPT !.sealed = TRUE]
    /\ UNCHANGED <<others, replay, expected>>

Running == replay.pc \notin {"idle", "done"}

\* No replay is left that could see a change.
Over == replay.pc = "done" /\ (replay.second \/ replay.exit # "written")

Changed(new) ==
    /\ store.sealed
    /\ ~ Over
    /\ changes < MaxChanges
    /\ changes' = changes + 1
    /\ store' = new
    /\ replay' = [replay EXCEPT !.moved = @ \/ Running]
    /\ UNCHANGED <<captureVars, definition, spec, expected>>

\* Something outside alters what the revision directory holds, or undoes it.
Present == ({"stray", "gone"} \X {Whole})
           \cup ({"envelope"} \X DOMAIN evidence)
           \cup ({"raw"} \X {id \in DOMAIN evidence : evidence[id].raw})

Alter(d) == /\ d \in Present \ store.state.damage
            /\ ~ Gone
            /\ Changed([store EXCEPT !.state.damage = @ \cup {d}])

Edit == /\ ~ store.state.edited
        /\ ~ Gone
        /\ Changed([store EXCEPT !.state.edited = TRUE])

Restore == /\ store.state # Intact
           /\ Changed([store EXCEPT !.state = Intact])

\* begin_revision of another caller: only on a store that verifies.
Follow == /\ Report.valid
          /\ Report.revision = "VALID"
          /\ store.next = "none"
          /\ Changed([store EXCEPT !.next = "revision",
                                   !.chained = store.state])

\* quarantine_latest: a Human approves the broken state as it is.
Quarantine == /\ Report.revision = "broken"
              /\ store.next = "none"
              /\ Changed([store EXCEPT !.next = "quarantine",
                                       !.chained = store.state])

-----------------------------------------------------------------------------
(* integrity.validate *)

Group == spec.groups[replay.group]
Located == Group.ids \cap replay.report.held

\* read_raw is called for V6 on what came with status 200, then for W4.
RawReads(g, report) ==
    LET named == {id \in spec.groups[g].ids \cap report.held :
                     /\ evidence[id].raw
                     /\ report.valid /\ report.revision = "VALID"}
    IN  ({V6Read} \X {id \in named : evidence[id].status = 200})
        \cup ({W4Read} \X named)

Complete(id) == evidence[id].complete

\* Faulty variant: V5 does not look for pages that the group leaves out.
V5_NamedOnly(ids) == \A id \in ids : evidence[id].pagination_complete

\* V5: the pages named are all of the capture, with no gap, up to the last.
V5(ids) ==
    /\ \A id \in ids : evidence[id].pagination_complete
    /\ DOMAIN evidence \subseteq ids
    /\ DOMAIN evidence = 1..Cardinality(DOMAIN evidence)
    /\ \E last \in DOMAIN evidence :
           /\ \A id \in DOMAIN evidence : id <= last
           /\ ~ evidence[last].has_next

\* V6: status 200 and a body that parses; read_raw answered every time.
V6(ids) == \A id \in ids :
    /\ evidence[id].status = 200
    /\ evidence[id].raw
    /\ pages[id].answer.parses

V7(ids) == Group.complete => \A id \in ids : Complete(id)

\* The overall status of a group, from the report and the bytes re-read.
\* A store that does not verify always carries a finding of its own.
Overall(lost) ==
    IF ~ replay.report.valid THEN "FAILED"
    ELSE IF /\ replay.report.revision = "QUARANTINED"
            /\ Located # {} THEN "FAILED"
    ELSE IF /\ replay.report.revision = "VALID"
            /\ Group.ids # {}
            /\ Group.ids \subseteq replay.report.held
            /\ V5(Located) /\ V6(Located) /\ V7(Located)
            /\ ~ lost THEN "PASS"
    ELSE "NOT_PROVEN"

-----------------------------------------------------------------------------
(* One replay *)

Step(new) == /\ replay' = new
             /\ UNCHANGED <<others, store, expected>>

Stop(exit) == Step([replay EXCEPT !.pc = "done", !.exit = exit])

\* A replay of the capture's evidence, and one more with --expect.
Start ==
    /\ store.sealed
    /\ replay.pc = "idle"
    /\ Step(NewReplay(FALSE))

Again ==
    /\ replay.pc = "done"
    /\ replay.exit = "written"
    /\ ~ replay.second
    /\ expected' = [result |-> replay.result, moved |-> replay.moved]
    /\ replay' = NewReplay(TRUE)
    /\ UNCHANGED <<others, store>>

\* A new Definition is installed between two replays.
Upgrade ==
    /\ replay.pc = "done" /\ ~ Over
    /\ definition < MaxVersion
    /\ definition' = definition + 1
    /\ UNCHANGED <<captureVars, store, changes, spec, replay, expected>>

\* What the comparison refuses before it replays anything; then
\* snapshot.take, with one report of the store for all groups.
Begin ==
    /\ replay.pc = "begin"
    /\ IF replay.second /\ expected.result.definition # definition
       THEN Stop("DEFINITION_CHANGED")
       ELSE Step([replay EXCEPT !.pc = "group", !.report = Report,
                                !.todo = RawReads(1, Report)])

\* Reads are in the order of the checks, then of the ids.
First(reads) == CHOOSE r \in reads : \A other \in reads :
    r[1] < other[1] \/ (r[1] = other[1] /\ r[2] <= other[2])

\* Faulty variant: bytes that differ are read again instead of given up.
ReadRaw_Retries ==
    IF Gone THEN Stop("uncaught")
    ELSE LET r == First(replay.todo)
             differs == <<"raw", r[2]>> \in store.state.damage
         IN  Step([replay EXCEPT !.todo = IF differs THEN @ ELSE @ \ {r},
                                 !.lost = @ \/ differs])

\* EvidenceStore.read_raw: None when the bytes differ from the envelope; a
\* StoreError, which main() does not catch, when the directory is gone.
ReadRaw ==
    IF Gone THEN Stop("uncaught")
    ELSE LET r == First(replay.todo)
         IN  Step([replay EXCEPT
                 !.todo = @ \ {r},
                 !.lost = @ \/ <<"raw", r[2]>> \in store.state.damage])

ReadForGroup == /\ replay.pc = "group"
                /\ replay.todo # {}
                /\ ReadRaw

\* Faulty variant: what a group names is bound whatever its checks say.
Bound_Anyway(overall) == Located

\* Binding: the usable ids of a group that passed, and of no other group.
Bound(overall) == IF overall = "PASS" THEN Located ELSE {}

CloseGroup ==
    /\ replay.pc = "group"
    /\ replay.group \in GroupIds
    /\ replay.todo = {}
    /\ LET overall == Overall(replay.lost)
       IN  Step([replay EXCEPT
               !.group = @ + 1,
               !.todo = IF replay.group + 1 \in GroupIds
                        THEN RawReads(replay.group + 1, replay.report)
                        ELSE {},
               !.lost = FALSE,
               !.validation[replay.group] = overall,
               !.bindings = @ \cup Bound(overall)])

-----------------------------------------------------------------------------
(* evaluator.native_replay *)

AllBound(ids) == ids # {} /\ ids \subseteq replay.bindings

\* _native_s7_01 with rule_s7_evidence.raw_api_data_stored.
RawApiDataStored(report) ==
    IF ~ AllBound(spec.check_runs) \/ ~ report.valid THEN "NOT_PROVEN"
    ELSE IF report.revision # "VALID" THEN "NOT_PROVEN"
    ELSE IF \E id \in spec.check_runs : /\ ~ evidence[id].raw
                                        /\ evidence[id].status = 200
                                        /\ evidence[id].errors = {}
         THEN "FAILED"
    ELSE IF /\ \A id \in spec.check_runs : Complete(id)
            /\ DOMAIN evidence \subseteq spec.check_runs
         THEN "PASS" ELSE "NOT_PROVEN"

\* The store is verified again: S7-01 is judged from this second report,
\* and what the role names is read only if all of it is bound.
VerifyAgain ==
    /\ replay.pc = "group"
    /\ replay.group \notin GroupIds
    /\ Step([replay EXCEPT
           !.pc = "read",
           !.recorded = RawApiDataStored(Report),
           !.todo = IF AllBound(spec.check_runs)
                    THEN {BoundRead} \X spec.check_runs ELSE {}])

\* Faulty variant: the bytes are not compared with the bound hash.
Drifted_RawUnchecked(id) ==
    \/ store.state.edited # replay.report.edited
    \/ <<"envelope", id>> \in store.state.damage

\* Snapshot.read compares manifest, envelope and raw bytes with the binding.
Drifted(id) ==
    \/ store.state.edited # replay.report.edited
    \/ <<"envelope", id>> \in store.state.damage
    \/ <<"raw", id>> \in store.state.damage

\* The App checks in the bytes on disk; altered bytes show one.
OnDisk(id) == IF <<"raw", id>> \in store.state.damage THEN 1
              ELSE pages[id].answer.checks

ReadBound ==
    /\ replay.pc = "read"
    /\ replay.todo # {}
    /\ LET id == First(replay.todo)[2]
       IN  IF Gone THEN Stop("uncaught")
           ELSE IF Drifted(id) THEN Stop("drift")
           ELSE Step([replay EXCEPT !.todo = @ \ {<<BoundRead, id>>},
                                    !.checks = @ + OnDisk(id)])

\* rules_s7.exactly_one_app_check over the pages of the role.
OneAppCheck ==
    IF ~ AllBound(spec.check_runs) THEN "NOT_PROVEN"
    ELSE IF replay.checks = 1 THEN "PASS"
    ELSE IF replay.checks > 1 THEN "FAILED"
    ELSE "NOT_PROVEN"

Result == [bindings |-> replay.bindings,
           edited |-> replay.bindings # {} /\ replay.report.edited,
           validation |-> replay.validation,
           s7_01 |-> replay.recorded, s7_04 |-> OneAppCheck,
           definition |-> definition]

\* snapshot_sha256: the bound hashes and the Definition.
Digest(r) == <<r.bindings, r.edited, r.definition>>

\* The first difference from the expected result.
Mismatch(new, old) ==
    IF Digest(new) # Digest(old) THEN "SNAPSHOT_CHANGED"
    ELSE IF new # old THEN "RESULT_MISMATCH"
    ELSE "written"

Judge ==
    /\ replay.pc = "read"
    /\ replay.todo = {}
    /\ Step([replay EXCEPT
           !.pc = "done",
           !.result = Result,
           !.exit = IF replay.second
                    THEN Mismatch(Result, expected.result)
                    ELSE "written"])

ReplayStep == \/ Begin \/ ReadForGroup \/ CloseGroup
               \/ VerifyAgain \/ ReadBound \/ Judge

-----------------------------------------------------------------------------
(* The system *)

NothingExpected == [result |-> <<>>, moved |-> FALSE]

Init ==
    /\ CaptureInit
    /\ store = [sealed |-> FALSE, state |-> Intact, next |-> "none",
                chained |-> Intact]
    /\ changes = 0
    /\ definition = 1
    /\ spec \in Specs
    /\ replay = [NewReplay(FALSE) EXCEPT !.pc = "idle"]
    /\ expected = NothingExpected

Capture == /\ CaptureNext
           /\ UNCHANGED <<store, changes, definition, spec, replay, expected>>

Environment == \/ \E d \in Damage : Alter(d)
               \/ Edit \/ Restore \/ Follow \/ Quarantine \/ Upgrade

Next == \/ Capture \/ Seal \/ Start \/ Again
        \/ ReplayStep \/ Environment

\* The capture is one call and the replay one process; nothing in either
\* waits for another process.
Fairness == WF_vars(Capture) /\ WF_vars(ReplayStep)

Spec == Init /\ [][Next]_vars /\ Fairness

-----------------------------------------------------------------------------
(* Properties *)

TypeOK ==
    /\ CaptureTypeOK
    /\ store \in StoreType
    /\ changes \in 0..MaxChanges
    /\ definition \in 1..MaxVersion
    /\ spec \in Specs
    /\ replay \in ReplayType
    /\ expected \in [result : ResultType \cup {<<>>}, moved : BOOLEAN]

\* What the security gate did not call CLEAN is never kept as evidence, and
\* once a page was refused no other page of the capture counts as complete
\* (collector.py: "no sibling page may claim COMPLETE").
RefusedIsNeverKept ==
    /\ \A i \in DOMAIN evidence :
           /\ evidence[i].raw => Scan(pages[i].answer.text) = "CLEAN"
           /\ evidence[i].status # NoStatus =>
                  Scan(pages[i].answer.headers) = "CLEAN"
           /\ refusals # {} => ~ evidence[i].complete

\* Evidence is bound only if the capture received the whole answer: no page
\* missing, refused, damaged or cut off by a limit, none offered by the last
\* page (a next link, or hasNextPage in a GraphQL document) that was not
\* fetched, and all of them bound, even when the group does not ask for
\* complete evidence.
BoundIsWholeAnswer ==
    replay.bindings # {} => /\ WholeAnswer
                            /\ refusals = {}
                            /\ replay.bindings = DOMAIN pages

\* Of the pages of a set, exactly one reports a check of the App.
OneCheck(indices) ==
    \E i \in indices :
        /\ pages[i].answer.checks = 1
        /\ \A j \in indices \ {i} : pages[j].answer.checks = 0

\* When a result says that the raw data is stored (S7-01) and that there is
\* exactly one check of the App (S7-04), the whole answer of the API showed
\* exactly one, however the store changed while the replay was running.
RecordedPassIsTrue ==
    (/\ replay.result # <<>>
     /\ replay.result.s7_01 = "PASS"
     /\ replay.result.s7_04 = "PASS") => OneCheck(DOMAIN pages)

\* Two replays that bound the same evidence differ in their result only if
\* the store was changed while one of them was running: at rest, the
\* snapshot decides the result (replay.py, RESULT_MISMATCH).
MismatchMeansRace ==
    replay.exit = "RESULT_MISMATCH" /\ replay.bindings # {}
        => replay.moved \/ expected.moved

\* A capture and a replay that have started come to an end, whatever the
\* transport answers and whoever changes the store meanwhile.
CaptureEnds == <>(phase = "captured")
ReplayEnds == [](replay.pc = "begin" => <>(replay.pc = "done"))
BothEnd == CaptureEnds /\ ReplayEnds

\* "3 the store changed after the snapshot (evaluation refused)"
\* (replay.py:16-17): once the snapshot is taken, a replay that finds the store
\* changed ends with exit code 3, by SnapshotDrift and no other exception.
ChangeIsExit3 ==
    replay.pc = "done" /\ replay.group \notin GroupIds
        => replay.exit # "uncaught"
=============================================================================
