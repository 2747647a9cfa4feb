------------------------ MODULE EvidenceStoreProofs ------------------------
(***************************************************************************)
(* Proofs, for every set of ids and writers and every MAX_REVISIONS, of    *)
(* what the runs of MCEvidenceStore check on small instances: types, one   *)
(* writer per revision, final manifests, approved quarantines, and that    *)
(* the store implements EvidenceLog; that nothing unfinished is trusted;   *)
(* and, when the Human is careful, that no id is sealed twice and that     *)
(* what was quarantined never becomes VALID again.                         *)
(***************************************************************************)
EXTENDS EvidenceStore, FiniteSetTheorems, WellFoundedInduction, TLAPS

(* What a process knows about the revision it works on ... *)
Placed(p) ==
    /\ writer[p].pc # "idle" => writer[p].num \in 1..(Count + 1)
    /\ Live(p) => dirs[writer[p].num].made
    /\ IsQuarantine(p) => writer[p].record.rev \in Listed
    /\ IsQuarantine(p) /\ writer[p].pc # "diagnose" =>
          <<writer[p].record.rev, writer[p].record.state>> \in approved

(* ... and about its place in the calls that fill and seal it. *)
Working(p) ==
    /\ writer[p].pc \in {"open", "raw", "tmp"} => ~ dirs[writer[p].num].man
    /\ writer[p].pc = "raw" => writer[p].item \in Evidence
    /\ writer[p].pc = "tmp" => writer[p].entries # {}

WriterInv(p) == Placed(p) /\ Working(p)

(* A sealed revision exists and lists something; no record without one.   *)
DirInv(r) == /\ dirs[r].man => dirs[r].made /\ dirs[r].listed # {}
             /\ ~ dirs[r].man => dirs[r].record = NoRecord

(* What the Human handed over last was approved.                           *)
ApprovalInv ==
    approval.rev # 0 =>
        /\ approval.rev \in Listed
        /\ <<approval.rev, approval.diagnosis[approval.rev]>> \in approved

(* The inductive invariant. *)
IInv == /\ TypeOK
        /\ OneWriterPerRevision
        /\ NoRevisionGap
        /\ QuarantineWasApproved
        /\ \A p \in Writers : WriterInv(p)
        /\ \A r \in Revisions : DirInv(r)
        /\ ApprovalInv

-----------------------------------------------------------------------------
(* Listed revisions can be counted. *)
LEMMA ListedFinite ==
    ASSUME NEW S \in SUBSET Listed
    PROVE  /\ IsFiniteSet(S)
           /\ Cardinality(S) \in 0..MaxRevisions
           /\ S # {} => Cardinality(S) >= 1
  <1>1. IsFiniteSet(Listed) /\ Cardinality(Listed) = MaxRevisions
    BY FS_Interval, StoreAssumption DEF Listed
  <1>2. IsFiniteSet(S) /\ Cardinality(S) <= Cardinality(Listed)
    BY <1>1, FS_Subset
  <1>3. Cardinality(S) \in Nat
    BY <1>2, FS_CardinalityType
  <1>4. S # {} => Cardinality(S) # 0
    BY <1>2, FS_EmptySet
  <1>5. QED
    BY <1>1, <1>2, <1>3, <1>4, StoreAssumption

(* The number of revisions is at most MAX_REVISIONS, and the latest one is *)
(* a listed number.                                                        *)
LEMMA CountType ==
    /\ Count \in 0..MaxRevisions
    /\ Present # {} => Count \in Listed
  <1>1. Present \in SUBSET Listed
    BY DEF Present
  <1>2. QED
    BY <1>1, ListedFinite, StoreAssumption DEF Count, Listed

(* How the sets of revision numbers contain each other.                    *)
LEMMA NumberTypes == /\ Listed \subseteq Revisions
                     /\ Stray \in Revisions
                     /\ Listed \subseteq 0..MaxRevisions
                     /\ Revisions \subseteq 0..Stray
  BY StoreAssumption DEF Listed, Revisions, Stray

(* What _state_digest covers of a revision is a Snapshot.                  *)
LEMMA SnapshotType ==
    ASSUME TypeOK, NEW r \in Revisions
    PROVE  Snapshot(r) \in Snapshots
  BY DEF TypeOK, Snapshot, Snapshots, Dirs

(* The values that stand for "nothing" have the types of their variables.  *)
LEMMA NullTypes == /\ NoState \in Snapshots
                   /\ NoLink \in Links
                   /\ NoRecord \in Records
                   /\ NoDir \in Dirs
                   /\ IdleWriter \in WriterStates
                   /\ NoApproval \in Approvals
  <1>1. NoState \in Snapshots
    BY DEF NoState, Snapshots
  <1>2. NoLink \in Links /\ NoRecord \in Records /\ NoApproval \in Approvals
    BY <1>1, StoreAssumption
    DEF NoLink, Links, NoRecord, Records, NoApproval, Approvals
  <1>3. NoDir \in Dirs
    BY <1>2 DEF NoDir, Dirs
  <1>4. IdleWriter \in WriterStates
    BY <1>2, StoreAssumption
    DEF IdleWriter, WriterStates, Phases, Stray
  <1>5. QED
    BY <1>1, <1>2, <1>3, <1>4

(* One field of a directory at a time. *)
LEMMA DirFields ==
    ASSUME NEW d \in Dirs
    PROVE  /\ [d EXCEPT !.made = TRUE] \in Dirs
           /\ \A b \in BOOLEAN : [d EXCEPT !.tmp = b] \in Dirs
           /\ \A id \in Evidence :
                 /\ [d EXCEPT !.raw = d.raw \cup {id}] \in Dirs
                 /\ [d EXCEPT !.env = d.env \cup {id}] \in Dirs
                 /\ [d EXCEPT !.bad = {id}] \in Dirs
           /\ \A L \in SUBSET Evidence, k \in Links, q \in Records :
                 [d EXCEPT !.man = TRUE, !.listed = L, !.link = k,
                           !.record = q] \in Dirs
  BY DEF Dirs

(* A process inside a call works on a revision that has a directory entry. *)
LEMMA NumberOf ==
    ASSUME TypeOK, NEW p \in Writers, WriterInv(p), writer[p].pc # "idle"
    PROVE  /\ writer[p].num \in Revisions
           /\ dirs[writer[p].num] \in Dirs
  BY CountType, StoreAssumption DEF TypeOK, WriterInv, Placed, Working, Revisions, Stray

(* One or two fields of a writer at a time.                                *)
LEMMA WriterFields ==
    ASSUME NEW w \in WriterStates, NEW c \in Phases
    PROVE  /\ [w EXCEPT !.pc = c] \in WriterStates
           /\ \A i \in Evidence \cup {NoItem} :
                 [w EXCEPT !.pc = c, !.item = i] \in WriterStates
  BY DEF WriterStates

(* Every action keeps the types, given what the invariant says.            *)
LEMMA TypeStep ==
    ASSUME IInv, [Next]_vars
    PROVE  TypeOK'
  <1> USE DEF TypeOK
  <1>0. TypeOK /\ (\A q \in Writers : WriterInv(q))
    BY DEF IInv
  <1>1. ASSUME NEW p \in Writers, BeginRevision(p) PROVE TypeOK'
    <2>1. Count + 1 \in Listed
      BY <1>1, CountType, StoreAssumption DEF BeginRevision, Listed
    <2>2. UsedIds \in SUBSET Evidence
      BY <1>0, NumberTypes DEF UsedIds, Present, Envelopes, Dirs
    <2>3. (IF Count = 0 THEN NoLink ELSE ManifestLink(Count)) \in Links
      BY CountType, NullTypes DEF ManifestLink, Links
    <2>4. writer'[p] \in WriterStates
      BY <1>0, <1>1, <2>1, <2>2, <2>3, NullTypes, NumberTypes
      DEF BeginRevision, IdleWriter, WriterStates, Phases
    <2>5. writer'[p].num # Stray
      BY <1>0, <1>1, <2>1, StoreAssumption
      DEF BeginRevision, IdleWriter, Listed, Stray
    <2>6. \A q \in Writers \ {p} : writer'[q] = writer[q]
      BY <1>0, <1>1 DEF BeginRevision
    <2> QED
      BY <1>0, <1>1, <2>4, <2>5, <2>6 DEF BeginRevision, IsQuarantine
  <1>2. ASSUME NEW p \in Writers, Mkdir(p) PROVE TypeOK'
    <2>0. [dirs[writer[p].num] EXCEPT !.made = TRUE] \in Dirs
      BY <1>0, <1>2, NumberOf, DirFields DEF Mkdir
    <2>1. dirs' \in [Revisions -> Dirs]
      BY <1>0, <1>2, <2>0 DEF Mkdir
    <2>2. writer' \in [Writers -> WriterStates]
      <3>1. [writer[p] EXCEPT !.pc = "open"] \in WriterStates
        BY <1>0, WriterFields DEF Phases
      <3> QED
        BY <1>0, <1>2, <3>1, NullTypes DEF Mkdir
    <2>3. \A q \in Writers : writer'[q].num = Stray => IsQuarantine(q)'
      BY <1>0, <1>2, StoreAssumption
      DEF Mkdir, IsQuarantine, WriterStates, IdleWriter, Stray
    <2> QED
      BY <1>0, <1>2, <2>1, <2>2, <2>3 DEF Mkdir
  <1>3. ASSUME NEW p \in Writers, NEW id \in Evidence, AddRaw(p, id)
        PROVE  TypeOK'
    <2>1. dirs' \in [Revisions -> Dirs]
      BY <1>0, <1>3, NumberOf, DirFields
      DEF AddRaw
    <2>2. writer' \in [Writers -> WriterStates]
      <3>1. [writer[p] EXCEPT !.pc = "raw", !.item = id] \in WriterStates
        BY <1>0, WriterFields DEF Phases
      <3>2. writer' = [writer EXCEPT ![p] =
                         [writer[p] EXCEPT !.pc = "raw", !.item = id]]
        BY <1>0, <1>3 DEF AddRaw
      <3> QED
        BY <1>0, <3>1, <3>2
    <2>3. \A q \in Writers : writer'[q].num = Stray => IsQuarantine(q)'
      BY <1>0, <1>3 DEF AddRaw, IsQuarantine, WriterStates
    <2> QED
      BY <1>0, <1>3, <2>1, <2>2, <2>3 DEF AddRaw
  <1>4. ASSUME NEW p \in Writers, AddEnvelope(p) PROVE TypeOK'
    <2>0. writer[p].item \in Evidence
      BY <1>0, <1>4 DEF AddEnvelope, WriterInv, Placed, Working
    <2>1. dirs' \in [Revisions -> Dirs]
      BY <1>0, <1>4, <2>0, NumberOf, DirFields
      DEF AddEnvelope
    <2>2. writer' \in [Writers -> WriterStates]
      <3>1. /\ writer[p] \in WriterStates
            /\ writer[p].used \cup {writer[p].item} \in SUBSET Evidence
            /\ writer[p].entries \cup {writer[p].item} \in SUBSET Evidence
        BY <1>0, <2>0 DEF WriterStates
      <3>2. [writer[p] EXCEPT
               !.pc = "open", !.item = NoItem,
               !.used = writer[p].used \cup {writer[p].item},
               !.entries = writer[p].entries \cup {writer[p].item}]
            \in WriterStates
        BY <3>1 DEF WriterStates, Phases
      <3>3. writer' = [writer EXCEPT ![p] =
              [writer[p] EXCEPT
                 !.pc = "open", !.item = NoItem,
                 !.used = writer[p].used \cup {writer[p].item},
                 !.entries = writer[p].entries \cup {writer[p].item}]]
        BY <1>0, <1>4 DEF AddEnvelope, WriterStates
      <3> QED
        BY <1>0, <3>2, <3>3
    <2>3. \A q \in Writers : writer'[q].num = Stray => IsQuarantine(q)'
      BY <1>0, <1>4 DEF AddEnvelope, IsQuarantine, WriterStates
    <2> QED
      BY <1>0, <1>4, <2>1, <2>2, <2>3 DEF AddEnvelope
  <1>5. ASSUME NEW p \in Writers, NEW id \in Ids, AddBare(p, id)
        PROVE  TypeOK'
    <2>0. id \in Evidence
      BY DEF Evidence
    <2>1. dirs' \in [Revisions -> Dirs]
      <3>1. /\ writer[p].num \in Revisions
            /\ dirs[writer[p].num] \in Dirs
        BY <1>0, <1>5, NumberOf DEF AddBare
      <3>2. [dirs[writer[p].num] EXCEPT
               !.env = dirs[writer[p].num].env \cup {id},
               !.bad = dirs[writer[p].num].bad
                         \cup (dirs[writer[p].num].raw \cap {id})] \in Dirs
        BY <2>0, <3>1 DEF Dirs
      <3> QED
        BY <1>0, <1>5, <3>1, <3>2 DEF AddBare
    <2>2. writer' \in [Writers -> WriterStates]
      BY <1>0, <1>5, <2>0 DEF AddBare, WriterStates
    <2>3. \A q \in Writers : writer'[q].num = Stray => IsQuarantine(q)'
      BY <1>0, <1>5 DEF AddBare, IsQuarantine, WriterStates
    <2> QED
      BY <1>0, <1>5, <2>1, <2>2, <2>3 DEF AddBare
  <1>6. ASSUME NEW p \in Writers, AddFails(p) PROVE TypeOK'
    <2>1. [writer[p] EXCEPT !.pc = "open", !.item = NoItem] \in WriterStates
      BY <1>0, WriterFields DEF Phases
    <2>2. writer' = [writer EXCEPT ![p] =
                       [writer[p] EXCEPT !.pc = "open", !.item = NoItem]]
      BY <1>0, <1>6 DEF AddFails
    <2>3. writer' \in [Writers -> WriterStates]
      BY <1>0, <2>1, <2>2
    <2>4. \A q \in Writers : writer'[q].num = Stray => IsQuarantine(q)'
      BY <1>0, <1>6 DEF AddFails, IsQuarantine, WriterStates
    <2> QED
      BY <1>0, <1>6, <2>3, <2>4 DEF AddFails
  <1>7. ASSUME NEW p \in Writers, WriteTmp(p) PROVE TypeOK'
    <2>1. dirs' \in [Revisions -> Dirs]
      BY <1>0, <1>7, NumberOf, DirFields
      DEF WriteTmp
    <2>2. writer' \in [Writers -> WriterStates]
      <3>1. [writer[p] EXCEPT !.pc = "tmp"] \in WriterStates
        BY <1>0, WriterFields DEF Phases
      <3> QED
        BY <1>0, <1>7, <3>1 DEF WriteTmp
    <2>3. \A q \in Writers : writer'[q].num = Stray => IsQuarantine(q)'
      BY <1>0, <1>7 DEF WriteTmp, IsQuarantine, WriterStates
    <2> QED
      BY <1>0, <1>7, <2>1, <2>2, <2>3 DEF WriteTmp
  <1>8. ASSUME NEW p \in Writers, LinkManifest(p) PROVE TypeOK'
    <2>1. dirs' \in [Revisions -> Dirs]
      BY <1>0, <1>8, NumberOf, DirFields
      DEF LinkManifest, WriterStates
    <2>2. writer' \in [Writers -> WriterStates]
      <3>1. [writer[p] EXCEPT !.pc = "linked"] \in WriterStates
        BY <1>0, WriterFields DEF Phases
      <3> QED
        BY <1>0, <1>8, <3>1 DEF LinkManifest
    <2>3. \A q \in Writers : writer'[q].num = Stray => IsQuarantine(q)'
      BY <1>0, <1>8 DEF LinkManifest, IsQuarantine, WriterStates
    <2> QED
      BY <1>0, <1>8, <2>1, <2>2, <2>3 DEF LinkManifest
  <1>9. ASSUME NEW p \in Writers, UnlinkTmp(p) PROVE TypeOK'
    <2>1. dirs' \in [Revisions -> Dirs]
      BY <1>0, <1>9, NumberOf, DirFields
      DEF UnlinkTmp
    <2>2. \A q \in Writers : writer'[q].num = Stray => IsQuarantine(q)'
      BY <1>0, <1>9, StoreAssumption
      DEF UnlinkTmp, IsQuarantine, WriterStates, IdleWriter, Stray
    <2> QED
      BY <1>0, <1>9, <2>1, <2>2, NullTypes DEF UnlinkTmp
  <1>10. ASSUME NEW p \in Writers, QuarantineVerify(p) PROVE TypeOK'
    <2>1. Count \in Listed /\ Snapshot(Count) \in Snapshots
      BY <1>0, <1>10, CountType, SnapshotType, NumberTypes
      DEF QuarantineVerify, LatestBroken
    <2>2. UsedIds \in SUBSET Evidence
      BY <1>0, NumberTypes DEF UsedIds, Present, Envelopes, Dirs
    <2>3. /\ StateLink(Count, Snapshot(Count)) \in Links
          /\ [rev |-> Count, state |-> Snapshot(Count)] \in Records
          /\ Count + 1 \in 0..Stray
      BY <2>1, StoreAssumption DEF StateLink, Links, Records, Listed, Stray
    <2>4. writer'[p] \in WriterStates
      BY <1>0, <1>10, <2>2, <2>3, NullTypes
      DEF QuarantineVerify, IdleWriter, WriterStates, Phases
    <2>5. IsQuarantine(p)'
      BY <1>0, <1>10, <2>1
      DEF QuarantineVerify, IdleWriter, IsQuarantine, NoRecord, Listed
    <2>6. \A q \in Writers \ {p} : writer'[q] = writer[q]
      BY <1>0, <1>10 DEF QuarantineVerify
    <2> QED
      BY <1>0, <1>10, <2>4, <2>5, <2>6 DEF QuarantineVerify, IsQuarantine
  <1>11. ASSUME NEW p \in Writers, QuarantineDiagnose(p) PROVE TypeOK'
    <2>1. writer' \in [Writers -> WriterStates]
      <3>1. [writer[p] EXCEPT !.pc = "mkdir"] \in WriterStates
        BY <1>0, WriterFields DEF Phases
      <3> QED
        BY <1>0, <1>11, <3>1, NullTypes DEF QuarantineDiagnose
    <2>2. \A q \in Writers : writer'[q].num = Stray => IsQuarantine(q)'
      BY <1>0, <1>11, StoreAssumption
      DEF QuarantineDiagnose, IsQuarantine, WriterStates, IdleWriter, Stray
    <2> QED
      BY <1>0, <1>11, <2>1, <2>2 DEF QuarantineDiagnose
  <1>12. ASSUME NEW p \in Writers, Crash(p) PROVE TypeOK'
    <2>1. \A q \in Writers : writer'[q].num = Stray => IsQuarantine(q)'
      BY <1>0, <1>12, StoreAssumption
      DEF Crash, IsQuarantine, WriterStates, IdleWriter, Stray
    <2> QED
      BY <1>0, <1>12, <2>1, NullTypes DEF Crash
  <1>13. ASSUME Approve PROVE TypeOK'
    <2>1. Count \in Listed
      BY <1>13, CountType DEF Approve, LatestBroken
    <2>2. Diagnosis \in [Revisions -> Snapshots]
      BY <1>0, SnapshotType DEF Diagnosis
    <2>3. approval' \in Approvals
      BY <1>13, <2>1, <2>2, NumberTypes DEF Approve, Approvals
    <2>4. approved' \subseteq Listed \X Snapshots
      BY <1>0, <1>13, <2>1, SnapshotType, NumberTypes DEF Approve
    <2> QED
      BY <1>0, <1>13, <2>3, <2>4 DEF Approve, IsQuarantine
  <1>14. ASSUME NEW r \in Revisions, NEW id \in Evidence, Damage(r, id)
         PROVE  TypeOK'
    <2>1. dirs' \in [Revisions -> Dirs]
      BY <1>0, <1>14, DirFields DEF Damage
    <2> QED
      BY <1>0, <1>14, <2>1 DEF Damage, IsQuarantine
  <1>15. CASE UNCHANGED vars
    BY <1>0, <1>15 DEF vars, IsQuarantine
  <1> QED
    BY <1>1, <1>2, <1>3, <1>4, <1>5, <1>6, <1>7, <1>8, <1>9, <1>10, <1>11,
       <1>12, <1>13, <1>14, <1>15 DEF Next, Write, Quarantine

-----------------------------------------------------------------------------
(* What a step can do to a directory: make it, or leave it made or not;    *)
(* and a sealed directory keeps all but MANIFEST.json.tmp and the damage   *)
(* somebody does to it from outside.                                       *)

MakesNew(p) == Mkdir(p) /\ ~ dirs[writer[p].num].made

Kept(r) == /\ dirs'[r].made = dirs[r].made
           /\ dirs[r].man =>
                 dirs'[r] = [dirs[r] EXCEPT !.tmp = dirs'[r].tmp,
                                            !.bad = dirs'[r].bad]

(* A directory is what it is with its own tmp and bad.                     *)
LEMMA KeptFields ==
    ASSUME NEW d \in Dirs
    PROVE  /\ d = [d EXCEPT !.tmp = d.tmp, !.bad = d.bad]
           /\ \A b : [d EXCEPT !.tmp = b] =
                     [d EXCEPT !.tmp = b, !.bad = d.bad]
           /\ \A b : [d EXCEPT !.bad = b] =
                     [d EXCEPT !.tmp = d.tmp, !.bad = b]
  BY DEF Dirs

(* Setting tmp leaves what is made and what is damaged alone.              *)
LEMMA TmpField ==
    ASSUME NEW d \in Dirs, NEW b
    PROVE  /\ [d EXCEPT !.tmp = b].tmp = b
           /\ [d EXCEPT !.tmp = b].bad = d.bad
           /\ [d EXCEPT !.tmp = b].made = d.made
  BY DEF Dirs

(* A step keeps a revision as it is, or it is the mkdir of that revision.  *)
LEMMA DirStep ==
    ASSUME IInv, [Next]_vars, NEW r \in Revisions
    PROVE  \/ Kept(r)
           \/ \E p \in Writers : MakesNew(p) /\ writer[p].num = r
  <1> DEFINE Goal == \/ Kept(r)
                     \/ \E p \in Writers : MakesNew(p) /\ writer[p].num = r
  <1>0. /\ TypeOK
        /\ \A q \in Writers : WriterInv(q)
        /\ dirs[r] \in Dirs
        /\ DirInv(r)
    BY DEF IInv, TypeOK
  <1>u. dirs'[r] = dirs[r] => Goal
    BY <1>0, KeptFields DEF Kept
  <1>1. ASSUME NEW p \in Writers, BeginRevision(p) PROVE Goal
    BY <1>1, <1>u DEF BeginRevision
  <1>2. ASSUME NEW p \in Writers, Mkdir(p) PROVE Goal
    <2>1. CASE dirs[writer[p].num].made
      BY <1>2, <2>1, <1>u DEF Mkdir
    <2>2. CASE ~ dirs[writer[p].num].made
      <3>1. CASE writer[p].num = r
        BY <1>2, <2>2, <3>1 DEF MakesNew
      <3>2. CASE writer[p].num # r
        BY <1>0, <1>2, <2>2, <3>2, <1>u DEF Mkdir, TypeOK
      <3> QED BY <3>1, <3>2
    <2> QED BY <2>1, <2>2
  <1>3. ASSUME NEW p \in Writers, NEW id \in Evidence, AddRaw(p, id)
        PROVE  Goal
    <2>1. ~ dirs[writer[p].num].man
      BY <1>0, <1>3 DEF AddRaw, WriterInv, Placed, Working
    <2> QED
      BY <1>0, <1>3, <2>1, <1>u, NumberOf DEF AddRaw, Kept, TypeOK, Dirs
  <1>4. ASSUME NEW p \in Writers, AddEnvelope(p) PROVE Goal
    <2>1. ~ dirs[writer[p].num].man
      BY <1>0, <1>4 DEF AddEnvelope, WriterInv, Placed, Working
    <2> QED
      BY <1>0, <1>4, <2>1, <1>u, NumberOf DEF AddEnvelope, Kept, TypeOK, Dirs
  <1>5. ASSUME NEW p \in Writers, NEW id \in Ids, AddBare(p, id)
        PROVE  Goal
    <2>1. ~ dirs[writer[p].num].man
      BY <1>0, <1>5 DEF AddBare, WriterInv, Placed, Working
    <2> QED
      BY <1>0, <1>5, <2>1, <1>u, NumberOf DEF AddBare, Kept, TypeOK, Dirs
  <1>6. ASSUME NEW p \in Writers, AddFails(p) PROVE Goal
    BY <1>6, <1>u DEF AddFails
  <1>7. ASSUME NEW p \in Writers, WriteTmp(p) PROVE Goal
    <2>1. ~ dirs[writer[p].num].man
      BY <1>0, <1>7 DEF WriteTmp, WriterInv, Placed, Working
    <2> QED
      BY <1>0, <1>7, <2>1, <1>u, NumberOf DEF WriteTmp, Kept, TypeOK, Dirs
  <1>8. ASSUME NEW p \in Writers, LinkManifest(p) PROVE Goal
    BY <1>0, <1>8, <1>u, NumberOf DEF LinkManifest, Kept, TypeOK, Dirs
  <1>9. ASSUME NEW p \in Writers, UnlinkTmp(p) PROVE Goal
    <2>1. dirs' = [dirs EXCEPT ![writer[p].num] =
                     [dirs[writer[p].num] EXCEPT !.tmp = FALSE]]
      BY <1>9 DEF UnlinkTmp
    <2>2. writer[p].num \in Revisions
      BY <1>0, <1>9, NumberOf DEF UnlinkTmp
    <2>3. CASE writer[p].num = r
      <3>1. dirs'[r] = [dirs[r] EXCEPT !.tmp = FALSE]
        BY <1>0, <2>1, <2>3 DEF TypeOK
      <3>2. dirs'[r].tmp = FALSE /\ dirs'[r].bad = dirs[r].bad
            /\ dirs'[r].made = dirs[r].made
        <4> HIDE DEF Goal
        <4> DEFINE e == [dirs[r] EXCEPT !.tmp = FALSE]
        <4>1. e.tmp = FALSE /\ e.bad = dirs[r].bad /\ e.made = dirs[r].made
          BY <1>0, TmpField
        <4> QED BY <3>1, <4>1
      <3>3. [dirs[r] EXCEPT !.tmp = FALSE] =
            [dirs[r] EXCEPT !.tmp = FALSE, !.bad = dirs[r].bad]
        BY <1>0, KeptFields
      <3>4. dirs'[r] = [dirs[r] EXCEPT !.tmp = dirs'[r].tmp,
                                       !.bad = dirs'[r].bad]
        BY <3>1, <3>2, <3>3
      <3> QED
        BY <3>2, <3>4 DEF Kept
    <2>4. CASE writer[p].num # r
      BY <1>0, <2>1, <2>2, <2>4, <1>u DEF TypeOK
    <2> QED BY <2>3, <2>4
  <1>10. ASSUME NEW p \in Writers, QuarantineVerify(p) PROVE Goal
    BY <1>10, <1>u DEF QuarantineVerify
  <1>11. ASSUME NEW p \in Writers, QuarantineDiagnose(p) PROVE Goal
    BY <1>11, <1>u DEF QuarantineDiagnose
  <1>12. ASSUME NEW p \in Writers, Crash(p) PROVE Goal
    BY <1>12, <1>u DEF Crash
  <1>13. ASSUME Approve PROVE Goal
    BY <1>13, <1>u DEF Approve
  <1>14. ASSUME NEW s \in Revisions, NEW id \in Evidence, Damage(s, id)
         PROVE  Goal
    <2>1. dirs' = [dirs EXCEPT ![s] = [dirs[s] EXCEPT !.bad = {id}]]
      BY <1>14 DEF Damage
    <2> QED
      BY <1>0, <2>1, <1>u, KeptFields DEF Kept, TypeOK, Dirs
  <1>15. CASE UNCHANGED vars
    BY <1>15, <1>u DEF vars
  <1> QED
    BY <1>1, <1>2, <1>3, <1>4, <1>5, <1>6, <1>7, <1>8, <1>9, <1>10, <1>11,
       <1>12, <1>13, <1>14, <1>15 DEF Next, Write, Quarantine

-----------------------------------------------------------------------------
(* Numbers: a step keeps the revisions there are, or adds the next one.    *)

(* _create_revision_dir makes the next number and no other, whenever the   *)
(* number was computed.                                                    *)
LEMMA NewNumber ==
    ASSUME IInv, [Next]_vars, NEW p \in Writers, MakesNew(p)
    PROVE  /\ writer[p].num = Count + 1
           /\ writer[p].num \in Revisions
           /\ dirs' = [dirs EXCEPT ![writer[p].num] =
                         [dirs[writer[p].num] EXCEPT !.made = TRUE]]
           /\ writer' = [writer EXCEPT ![p].pc = "open"]
           /\ Count' \in Nat
           /\ Count' >= Count
           /\ NoRevisionGap'
  <1>0. /\ TypeOK
        /\ WriterInv(p)
        /\ Present = 1..Count
        /\ dirs[Stray].made => Count = MaxRevisions
    BY DEF IInv, NoRevisionGap
  <1> DEFINE n == writer[p].num
  <1>1. n \in 1..(Count + 1) /\ n \in Revisions /\ ~ dirs[n].made
    BY <1>0, NumberOf DEF WriterInv, Placed, Working, MakesNew, Mkdir
  <1>2. Count \in 0..MaxRevisions
    BY CountType
  <1>3. n = Count + 1
    BY <1>0, <1>1, <1>2, StoreAssumption DEF Present
  <1>4. /\ dirs' = [dirs EXCEPT ![n] = [dirs[n] EXCEPT !.made = TRUE]]
        /\ writer' = [writer EXCEPT ![p].pc = "open"]
    BY DEF MakesNew, Mkdir
  <1>5. \A r \in Revisions : dirs'[r].made <=> dirs[r].made \/ r = n
    BY <1>0, <1>1, <1>4 DEF TypeOK, Dirs
  <1>6. CASE n \in Listed
    <2>1. Present' = 1..(Count + 1)
      BY <1>0, <1>2, <1>3, <1>5, <1>6, NumberTypes DEF Present, Listed
    <2>2. Count' = Count + 1
      BY <1>2, <2>1, FS_Interval DEF Count
    <2>3. ~ dirs'[Stray].made
      BY <1>0, <1>2, <1>3, <1>5, <1>6, NumberTypes, StoreAssumption
      DEF Listed, Stray
    <2> QED
      BY <1>1, <1>2, <1>3, <1>4, <2>1, <2>2, <2>3 DEF NoRevisionGap
  <1>7. CASE n = Stray
    <2>1. Present' = Present
      BY <1>5, <1>7, NumberTypes, StoreAssumption DEF Present, Listed, Stray
    <2>2. Count' = Count
      BY <2>1 DEF Count
    <2>3. Count = MaxRevisions
      BY <1>2, <1>3, <1>7, StoreAssumption DEF Stray
    <2> QED
      BY <1>0, <1>1, <1>2, <1>3, <1>4, <2>1, <2>2, <2>3 DEF NoRevisionGap
  <1> QED
    BY <1>1, <1>6, <1>7, StoreAssumption DEF Revisions, Stray, Listed

(* A step that makes no directory changes no number.                       *)
LEMMA SameNumbers ==
    ASSUME \A r \in Revisions : dirs'[r].made = dirs[r].made
    PROVE  Present' = Present /\ Count' = Count
  BY NumberTypes DEF Present, Count

(* Every step keeps the numbers without a gap, and none disappears.        *)
LEMMA NumberStep ==
    ASSUME IInv, [Next]_vars
    PROVE  NoRevisionGap' /\ Count' \in Nat /\ Count' >= Count
  <1>1. CASE \E p \in Writers : MakesNew(p)
    BY <1>1, NewNumber
  <1>2. CASE \A p \in Writers : ~ MakesNew(p)
    <2>1. \A r \in Revisions : dirs'[r].made = dirs[r].made
      BY <1>2, DirStep DEF Kept
    <2>2. Present' = Present /\ Count' = Count
      BY <2>1, SameNumbers
    <2> QED
      BY <2>1, <2>2, CountType, NumberTypes, StoreAssumption
      DEF IInv, NoRevisionGap
  <1> QED BY <1>1, <1>2

-----------------------------------------------------------------------------
(* Writers: nobody becomes live except by making a new directory.          *)

ApprovedGrows == approved \subseteq approved'

(* What a Human approved is never forgotten.                               *)
LEMMA ApprovedStep == [Next]_vars => ApprovedGrows
  BY DEF Next, vars, Write, Quarantine, BeginRevision, Mkdir, AddRaw,
         AddEnvelope, AddBare, AddFails, WriteTmp, LinkManifest, UnlinkTmp,
         Approve, QuarantineVerify, QuarantineDiagnose, Crash, Damage,
         ApprovedGrows

(* A process that is live after a step was live, or made its directory,    *)
(* and works on the number it had.                                         *)
LEMMA LiveStep ==
    ASSUME IInv, [Next]_vars, NEW q \in Writers, Live(q)'
    PROVE  /\ Live(q) \/ MakesNew(q)
           /\ writer'[q].num = writer[q].num
  <1> DEFINE Goal == /\ Live(q) \/ MakesNew(q)
                     /\ writer'[q].num = writer[q].num
  <1>0. /\ TypeOK
        /\ IdleWriter.pc = "idle"
        /\ writer'[q].pc \notin {"idle", "diagnose", "mkdir"}
    BY DEF IInv, IdleWriter, Live
  <1>u. writer'[q] = writer[q] => Goal
    BY <1>0 DEF Live
  <1>i. writer'[q] # IdleWriter
    BY <1>0
  <1>1. ASSUME NEW p \in Writers, BeginRevision(p) PROVE Goal
    BY <1>0, <1>1, <1>u DEF BeginRevision, TypeOK, IdleWriter
  <1>2. ASSUME NEW p \in Writers, Mkdir(p) PROVE Goal
    <2>1. CASE p # q
      BY <1>0, <1>2, <2>1, <1>u DEF Mkdir, TypeOK
    <2>2. CASE p = q
      <3>1. ~ dirs[writer[q].num].made
        BY <1>0, <1>2, <2>2, <1>i DEF Mkdir, TypeOK
      <3>2. writer' = [writer EXCEPT ![q].pc = "open"]
        BY <1>2, <2>2, <3>1 DEF Mkdir
      <3>3. writer'[q].num = writer[q].num
        BY <1>0, <3>2 DEF TypeOK, WriterStates
      <3> QED
        BY <1>2, <2>2, <3>1, <3>3 DEF MakesNew
    <2> QED BY <2>1, <2>2
  <1>3. ASSUME NEW p \in Writers, NEW id \in Evidence, AddRaw(p, id)
        PROVE  Goal
    BY <1>0, <1>3, <1>u DEF AddRaw, TypeOK, Live, WriterStates
  <1>4. ASSUME NEW p \in Writers, AddEnvelope(p) PROVE Goal
    BY <1>0, <1>4, <1>u DEF AddEnvelope, TypeOK, Live, WriterStates
  <1>5. ASSUME NEW p \in Writers, NEW id \in Ids, AddBare(p, id)
        PROVE  Goal
    BY <1>0, <1>5, <1>u DEF AddBare, TypeOK, Live, WriterStates
  <1>6. ASSUME NEW p \in Writers, AddFails(p) PROVE Goal
    BY <1>0, <1>6, <1>u DEF AddFails, TypeOK, Live, WriterStates
  <1>7. ASSUME NEW p \in Writers, WriteTmp(p) PROVE Goal
    BY <1>0, <1>7, <1>u DEF WriteTmp, TypeOK, Live, WriterStates
  <1>8. ASSUME NEW p \in Writers, LinkManifest(p) PROVE Goal
    BY <1>0, <1>8, <1>u DEF LinkManifest, TypeOK, Live, WriterStates
  <1>9. ASSUME NEW p \in Writers, UnlinkTmp(p) PROVE Goal
    BY <1>0, <1>9, <1>u, <1>i DEF UnlinkTmp, TypeOK
  <1>10. ASSUME NEW p \in Writers, QuarantineVerify(p) PROVE Goal
    BY <1>0, <1>10, <1>u DEF QuarantineVerify, TypeOK, IdleWriter
  <1>11. ASSUME NEW p \in Writers, QuarantineDiagnose(p) PROVE Goal
    BY <1>0, <1>11, <1>u, <1>i DEF QuarantineDiagnose, TypeOK, WriterStates
  <1>12. ASSUME NEW p \in Writers, Crash(p) PROVE Goal
    BY <1>0, <1>12, <1>u, <1>i DEF Crash, TypeOK
  <1>13. ASSUME Approve PROVE Goal
    BY <1>13, <1>u DEF Approve
  <1>14. ASSUME NEW s \in Revisions, NEW id \in Evidence, Damage(s, id)
         PROVE  Goal
    BY <1>14, <1>u DEF Damage
  <1>15. CASE UNCHANGED vars
    BY <1>15, <1>u DEF vars
  <1> QED
    BY <1>1, <1>2, <1>3, <1>4, <1>5, <1>6, <1>7, <1>8, <1>9, <1>10, <1>11,
       <1>12, <1>13, <1>14, <1>15 DEF Next, Write, Quarantine

(* Every step keeps a revision's writer alone in it.                       *)
LEMMA OneWriterStep ==
    ASSUME IInv, [Next]_vars
    PROVE  OneWriterPerRevision'
  <1> SUFFICES ASSUME NEW p \in Writers, NEW q \in Writers,
                      Live(p)', Live(q)', writer'[p].num = writer'[q].num,
                      p # q
               PROVE  FALSE
    BY DEF OneWriterPerRevision
  <1>0. /\ OneWriterPerRevision
        /\ WriterInv(p) /\ WriterInv(q)
        /\ TypeOK
    BY DEF IInv
  <1>1. /\ Live(p) \/ MakesNew(p)
        /\ Live(q) \/ MakesNew(q)
        /\ writer[p].num = writer[q].num
    BY LiveStep
  <1>2. ~ (MakesNew(p) /\ Live(q)) /\ ~ (MakesNew(q) /\ Live(p))
    BY <1>0, <1>1 DEF MakesNew, WriterInv, Placed, Working
  <1>3. ~ (MakesNew(p) /\ MakesNew(q))
    <2> SUFFICES ASSUME MakesNew(p), MakesNew(q) PROVE FALSE
      OBVIOUS
    <2>1. writer' = [writer EXCEPT ![p].pc = "open"]
      BY DEF MakesNew, Mkdir
    <2>2. writer'[q] = writer[q] /\ writer[q].pc = "mkdir"
      BY <1>0, <2>1 DEF MakesNew, Mkdir, TypeOK
    <2> QED
      BY <2>2 DEF Live
  <1> QED
    BY <1>0, <1>1, <1>2, <1>3 DEF OneWriterPerRevision

(* Only LinkManifest touches what a manifest says.                         *)

SameSeal(r) == /\ dirs'[r].man = dirs[r].man
               /\ dirs'[r].listed = dirs[r].listed
               /\ dirs'[r].record = dirs[r].record

\* A directory in which one thing other than the manifest is set to b.
Touched(d, b) == {[d EXCEPT !.made = b], [d EXCEPT !.raw = b],
                  [d EXCEPT !.env = b], [d EXCEPT !.tmp = b],
                  [d EXCEPT !.bad = b]}

(* A directory that was only touched has the manifest it had.              *)
LEMMA SealFields ==
    ASSUME NEW d \in Dirs, NEW b, NEW e \in Touched(d, b)
    PROVE  e.man = d.man /\ e.listed = d.listed /\ e.record = d.record
  BY DEF Dirs, Touched

(* A step keeps a revision's manifest, or it is the link that places it.   *)
LEMMA SealStep ==
    ASSUME IInv, [Next]_vars, NEW r \in Revisions
    PROVE  \/ SameSeal(r)
           \/ \E p \in Writers : LinkManifest(p) /\ writer[p].num = r
  <1> DEFINE Goal ==
        \/ SameSeal(r)
        \/ \E p \in Writers : LinkManifest(p) /\ writer[p].num = r
  <1>0. /\ TypeOK
        /\ \A q \in Writers : WriterInv(q)
        /\ dirs[r] \in Dirs
    BY DEF IInv, TypeOK
  <1>u. dirs'[r] = dirs[r] => Goal
    BY DEF SameSeal
  <1>f. ASSUME NEW b, NEW n \in Revisions,
               \/ dirs' = [dirs EXCEPT ![n] = [dirs[n] EXCEPT !.made = b]]
               \/ dirs' = [dirs EXCEPT ![n] = [dirs[n] EXCEPT !.raw = b]]
               \/ dirs' = [dirs EXCEPT ![n] = [dirs[n] EXCEPT !.env = b]]
               \/ dirs' = [dirs EXCEPT ![n] = [dirs[n] EXCEPT !.tmp = b]]
               \/ dirs' = [dirs EXCEPT ![n] = [dirs[n] EXCEPT !.bad = b]]
        PROVE  Goal
    <2>1. CASE n # r
      BY <1>0, <1>f, <1>u, <2>1 DEF TypeOK
    <2>2. CASE n = r
      <3>1. dirs'[r] \in Touched(dirs[r], b)
        BY <1>0, <1>f, <2>2 DEF TypeOK, Touched
      <3> QED
        BY <1>0, <3>1, SealFields DEF SameSeal
    <2> QED BY <2>1, <2>2
  <1>1. ASSUME NEW p \in Writers, BeginRevision(p) PROVE Goal
    BY <1>1, <1>u DEF BeginRevision
  <1>2. ASSUME NEW p \in Writers, Mkdir(p) PROVE Goal
    <2>1. writer[p].num \in Revisions
      BY <1>0, <1>2, NumberOf DEF Mkdir
    <2>2. \/ UNCHANGED dirs
          \/ dirs' = [dirs EXCEPT ![writer[p].num] =
                        [dirs[writer[p].num] EXCEPT !.made = TRUE]]
      BY <1>2 DEF Mkdir
    <2> QED BY <2>1, <2>2, <1>u, <1>f
  <1>3. ASSUME NEW p \in Writers, NEW id \in Evidence, AddRaw(p, id)
        PROVE  Goal
    <2>1. writer[p].num \in Revisions
      BY <1>0, <1>3, NumberOf DEF AddRaw
    <2>2. dirs' = [dirs EXCEPT ![writer[p].num] =
                     [dirs[writer[p].num] EXCEPT
                        !.raw = dirs[writer[p].num].raw \cup {id}]]
      BY <1>3 DEF AddRaw
    <2> QED BY <2>1, <2>2, <1>f
  <1>4. ASSUME NEW p \in Writers, AddEnvelope(p) PROVE Goal
    <2>1. writer[p].num \in Revisions
      BY <1>0, <1>4, NumberOf DEF AddEnvelope
    <2>2. dirs' = [dirs EXCEPT ![writer[p].num] =
                     [dirs[writer[p].num] EXCEPT
                        !.env = dirs[writer[p].num].env
                                  \cup {writer[p].item}]]
      BY <1>4 DEF AddEnvelope
    <2> QED BY <2>1, <2>2, <1>f
  <1>5. ASSUME NEW p \in Writers, NEW id \in Ids, AddBare(p, id)
        PROVE  Goal
    <2>1. writer[p].num \in Revisions
      BY <1>0, <1>5, NumberOf DEF AddBare
    <2>2. CASE writer[p].num # r
      BY <1>0, <1>5, <1>u, <2>2 DEF AddBare, TypeOK
    <2>3. CASE writer[p].num = r
      BY <1>0, <1>5, <2>3 DEF AddBare, TypeOK, Dirs, SameSeal
    <2> QED BY <2>2, <2>3
  <1>6. ASSUME NEW p \in Writers, AddFails(p) PROVE Goal
    BY <1>6, <1>u DEF AddFails
  <1>7. ASSUME NEW p \in Writers, WriteTmp(p) PROVE Goal
    <2>1. writer[p].num \in Revisions
      BY <1>0, <1>7, NumberOf DEF WriteTmp
    <2>2. dirs' = [dirs EXCEPT ![writer[p].num] =
                     [dirs[writer[p].num] EXCEPT !.tmp = TRUE]]
      BY <1>7 DEF WriteTmp
    <2> QED BY <2>1, <2>2, <1>f
  <1>8. ASSUME NEW p \in Writers, LinkManifest(p) PROVE Goal
    <2>1. CASE writer[p].num = r
      BY <1>8, <2>1
    <2>2. CASE writer[p].num # r
      BY <1>0, <1>8, <2>2, <1>u DEF LinkManifest, TypeOK
    <2> QED BY <2>1, <2>2
  <1>9. ASSUME NEW p \in Writers, UnlinkTmp(p) PROVE Goal
    <2>1. writer[p].num \in Revisions
      BY <1>0, <1>9, NumberOf DEF UnlinkTmp
    <2>2. dirs' = [dirs EXCEPT ![writer[p].num] =
                     [dirs[writer[p].num] EXCEPT !.tmp = FALSE]]
      BY <1>9 DEF UnlinkTmp
    <2> QED BY <2>1, <2>2, <1>f
  <1>10. ASSUME NEW p \in Writers,
                \/ QuarantineVerify(p) \/ QuarantineDiagnose(p) \/ Crash(p)
         PROVE  Goal
    BY <1>10, <1>u DEF QuarantineVerify, QuarantineDiagnose, Crash
  <1>11. ASSUME Approve \/ UNCHANGED vars PROVE Goal
    BY <1>11, <1>u DEF Approve, vars
  <1>12. ASSUME NEW s \in Revisions, NEW id \in Evidence, Damage(s, id)
         PROVE  Goal
    <2>1. dirs' = [dirs EXCEPT ![s] = [dirs[s] EXCEPT !.bad = {id}]]
      BY <1>12 DEF Damage
    <2> QED BY <2>1, <1>f
  <1> QED
    BY <1>1, <1>2, <1>3, <1>4, <1>5, <1>6, <1>7, <1>8, <1>9, <1>10, <1>11,
       <1>12 DEF Next, Write, Quarantine

(* A manifest appears in the directory of a live writer by its own hand.   *)
LEMMA OwnSeal ==
    ASSUME IInv, [Next]_vars, NEW q \in Writers,
           Live(q) \/ MakesNew(q), ~ LinkManifest(q)
    PROVE  SameSeal(writer[q].num)
  <1>0. /\ TypeOK /\ OneWriterPerRevision
        /\ \A p \in Writers : WriterInv(p)
    BY DEF IInv
  <1>1. writer[q].num \in Revisions
    BY <1>0, NumberOf DEF Live, MakesNew, Mkdir
  <1>2. ASSUME NEW p \in Writers, LinkManifest(p),
               writer[p].num = writer[q].num
        PROVE  FALSE
    <2>1. Live(p)
      BY <1>2 DEF LinkManifest, Live
    <2>2. CASE Live(q)
      BY <1>0, <1>2, <2>1, <2>2 DEF OneWriterPerRevision
    <2>3. CASE MakesNew(q)
      BY <1>0, <1>2, <2>1, <2>3 DEF MakesNew, WriterInv, Placed
    <2> QED BY <2>2, <2>3
  <1> QED
    BY <1>1, <1>2, SealStep

(* A process that stays where it is placed, and keeps its quarantine       *)
(* record, keeps what the invariant says of its place.                     *)
LEMMA PlacedStep ==
    ASSUME IInv, [Next]_vars, NEW q \in Writers, writer[q].pc # "idle",
           Live(q) \/ ~ Live(q)',
           writer'[q].num = writer[q].num,
           writer'[q].record = writer[q].record,
           writer'[q].pc # "diagnose" => writer[q].pc # "diagnose"
    PROVE  Placed(q)'
  <1>0. WriterInv(q) /\ TypeOK
    BY DEF IInv
  <1>1. Count' \in Nat /\ Count' >= Count /\ Count \in Nat
    BY NumberStep, CountType, StoreAssumption
  <1>2. IsQuarantine(q)' <=> IsQuarantine(q)
    BY DEF IsQuarantine
  <1>3. Live(q)' => dirs'[writer[q].num].made
    <2> SUFFICES ASSUME Live(q) PROVE dirs'[writer[q].num].made
      OBVIOUS
    <2>1. dirs[writer[q].num].made /\ writer[q].num \in Revisions
      BY <1>0, NumberOf DEF WriterInv, Placed, Live
    <2>2. Kept(writer[q].num)
      BY <2>1, DirStep DEF MakesNew
    <2> QED
      BY <2>1, <2>2 DEF Kept
  <1>4. writer[q].num \in 1..(Count' + 1)
    BY <1>0, <1>1 DEF WriterInv, Placed
  <1> QED
    BY <1>0, <1>2, <1>3, <1>4, ApprovedStep
    DEF WriterInv, Placed, ApprovedGrows

(* A process that does not move keeps all it knows ...                     *)
LEMMA OtherWriter ==
    ASSUME IInv, [Next]_vars, NEW q \in Writers, writer'[q] = writer[q]
    PROVE  WriterInv(q)'
  <1>0. WriterInv(q) /\ TypeOK
    BY DEF IInv
  <1>1. CASE writer[q].pc = "idle"
    BY <1>0, <1>1, ApprovedStep
    DEF WriterInv, Placed, Working, Live, IsQuarantine, ApprovedGrows
  <1>2. CASE writer[q].pc # "idle"
    <2>1. Placed(q)'
      BY <1>2, PlacedStep DEF Live
    <2>2. writer[q].pc \in {"open", "raw", "tmp"} =>
             dirs'[writer[q].num].man = dirs[writer[q].num].man
      <3>1. ~ LinkManifest(q)
        BY <1>0 DEF LinkManifest, TypeOK, WriterStates
      <3> QED
        BY <3>1, OwnSeal DEF Live, SameSeal
    <2>3. Working(q)'
      BY <1>0, <2>2 DEF WriterInv, Working
    <2> QED
      BY <2>1, <2>3 DEF WriterInv
  <1> QED BY <1>1, <1>2

(* ... and one whose call has ended has nothing to know.                   *)
LEMMA IdleInv ==
    ASSUME NEW q \in Writers, writer'[q] = IdleWriter
    PROVE  WriterInv(q)'
  BY DEF WriterInv, Placed, Working, IdleWriter, Live, IsQuarantine

(* A number that was next stays at most the next one.                      *)
LEMMA NextNumber == \A a, b \in Nat : b >= a => a + 1 \in 1..(b + 1)
  OBVIOUS

(* Every step keeps what the invariant says of every process.              *)
LEMMA WriterStep ==
    ASSUME IInv, [Next]_vars, NEW q \in Writers
    PROVE  WriterInv(q)'
  <1>0. /\ TypeOK
        /\ WriterInv(q)
        /\ writer[q] \in WriterStates
    BY DEF IInv, TypeOK
  <1>n. Count \in Nat /\ Count' \in Nat /\ Count' >= Count
    BY NumberStep, CountType, StoreAssumption
  <1>o. ASSUME NEW p \in Writers, p # q, NEW w,
               writer' = [writer EXCEPT ![p] = w]
        PROVE  WriterInv(q)'
    BY <1>0, <1>o, OtherWriter DEF TypeOK
  <1>u. UNCHANGED writer => WriterInv(q)'
    BY OtherWriter
  <1>w. ASSUME NEW w \in WriterStates, writer'[q] = w,
               Live(q), ~ LinkManifest(q), Live(q)',
               w.num = writer[q].num, w.record = writer[q].record,
               w.pc = "raw" => w.item \in Evidence,
               w.pc = "tmp" => w.entries # {},
               writer[q].pc \in {"open", "raw", "tmp"} \/ w.pc = "linked"
        PROVE  WriterInv(q)'
    <2>1. Placed(q)'
      BY <1>w, PlacedStep DEF Live
    <2>2. SameSeal(writer[q].num)
      BY <1>w, OwnSeal
    <2>3. Working(q)'
      BY <1>0, <1>w, <2>2 DEF WriterInv, Working, SameSeal
    <2> QED
      BY <2>1, <2>3 DEF WriterInv
  <1>1. ASSUME NEW p \in Writers, BeginRevision(p) PROVE WriterInv(q)'
    <2>1. CASE p = q
      <3>1. /\ writer'[q].pc = "mkdir"
            /\ writer'[q].num = Count + 1
            /\ writer'[q].record = NoRecord
        BY <1>0, <1>1, <2>1 DEF BeginRevision, IdleWriter, TypeOK
      <3>2. Count + 1 \in 1..(Count' + 1)
        BY <1>n, NextNumber
      <3>3. Placed(q)'
        BY <3>1, <3>2 DEF Placed, Live, IsQuarantine
      <3>4. Working(q)'
        BY <3>1 DEF Working
      <3> QED
        BY <3>3, <3>4 DEF WriterInv
    <2>2. CASE p # q
      BY <1>1, <2>2, <1>o DEF BeginRevision
    <2> QED BY <2>1, <2>2
  <1>2. ASSUME NEW p \in Writers, Mkdir(p) PROVE WriterInv(q)'
    <2>1. CASE p # q
      <3>1. \E w : writer' = [writer EXCEPT ![p] = w]
        BY <1>2 DEF Mkdir
      <3> QED BY <2>1, <3>1, <1>o
    <2>2. CASE p = q /\ dirs[writer[q].num].made
      BY <1>0, <1>2, <2>2, IdleInv DEF Mkdir, TypeOK
    <2>3. CASE p = q /\ ~ dirs[writer[q].num].made
      <3>1. MakesNew(q)
        BY <1>2, <2>3 DEF MakesNew
      <3>2. /\ writer[q].num = Count + 1
            /\ writer[q].num \in Revisions
            /\ dirs' = [dirs EXCEPT ![writer[q].num] =
                          [dirs[writer[q].num] EXCEPT !.made = TRUE]]
            /\ writer' = [writer EXCEPT ![q].pc = "open"]
        BY <3>1, NewNumber
      <3>3. dirs'[writer[q].num].made
        BY <1>0, <3>2 DEF TypeOK, Dirs
      <3>4. ~ dirs[writer[q].num].man
        BY <2>3, <3>2 DEF IInv, DirInv
      <3>5. ~ dirs'[writer[q].num].man
        <4>1. ~ LinkManifest(q)
          BY <3>1 DEF MakesNew, Mkdir, LinkManifest
        <4> QED
          BY <3>1, <3>4, <4>1, OwnSeal DEF SameSeal
      <3>6. /\ writer'[q].pc = "open"
            /\ writer'[q].num = writer[q].num
            /\ writer'[q].record = writer[q].record
        BY <1>0, <3>2 DEF TypeOK, WriterStates
      <3>7. writer[q].pc = "mkdir"
        BY <3>1 DEF MakesNew, Mkdir
      <3>8. Placed(q)'
        BY <1>0, <1>n, <3>2, <3>3, <3>6, <3>7, ApprovedStep
        DEF WriterInv, Placed, ApprovedGrows, IsQuarantine
      <3>9. Working(q)'
        BY <3>5, <3>6 DEF Working
      <3> QED
        BY <3>8, <3>9 DEF WriterInv
    <2> QED BY <2>1, <2>2, <2>3
  <1>3. ASSUME NEW p \in Writers, NEW id \in Evidence, AddRaw(p, id)
        PROVE  WriterInv(q)'
    <2>1. CASE p # q
      <3>1. \E w : writer' = [writer EXCEPT ![p] = w]
        BY <1>3 DEF AddRaw
      <3> QED BY <2>1, <3>1, <1>o
    <2>2. CASE p = q
      <3>1. writer'[q] \in WriterStates
        BY TypeStep DEF TypeOK
      <3>2. /\ writer'[q].pc = "raw" /\ writer'[q].item = id
            /\ writer'[q].num = writer[q].num
            /\ writer'[q].record = writer[q].record
            /\ writer[q].pc = "open"
        BY <1>0, <1>3, <2>2 DEF WriterStates, AddRaw, TypeOK
      <3> QED
        BY <3>1, <3>2, <1>w DEF Live, LinkManifest
    <2> QED BY <2>1, <2>2
  <1>4. ASSUME NEW p \in Writers, AddEnvelope(p) PROVE WriterInv(q)'
    <2>1. CASE p # q
      <3>1. \E w : writer' = [writer EXCEPT ![p] = w]
        BY <1>4 DEF AddEnvelope
      <3> QED BY <2>1, <3>1, <1>o
    <2>2. CASE p = q
      <3>1. writer'[q] \in WriterStates
        BY TypeStep DEF TypeOK
      <3>2. /\ writer'[q].pc = "open"
            /\ writer'[q].num = writer[q].num
            /\ writer'[q].record = writer[q].record
            /\ writer[q].pc = "raw"
        BY <1>0, <1>4, <2>2 DEF WriterStates, AddEnvelope, TypeOK
      <3> QED
        BY <3>1, <3>2, <1>w DEF Live, LinkManifest
    <2> QED BY <2>1, <2>2
  <1>5. ASSUME NEW p \in Writers, NEW id \in Ids, AddBare(p, id)
        PROVE  WriterInv(q)'
    <2>1. CASE p # q
      <3>1. \E w : writer' = [writer EXCEPT ![p] = w]
        BY <1>5 DEF AddBare
      <3> QED BY <2>1, <3>1, <1>o
    <2>2. CASE p = q
      <3>1. writer'[q] \in WriterStates
        BY TypeStep DEF TypeOK
      <3>2. /\ writer'[q].pc = "open"
            /\ writer'[q].num = writer[q].num
            /\ writer'[q].record = writer[q].record
            /\ writer[q].pc = "open"
        BY <1>0, <1>5, <2>2 DEF WriterStates, AddBare, TypeOK
      <3> QED
        BY <3>1, <3>2, <1>w DEF Live, LinkManifest
    <2> QED BY <2>1, <2>2
  <1>6. ASSUME NEW p \in Writers, AddFails(p) PROVE WriterInv(q)'
    <2>1. CASE p # q
      <3>1. \E w : writer' = [writer EXCEPT ![p] = w]
        BY <1>6 DEF AddFails
      <3> QED BY <2>1, <3>1, <1>o
    <2>2. CASE p = q
      <3>1. writer'[q] \in WriterStates
        BY TypeStep DEF TypeOK
      <3>2. /\ writer'[q].pc = "open"
            /\ writer'[q].num = writer[q].num
            /\ writer'[q].record = writer[q].record
            /\ writer[q].pc = "raw"
        BY <1>0, <1>6, <2>2 DEF WriterStates, AddFails, TypeOK
      <3> QED
        BY <3>1, <3>2, <1>w DEF Live, LinkManifest
    <2> QED BY <2>1, <2>2
  <1>7. ASSUME NEW p \in Writers, WriteTmp(p) PROVE WriterInv(q)'
    <2>1. CASE p # q
      <3>1. \E w : writer' = [writer EXCEPT ![p] = w]
        BY <1>7 DEF WriteTmp
      <3> QED BY <2>1, <3>1, <1>o
    <2>2. CASE p = q
      <3>1. writer'[q] \in WriterStates
        BY TypeStep DEF TypeOK
      <3>2. /\ writer'[q].pc = "tmp" /\ writer'[q].entries # {}
            /\ writer'[q].num = writer[q].num
            /\ writer'[q].record = writer[q].record
            /\ writer[q].pc = "open"
        BY <1>0, <1>7, <2>2 DEF WriterStates, WriteTmp, TypeOK
      <3> QED
        BY <3>1, <3>2, <1>w DEF Live, LinkManifest
    <2> QED BY <2>1, <2>2
  <1>8. ASSUME NEW p \in Writers, LinkManifest(p) PROVE WriterInv(q)'
    <2>1. CASE p # q
      <3>1. \E w : writer' = [writer EXCEPT ![p] = w]
        BY <1>8 DEF LinkManifest
      <3> QED BY <2>1, <3>1, <1>o
    <2>2. CASE p = q
      <3>1. /\ writer'[q].pc = "linked"
            /\ writer'[q].num = writer[q].num
            /\ writer'[q].record = writer[q].record
            /\ writer[q].pc = "tmp"
        BY <1>0, <1>8, <2>2 DEF WriterStates, LinkManifest, TypeOK
      <3>2. Placed(q)'
        BY <3>1, PlacedStep DEF Live
      <3>3. Working(q)'
        BY <3>1 DEF Working
      <3> QED
        BY <3>2, <3>3 DEF WriterInv
    <2> QED BY <2>1, <2>2
  <1>9. ASSUME NEW p \in Writers, UnlinkTmp(p) \/ Crash(p)
        PROVE  WriterInv(q)'
    <2>1. writer' = [writer EXCEPT ![p] = IdleWriter]
      BY <1>9 DEF UnlinkTmp, Crash
    <2>2. CASE p = q
      BY <1>0, <2>1, <2>2, IdleInv DEF TypeOK
    <2> QED BY <2>1, <2>2, <1>o
  <1>10. ASSUME NEW p \in Writers, QuarantineVerify(p) PROVE WriterInv(q)'
    <2>1. CASE p = q
      <3>1. /\ writer'[q].pc = "diagnose"
            /\ writer'[q].num = Count + 1
            /\ writer'[q].record.rev = Count
        BY <1>0, <1>10, <2>1 DEF QuarantineVerify, IdleWriter, TypeOK
      <3>2. Count \in Listed
        BY <1>10, CountType DEF QuarantineVerify, LatestBroken
      <3>3. Count + 1 \in 1..(Count' + 1)
        BY <1>n, NextNumber
      <3>4. Placed(q)'
        BY <3>1, <3>2, <3>3 DEF Placed, Live, IsQuarantine
      <3>5. Working(q)'
        BY <3>1 DEF Working
      <3> QED
        BY <3>4, <3>5 DEF WriterInv
    <2>2. CASE p # q
      BY <1>10, <2>2, <1>o DEF QuarantineVerify
    <2> QED BY <2>1, <2>2
  <1>11. ASSUME NEW p \in Writers, QuarantineDiagnose(p)
         PROVE  WriterInv(q)'
    <2>1. CASE p # q
      BY <1>11, <2>1, <1>o DEF QuarantineDiagnose
    <2>2. CASE p = q /\ ~ Matches(q)
      BY <1>0, <1>11, <2>2, IdleInv DEF QuarantineDiagnose, TypeOK
    <2>3. CASE p = q /\ Matches(q)
      <3>1. /\ writer'[q].pc = "mkdir" /\ writer[q].pc = "diagnose"
            /\ writer'[q].num = writer[q].num
            /\ writer'[q].record = writer[q].record
        BY <1>0, <1>11, <2>3 DEF QuarantineDiagnose, TypeOK, WriterStates
      <3>2. IsQuarantine(q) =>
              <<writer[q].record.rev, writer[q].record.state>> \in approved
        BY <1>0, <2>3, StoreAssumption
        DEF IInv, ApprovalInv, Matches, WriterInv, Placed, Listed
      <3>3. Placed(q)'
        BY <1>0, <1>n, <3>1, <3>2, ApprovedStep
        DEF WriterInv, Placed, ApprovedGrows, IsQuarantine, Live
      <3>4. Working(q)'
        BY <3>1 DEF Working
      <3> QED
        BY <3>3, <3>4 DEF WriterInv
    <2> QED BY <2>1, <2>2, <2>3
  <1>12. ASSUME Approve \/ UNCHANGED vars PROVE WriterInv(q)'
    BY <1>12, <1>u DEF Approve, vars
  <1>13. ASSUME NEW s \in Revisions, NEW id \in Evidence, Damage(s, id)
         PROVE  WriterInv(q)'
    BY <1>13, <1>u DEF Damage
  <1> QED
    BY <1>1, <1>2, <1>3, <1>4, <1>5, <1>6, <1>7, <1>8, <1>9, <1>10, <1>11,
       <1>12, <1>13 DEF Next, Write, Quarantine

-----------------------------------------------------------------------------
(* Directories and approvals.                                              *)

(* What LinkManifest writes into a directory comes from its writer.        *)
LEMMA SealedBy ==
    ASSUME IInv, NEW p \in Writers, LinkManifest(p)
    PROVE  /\ writer[p].num \in Revisions
           /\ dirs[writer[p].num].made
           /\ writer[p].entries # {}
           /\ writer[p].entries \in SUBSET Evidence
           /\ dirs'[writer[p].num].made = dirs[writer[p].num].made
           /\ dirs'[writer[p].num].man = TRUE
           /\ dirs'[writer[p].num].listed = writer[p].entries
           /\ dirs'[writer[p].num].record = writer[p].record
  <1>0. /\ TypeOK /\ WriterInv(p)
        /\ writer[p] \in WriterStates
    BY DEF IInv, TypeOK
  <1>1. writer[p].num \in Revisions /\ dirs[writer[p].num] \in Dirs
    BY <1>0, NumberOf DEF LinkManifest
  <1>2. dirs[writer[p].num].made /\ writer[p].entries # {}
    BY <1>0 DEF LinkManifest, WriterInv, Placed, Working, Live
  <1>3. writer[p].entries \in SUBSET Evidence
    BY <1>0 DEF WriterStates
  <1> QED
    BY <1>0, <1>1, <1>2, <1>3 DEF LinkManifest, TypeOK, Dirs

(* Every step keeps sealed revisions made and non-empty.                   *)
LEMMA DirInvStep ==
    ASSUME IInv, [Next]_vars, NEW r \in Revisions
    PROVE  DirInv(r)'
  <1>0. DirInv(r)
    BY DEF IInv
  <1>1. CASE \E p \in Writers : LinkManifest(p) /\ writer[p].num = r
    BY <1>1, SealedBy DEF DirInv
  <1>2. CASE SameSeal(r)
    <2>1. dirs[r].made => dirs'[r].made
      BY DirStep DEF Kept, MakesNew
    <2> QED
      BY <1>0, <1>2, <2>1 DEF DirInv, SameSeal
  <1> QED
    BY <1>1, <1>2, SealStep

(* Every step keeps quarantine records approved.                           *)
LEMMA QuarantineStep ==
    ASSUME IInv, [Next]_vars
    PROVE  QuarantineWasApproved'
  <1> SUFFICES ASSUME NEW r \in Revisions,
                      dirs'[r].man, dirs'[r].record # NoRecord
               PROVE  <<dirs'[r].record.rev, dirs'[r].record.state>>
                         \in approved'
    BY DEF QuarantineWasApproved
  <1>0. approved \subseteq approved' /\ QuarantineWasApproved
    BY ApprovedStep DEF ApprovedGrows, IInv
  <1>1. CASE SameSeal(r)
    BY <1>0, <1>1 DEF SameSeal, QuarantineWasApproved
  <1>2. ASSUME NEW p \in Writers, LinkManifest(p), writer[p].num = r
        PROVE  <<dirs'[r].record.rev, dirs'[r].record.state>> \in approved'
    <2>1. dirs'[r].record = writer[p].record
      BY <1>2, SealedBy
    <2>2. IsQuarantine(p) /\ writer[p].pc # "diagnose" /\ Placed(p)
      BY <1>2, <2>1 DEF IsQuarantine, LinkManifest, IInv, WriterInv
    <2> QED
      BY <1>0, <2>1, <2>2 DEF Placed
  <1> QED
    BY <1>1, <1>2, SealStep

(* Every step keeps the Human's last approval among the approved ones.     *)
LEMMA ApprovalStep ==
    ASSUME IInv, [Next]_vars
    PROVE  ApprovalInv'
  <1>0. ApprovalInv /\ approved \subseteq approved'
    BY ApprovedStep DEF ApprovedGrows, IInv
  <1>1. CASE Approve
    <2>1. Count \in Listed /\ Count \in Revisions
      BY <1>1, CountType, NumberTypes DEF Approve, LatestBroken
    <2>2. /\ approval'.rev = Count
          /\ approval'.diagnosis[Count] = Snapshot(Count)
          /\ <<Count, Snapshot(Count)>> \in approved'
      BY <1>1, <2>1 DEF Approve, Diagnosis
    <2> QED
      BY <2>1, <2>2 DEF ApprovalInv
  <1>2. CASE UNCHANGED approval
    BY <1>0, <1>2 DEF ApprovalInv
  <1>3. Approve \/ UNCHANGED approval
    BY DEF Next, vars, Write, Quarantine, BeginRevision, Mkdir, AddRaw,
           AddEnvelope, AddBare, AddFails, WriteTmp, LinkManifest,
           UnlinkTmp, QuarantineVerify, QuarantineDiagnose, Crash, Damage
  <1> QED
    BY <1>1, <1>2, <1>3

-----------------------------------------------------------------------------
(* The theorems.                                                           *)

(* An empty store satisfies the inductive invariant.                       *)
LEMMA InitIInv == Init => IInv
  <1> SUFFICES ASSUME Init PROVE IInv
    OBVIOUS
  <1>1. \A r \in Revisions : dirs[r] = NoDir /\ ~ dirs[r].made
                             /\ ~ dirs[r].man /\ dirs[r].record = NoRecord
    BY DEF Init, NoDir
  <1>2. \A p \in Writers : /\ writer[p] = IdleWriter
                           /\ writer[p].pc = "idle" /\ writer[p].num = 0
                           /\ writer[p].record = NoRecord
    BY DEF Init, IdleWriter
  <1>3. TypeOK
    BY <1>2, NullTypes, StoreAssumption DEF Init, TypeOK, Stray
  <1>4. OneWriterPerRevision
    BY <1>2 DEF OneWriterPerRevision, Live
  <1>5. NoRevisionGap
    <2>1. Present = {}
      BY <1>1, NumberTypes DEF Present
    <2>2. Count = 0
      BY <2>1, FS_EmptySet DEF Count
    <2> QED
      BY <1>1, <2>1, <2>2, NumberTypes DEF NoRevisionGap
  <1>6. QuarantineWasApproved
    BY <1>1 DEF QuarantineWasApproved
  <1>7. \A p \in Writers : WriterInv(p)
    BY <1>2 DEF WriterInv, Placed, Working, Live, IsQuarantine
  <1>8. \A r \in Revisions : DirInv(r)
    BY <1>1 DEF DirInv
  <1>9. ApprovalInv
    BY DEF Init, NoApproval, ApprovalInv
  <1> QED
    BY <1>3, <1>4, <1>5, <1>6, <1>7, <1>8, <1>9 DEF IInv

(* Every step keeps the inductive invariant.                               *)
LEMMA NextIInv == IInv /\ [Next]_vars => IInv'
  BY TypeStep, OneWriterStep, NumberStep, QuarantineStep, WriterStep,
     DirInvStep, ApprovalStep DEF IInv

(* The inductive invariant holds in every reachable state of the store.    *)
THEOREM Invariance == Spec => []IInv
  BY InitIInv, NextIInv, PTL DEF Spec

(* Every variable keeps its type, and only a quarantine is ever numbered   *)
(* beyond MAX_REVISIONS.                                                   *)
THEOREM TypeCorrect == Spec => []TypeOK
  <1>1. IInv => TypeOK
    BY DEF IInv
  <1> QED
    BY <1>1, Invariance, PTL

(* For any number of processes: two of them never write into the same      *)
(* revision directory, because mkdir is the only way in.                   *)
THEOREM NoTwoWriters == Spec => []OneWriterPerRevision
  <1>1. IInv => OneWriterPerRevision
    BY DEF IInv
  <1> QED
    BY <1>1, Invariance, PTL

(* For any MAX_REVISIONS: revision numbers have no gap.                    *)
THEOREM NumbersHaveNoGap == Spec => []NoRevisionGap
  <1>1. IInv => NoRevisionGap
    BY DEF IInv
  <1> QED
    BY <1>1, Invariance, PTL

(* Every quarantine record on disk names a revision and a state of it that *)
(* a Human approved.                                                       *)
THEOREM QuarantinesAreApproved == Spec => []QuarantineWasApproved
  <1>1. IInv => QuarantineWasApproved
    BY DEF IInv
  <1> QED
    BY <1>1, Invariance, PTL

(* No step of any process changes a sealed revision: what remains possible *)
(* is the unlink of MANIFEST.json.tmp and damage from outside.             *)
THEOREM SealedStaysFinal == Spec => SealedIsFinal
  <1> DEFINE Final == \A r \in Revisions : dirs[r].man =>
                         dirs'[r] = [dirs[r] EXCEPT !.tmp = dirs'[r].tmp,
                                                    !.bad = dirs'[r].bad]
  <1>1. IInv /\ [Next]_vars => [Final]_vars
    <2> SUFFICES ASSUME IInv, [Next]_vars, NEW r \in Revisions, dirs[r].man
                 PROVE  Kept(r)
      BY DEF Kept
    <2>1. dirs[r].made
      BY DEF IInv, DirInv
    <2> QED
      BY <2>1, DirStep DEF MakesNew
  <1> QED
    BY <1>1, Invariance, PTL DEF Spec, SealedIsFinal

-----------------------------------------------------------------------------
(* The store implements EvidenceLog: mkdir claims a number, the link of a  *)
(* manifest seals it, every other step changes neither.                    *)

Claimed == {r \in Revisions : dirs[r].made}
Contents == [r \in Revisions |->
                IF dirs[r].man THEN dirs[r].listed ELSE {NoItem}]

(* The mkdir of a new revision claims its number in the abstract log.      *)
LEMMA ClaimStep ==
    ASSUME IInv, [Next]_vars, NEW p \in Writers, MakesNew(p)
    PROVE  \E r \in Revisions : Log!Claim(r)
  <1> DEFINE n == writer[p].num
  <1>0. TypeOK /\ Present = 1..Count /\ Count \in 0..MaxRevisions
    BY CountType DEF IInv, NoRevisionGap
  <1>1. /\ n = Count + 1 /\ n \in Revisions
        /\ dirs' = [dirs EXCEPT ![n] = [dirs[n] EXCEPT !.made = TRUE]]
        /\ ~ dirs[n].made
    BY NewNumber DEF MakesNew
  <1>2. \A r \in Revisions : dirs'[r].made <=> dirs[r].made \/ r = n
    BY <1>0, <1>1 DEF TypeOK, Dirs
  <1>3. \A r \in Revisions : SameSeal(r)
    <2> SUFFICES ASSUME NEW r \in Revisions PROVE SameSeal(r)
      OBVIOUS
    <2>1. CASE r # n
      BY <1>0, <1>1, <2>1 DEF SameSeal, TypeOK
    <2>2. CASE r = n
      <3>1. dirs'[r] \in Touched(dirs[r], TRUE) /\ dirs[r] \in Dirs
        BY <1>0, <1>1, <2>2 DEF TypeOK, Touched
      <3> QED
        BY <3>1, SealFields DEF SameSeal
    <2> QED BY <2>1, <2>2
  <1>4. Claimed' = Claimed \cup {n} /\ n \notin Claimed
    BY <1>1, <1>2 DEF Claimed
  <1>5. Contents' = Contents
    BY <1>3 DEF Contents, SameSeal
  <1>6. n = 1 \/ n - 1 \in Claimed
    <2>1. CASE Count = 0
      BY <1>1, <2>1
    <2>2. CASE Count # 0
      <3>1. Count \in Present
        BY <1>0, <2>2, StoreAssumption
      <3> QED
        BY <1>0, <1>1, <3>1, NumberTypes, StoreAssumption
        DEF Present, Claimed
    <2> QED BY <2>1, <2>2
  <1> QED
    BY <1>1, <1>4, <1>5, <1>6 DEF Log!Claim, Claimed, Contents

(* The link of a manifest seals the revision in the abstract log.          *)
LEMMA SealingStep ==
    ASSUME IInv, [Next]_vars, NEW p \in Writers, LinkManifest(p)
    PROVE  \E r \in Revisions : \E listed \in SUBSET Evidence :
              Log!Seal(r, listed)
  <1> DEFINE n == writer[p].num
             L == writer[p].entries
  <1>0. TypeOK
    BY DEF IInv
  <1>1. /\ n \in Revisions /\ dirs[n].made
        /\ L # {} /\ L \in SUBSET Evidence
        /\ dirs'[n].made = dirs[n].made
        /\ dirs'[n].man = TRUE /\ dirs'[n].listed = L
    BY SealedBy
  <1>2. ~ dirs[n].man
    BY DEF LinkManifest
  <1>3. \A r \in Revisions \ {n} : dirs'[r] = dirs[r]
    BY <1>0 DEF LinkManifest, TypeOK
  <1>4. Claimed' = Claimed /\ n \in Claimed
    BY <1>1, <1>3 DEF Claimed
  <1>5. Contents' = [Contents EXCEPT ![n] = L] /\ Contents[n] = {NoItem}
    BY <1>1, <1>2, <1>3 DEF Contents
  <1> QED
    BY <1>1, <1>4, <1>5 DEF Log!Seal, Claimed, Contents

(* Every step of the store is a step of the abstract log, or a stutter.    *)
LEMMA LogStep == IInv /\ [Next]_vars => [Log!LogNext]_(Log!logVars)
  <1> SUFFICES ASSUME IInv, [Next]_vars
               PROVE  Log!LogNext \/ UNCHANGED Log!logVars
    OBVIOUS
  <1>1. CASE \E p \in Writers : MakesNew(p)
    BY <1>1, ClaimStep DEF Log!LogNext
  <1>2. CASE \E p \in Writers : LinkManifest(p)
    BY <1>2, SealingStep DEF Log!LogNext
  <1>3. CASE \A p \in Writers : ~ MakesNew(p) /\ ~ LinkManifest(p)
    <2>1. \A r \in Revisions : SameSeal(r) /\ dirs'[r].made = dirs[r].made
      BY <1>3, SealStep, DirStep DEF Kept
    <2>2. Claimed' = Claimed
      BY <2>1 DEF Claimed
    <2>3. Contents' = Contents
      BY <2>1 DEF Contents, SameSeal
    <2> QED
      BY <2>2, <2>3 DEF Log!logVars, Claimed, Contents
  <1> QED
    BY <1>1, <1>2, <1>3

(* With any number of writers, crashes and quarantines, the store behaves  *)
(* like a write-once log: what EvidenceLog promises holds of every         *)
(* behaviour of the store.                                                 *)
THEOREM StoreImplementsLog == Spec => ImplementsLog
  <1>1. Init => Log!LogInit
    BY DEF Init, NoDir, Log!LogInit
  <1> QED
    BY <1>1, Invariance, LogStep, PTL DEF Spec, ImplementsLog, Log!LogSpec

-----------------------------------------------------------------------------
(* The statuses of verify(): OwnStatus is a recursive function, so that it *)
(* is what its definition says needs an induction over the revisions.      *)

(* A nonempty set of natural numbers has a least element: what the proofs  *)
(* below use wherever an induction over revisions is meant.                *)
LEMMA LeastNumber ==
    ASSUME NEW T \in SUBSET Nat, T # {}
    PROVE  \E n \in T : \A m \in T : n <= m
  <1>1. PICK n \in T : \A m \in T : ~ (<<m, n>> \in OpToRel(<, Nat))
    BY NatLessThanWellFounded, WFMin
  <1>2. \A m \in T : ~ (m < n)
    BY <1>1 DEF OpToRel
  <1> QED
    BY <1>2

Statuses == {"ABSENT", "INCOMPLETE", "INVALID", "VALID"}

(* Verification knows four statuses; QUARANTINED is given afterwards.      *)
LEMMA StatusAfterType ==
    ASSUME NEW r, NEW prev
    PROVE  StatusAfter(r, prev) \in Statuses
  BY DEF StatusAfter, Statuses

(* What it means that f gives the revisions up to n their statuses.        *)
Statused(f, n) ==
    \A r \in 1..n : f[r] = StatusAfter(r, IF r = 1 THEN "VALID" ELSE f[r - 1])

(* For every n there are such statuses: those of n - 1 and one more.       *)
LEMMA StatusesExist ==
    \A n \in Nat : \E f \in [1..n -> Statuses] : Statused(f, n)
  <1> DEFINE T == {n \in Nat : ~ \E f \in [1..n -> Statuses] : Statused(f, n)}
  <1> SUFFICES ASSUME T # {} PROVE FALSE
    OBVIOUS
  <1>1. PICK n \in T : \A m \in T : n <= m
    BY LeastNumber
  <1>2. n # 0
    <2>1. [r \in 1..0 |-> "VALID"] \in [1..0 -> Statuses]
      BY DEF Statuses
    <2>2. Statused([r \in 1..0 |-> "VALID"], 0)
      BY DEF Statused
    <2> QED
      BY <1>1, <2>1, <2>2
  <1>3. n - 1 \in Nat /\ n - 1 \notin T
    <2>1. n \in Nat /\ \A m \in T : n <= m
      BY <1>1
    <2> HIDE DEF T
    <2>2. n - 1 \in Nat /\ ~(n <= n - 1)
      BY <1>2, <2>1
    <2> QED
      BY <2>1, <2>2
  <1>4. PICK f \in [1..(n - 1) -> Statuses] : Statused(f, n - 1)
    BY <1>3
  <1> DEFINE last == StatusAfter(n, IF n = 1 THEN "VALID" ELSE f[n - 1])
             g == [r \in 1..n |-> IF r = n THEN last ELSE f[r]]
  <1>5. last \in Statuses
    BY StatusAfterType
  <1>6. g \in [1..n -> Statuses]
    BY <1>1, <1>4, <1>5
  <1>7. Statused(g, n)
    <2> SUFFICES ASSUME NEW r \in 1..n
                 PROVE  g[r] = StatusAfter(r, IF r = 1 THEN "VALID"
                                              ELSE g[r - 1])
      BY DEF Statused
    <2>1. r # 1 => g[r - 1] = f[r - 1]
      BY <1>1
    <2>2. g[r] = StatusAfter(r, IF r = 1 THEN "VALID" ELSE f[r - 1])
      BY <1>1, <1>4 DEF Statused
    <2> QED
      BY <2>1, <2>2
  <1> QED
    BY <1>1, <1>6, <1>7

(* OwnStatus is the function that its recursive definition describes.      *)
LEMMA OwnStatusEq ==
    OwnStatus = [r \in Listed |->
                    StatusAfter(r, IF r = 1 THEN "VALID" ELSE OwnStatus[r - 1])]
  <1> DEFINE Eq(f) == f = [r \in Listed |->
                        StatusAfter(r, IF r = 1 THEN "VALID" ELSE f[r - 1])]
  <1>1. PICK f \in [1..MaxRevisions -> Statuses] : Statused(f, MaxRevisions)
    BY StatusesExist, StoreAssumption
  <1>2. Eq(f)
    BY <1>1 DEF Statused, Listed
  <1>3. OwnStatus = CHOOSE g : Eq(g)
    BY DEF OwnStatus
  <1> QED
    BY <1>2, <1>3
 
(* The status of a revision, from the one before.                          *)
LEMMA StatusOf ==
    ASSUME NEW r \in Listed
    PROVE  OwnStatus[r] = StatusAfter(r, IF r = 1 THEN "VALID"
                                         ELSE OwnStatus[r - 1])
  BY OwnStatusEq

-----------------------------------------------------------------------------
(* Nothing unfinished is trusted.                                          *)

(* A process whose seal() has written MANIFEST.json.tmp still has it.      *)
HalfSealed(p) == writer[p].pc \in {"tmp", "linked"} => dirs[writer[p].num].tmp

(* A step removes MANIFEST.json.tmp only by the unlink of the process that *)
(* works there.                                                            *)
LEMMA TmpStays ==
    ASSUME IInv, [Next]_vars, NEW r \in Revisions, dirs[r].tmp,
           \A p \in Writers : UnlinkTmp(p) => writer[p].num # r
    PROVE  dirs'[r].tmp
  <1>0. /\ TypeOK
        /\ \A q \in Writers : WriterInv(q)
        /\ dirs[r] \in Dirs
    BY DEF IInv, TypeOK
  <1>1. ASSUME NEW p \in Writers,
               \/ BeginRevision(p) \/ AddFails(p) \/ QuarantineVerify(p)
               \/ QuarantineDiagnose(p) \/ Crash(p)
        PROVE  dirs'[r].tmp
    BY <1>1 DEF BeginRevision, AddFails, QuarantineVerify,
                QuarantineDiagnose, Crash
  <1>2. ASSUME NEW p \in Writers, Mkdir(p) PROVE dirs'[r].tmp
    BY <1>0, <1>2 DEF Mkdir, TypeOK, Dirs
  <1>3. ASSUME NEW p \in Writers, NEW id \in Evidence, AddRaw(p, id)
        PROVE  dirs'[r].tmp
    BY <1>0, <1>3 DEF AddRaw, TypeOK, Dirs
  <1>4. ASSUME NEW p \in Writers, AddEnvelope(p) PROVE dirs'[r].tmp
    BY <1>0, <1>4 DEF AddEnvelope, TypeOK, Dirs
  <1>5. ASSUME NEW p \in Writers, NEW id \in Ids, AddBare(p, id)
        PROVE  dirs'[r].tmp
    BY <1>0, <1>5 DEF AddBare, TypeOK, Dirs
  <1>6. ASSUME NEW p \in Writers, WriteTmp(p) PROVE dirs'[r].tmp
    BY <1>0, <1>6 DEF WriteTmp, TypeOK, Dirs
  <1>7. ASSUME NEW p \in Writers, LinkManifest(p) PROVE dirs'[r].tmp
    BY <1>0, <1>7 DEF LinkManifest, TypeOK, Dirs
  <1>8. ASSUME NEW p \in Writers, UnlinkTmp(p) PROVE dirs'[r].tmp
    BY <1>0, <1>8 DEF UnlinkTmp, TypeOK
  <1>9. ASSUME NEW s \in Revisions, NEW id \in Evidence, Damage(s, id)
        PROVE  dirs'[r].tmp
    BY <1>0, <1>9 DEF Damage, TypeOK, Dirs
  <1>10. CASE Approve \/ UNCHANGED vars
    BY <1>10 DEF Approve, vars
  <1> QED
    BY <1>1, <1>2, <1>3, <1>4, <1>5, <1>6, <1>7, <1>8, <1>9, <1>10
    DEF Next, Write, Quarantine

(* Who is in the middle of seal() after a step was there before, or has    *)
(* just written MANIFEST.json.tmp.                                         *)
LEMMA SealerStep ==
    ASSUME IInv, [Next]_vars, NEW q \in Writers,
           writer'[q].pc \in {"tmp", "linked"}
    PROVE  \/ WriteTmp(q)
           \/ writer[q].pc \in {"tmp", "linked"} /\ ~ UnlinkTmp(q)
  <1> DEFINE Goal == \/ WriteTmp(q)
                     \/ writer[q].pc \in {"tmp", "linked"} /\ ~ UnlinkTmp(q)
  <1>0. /\ TypeOK
        /\ IdleWriter.pc = "idle"
        /\ writer'[q] # IdleWriter
    BY DEF IInv, IdleWriter
  <1>u. writer'[q] = writer[q] => Goal
    BY <1>0 DEF UnlinkTmp, TypeOK
  <1>1. ASSUME NEW p \in Writers, BeginRevision(p) PROVE Goal
    BY <1>0, <1>1, <1>u DEF BeginRevision, TypeOK, IdleWriter
  <1>2. ASSUME NEW p \in Writers, Mkdir(p) PROVE Goal
    BY <1>0, <1>2, <1>u DEF Mkdir, TypeOK, WriterStates
  <1>3. ASSUME NEW p \in Writers, NEW id \in Evidence, AddRaw(p, id)
        PROVE  Goal
    BY <1>0, <1>3, <1>u DEF AddRaw, TypeOK, WriterStates
  <1>4. ASSUME NEW p \in Writers, AddEnvelope(p) PROVE Goal
    BY <1>0, <1>4, <1>u DEF AddEnvelope, TypeOK, WriterStates
  <1>5. ASSUME NEW p \in Writers, NEW id \in Ids, AddBare(p, id)
        PROVE  Goal
    BY <1>0, <1>5, <1>u DEF AddBare, TypeOK, WriterStates
  <1>6. ASSUME NEW p \in Writers, AddFails(p) PROVE Goal
    BY <1>0, <1>6, <1>u DEF AddFails, TypeOK, WriterStates
  <1>7. ASSUME NEW p \in Writers, WriteTmp(p) PROVE Goal
    BY <1>0, <1>7, <1>u DEF WriteTmp, TypeOK
  <1>8. ASSUME NEW p \in Writers, LinkManifest(p) PROVE Goal
    BY <1>0, <1>8, <1>u DEF LinkManifest, UnlinkTmp, TypeOK
  <1>9. ASSUME NEW p \in Writers, UnlinkTmp(p) PROVE Goal
    BY <1>0, <1>9, <1>u DEF UnlinkTmp, TypeOK
  <1>10. ASSUME NEW p \in Writers, QuarantineVerify(p) PROVE Goal
    BY <1>0, <1>10, <1>u DEF QuarantineVerify, TypeOK, IdleWriter
  <1>11. ASSUME NEW p \in Writers, QuarantineDiagnose(p) PROVE Goal
    BY <1>0, <1>11, <1>u DEF QuarantineDiagnose, TypeOK, WriterStates
  <1>12. ASSUME NEW p \in Writers, Crash(p) PROVE Goal
    BY <1>0, <1>12, <1>u DEF Crash, TypeOK
  <1>13. ASSUME NEW s \in Revisions, NEW id \in Evidence, Damage(s, id)
         PROVE  Goal
    BY <1>13, <1>u DEF Damage
  <1>14. CASE Approve \/ UNCHANGED vars
    BY <1>14, <1>u DEF Approve, vars
  <1> QED
    BY <1>1, <1>2, <1>3, <1>4, <1>5, <1>6, <1>7, <1>8, <1>9, <1>10, <1>11,
       <1>12, <1>13, <1>14 DEF Next, Write, Quarantine

(* Every step keeps the half-sealed revisions half-sealed.                 *)
LEMMA HalfSealedStep ==
    ASSUME IInv, [Next]_vars, \A p \in Writers : HalfSealed(p)
    PROVE  \A q \in Writers : HalfSealed(q)'
  <1> SUFFICES ASSUME NEW q \in Writers, writer'[q].pc \in {"tmp", "linked"}
               PROVE  dirs'[writer'[q].num].tmp
    BY DEF HalfSealed
  <1>0. /\ TypeOK /\ OneWriterPerRevision
        /\ WriterInv(q)
    BY DEF IInv
  <1>1. writer'[q].num = writer[q].num
    BY LiveStep DEF Live
  <1>2. CASE WriteTmp(q)
    <2>1. writer[q].num \in Revisions /\ dirs[writer[q].num] \in Dirs
      BY <1>0, <1>2, NumberOf DEF WriteTmp
    <2> QED
      BY <1>0, <1>1, <1>2, <2>1 DEF WriteTmp, TypeOK, Dirs
  <1>3. CASE writer[q].pc \in {"tmp", "linked"} /\ ~ UnlinkTmp(q)
    <2>1. writer[q].num \in Revisions /\ dirs[writer[q].num].tmp
      BY <1>0, <1>3, NumberOf DEF HalfSealed
    <2>2. \A p \in Writers : UnlinkTmp(p) => writer[p].num # writer[q].num
      BY <1>0, <1>3 DEF UnlinkTmp, OneWriterPerRevision, Live
    <2> QED
      BY <1>1, <2>1, <2>2, TmpStays
  <1> QED
    BY <1>2, <1>3, SealerStep

(* A revision somebody works on has no manifest, or MANIFEST.json.tmp.     *)
LEMMA LiveIsUnsealed ==
    ASSUME IInv, NEW p \in Writers, HalfSealed(p), Live(p)
    PROVE  Unsealed(writer[p].num)
  BY DEF IInv, TypeOK, WriterStates, Phases, WriterInv, Working, HalfSealed,
         Live, Unsealed

(* A revision that is unsealed is no VALID one, whatever precedes it.      *)
LEMMA UnsealedIsNotValid ==
    ASSUME NEW r \in Listed, Unsealed(r)
    PROVE  OwnStatus[r] # "VALID"
  BY StatusOf DEF StatusAfter

(* A store that verifies trusts no revision that is unsealed.              *)
LEMMA TrustedIsSealed ==
    ASSUME IInv, \A p \in Writers : HalfSealed(p)
    PROVE  UnfinishedIsNeverTrusted
  <1> SUFFICES ASSUME Valid, NEW r \in Revisions, dirs[r].made,
                      ~ dirs[r].man \/ LiveIn(r)
               PROVE  Status(r) = "QUARANTINED"
    BY DEF UnfinishedIsNeverTrusted
  <1>1. Unsealed(r)
    BY LiveIsUnsealed DEF LiveIn, Unsealed
  <1>2. r \in Present
    BY StoreAssumption DEF Valid, StoreFinding, Present, Revisions, Listed, Stray
  <1>3. OwnStatus[r] # "VALID"
    BY <1>1, <1>2, UnsealedIsNotValid DEF Present
  <1> QED
    BY <1>2, <1>3 DEF Valid, Sound, Status

(* A store that verifies holds no revision somebody is still writing, or   *)
(* died writing, except one that was quarantined in exactly that state:    *)
(* for any number of processes, crashes, and with damage from outside.     *)
THEOREM NothingUnfinishedIsTrusted == Spec => []UnfinishedIsNeverTrusted
  <1> DEFINE HInv == IInv /\ \A p \in Writers : HalfSealed(p)
  <1>1. Init => HInv
    BY InitIInv DEF Init, IdleWriter, HalfSealed
  <1>2. HInv /\ [Next]_vars => HInv'
    BY NextIInv, HalfSealedStep
  <1>3. HInv => UnfinishedIsNeverTrusted
    BY TrustedIsSealed
  <1> QED
    BY <1>1, <1>2, <1>3, PTL DEF Spec

-----------------------------------------------------------------------------
(* A careful Human: what holds when nobody approves the quarantine of a    *)
(* revision that a live process works on.                                  *)

(* Nobody works on a revision that has a successor, and nobody works at    *)
(* all when a process is about to make the next one.                       *)
Alone(p) ==
    /\ Live(p) => \A s \in Revisions :
                     s > writer[p].num => ~ dirs[s].made
    /\ writer[p].pc = "mkdir" /\ ~ dirs[writer[p].num].made =>
          \A q \in Writers : ~ Live(q)

(* A quarantine works on the revision after the one it names, as it was or *)
(* with more in it.                                                        *)
Named(p) ==
    IsQuarantine(p) =>
        /\ writer[p].num = writer[p].record.rev + 1
        /\ writer[p].record.state.man => dirs[writer[p].record.rev].man

(* Until diagnose() has compared the approval, the revision a quarantine   *)
(* names may have been sealed since its first verification.                *)
Settled(p, s) == writer[p].pc = "diagnose" /\ s = writer[p].record.rev
                    => writer[p].record.state.man

(* A process knows every id that the revisions before its own have sealed, *)
(* and has added none of them.                                             *)
Informed(p) ==
    writer[p].pc # "idle" =>
       \A s \in Revisions :
          s < writer[p].num /\ dirs[s].man =>
             /\ Settled(p, s) => dirs[s].listed \subseteq writer[p].used
             /\ writer[p].entries \cap dirs[s].listed = {}

(* ... and the entries it has are those of its own directory.              *)
Tidy(p) == /\ writer[p].pc = "diagnose" => IsQuarantine(p)
           /\ writer[p].pc = "raw" => writer[p].item \notin writer[p].used
           /\ ~ Live(p) => writer[p].entries = {}

(* What a Human approved stays as broken as it was: the revision is there, *)
(* nobody works on it or on one before it, and it never becomes VALID.     *)
StaysBroken(k, state) ==
    /\ dirs[k].made
    /\ \A q \in Writers : Live(q) => writer[q].num > k
    /\ state.bad \subseteq dirs[k].bad
    /\ OwnStatus[k] # "VALID"

ApprovedStaysBroken == \A a \in approved : StaysBroken(a[1], a[2])

(* The inductive invariant of a store whose Human is careful. *)
CarefulInv == /\ \A p \in Writers : /\ HalfSealed(p) /\ Alone(p)
                                    /\ Named(p) /\ Informed(p) /\ Tidy(p)
              /\ ApprovedStaysBroken
              /\ NoIdSealedTwice

-----------------------------------------------------------------------------
(* What a step leaves alone.                                               *)

(* Nothing that is there disappears, no manifest and no damage either.     *)
LEMMA Grows ==
    ASSUME IInv, [Next]_vars, NEW r \in Revisions
    PROVE  /\ dirs[r].made => dirs'[r].made
           /\ dirs[r].man => dirs'[r].man
  <1>1. dirs[r].made => dirs'[r].made
    BY DirStep DEF Kept, MakesNew
  <1>2. dirs[r].man => dirs'[r].man
    BY SealStep, SealedBy DEF SameSeal
  <1> QED
    BY <1>1, <1>2

(* A revision nobody works on stays as it is, except for damage from       *)
(* outside.                                                                *)
LEMMA FrozenStep ==
    ASSUME IInv, [Next]_vars, NEW r \in Revisions, dirs[r].made,
           \A p \in Writers : Live(p) => writer[p].num # r
    PROVE  dirs'[r] = dirs[r] \/ \E id \in Evidence : Damage(r, id)
  <1> DEFINE Goal == dirs'[r] = dirs[r] \/ \E id \in Evidence : Damage(r, id)
  <1>0. TypeOK
    BY DEF IInv
  <1>1. ASSUME NEW p \in Writers,
               \/ BeginRevision(p) \/ AddFails(p) \/ QuarantineVerify(p)
               \/ QuarantineDiagnose(p) \/ Crash(p)
        PROVE  Goal
    BY <1>1 DEF BeginRevision, AddFails, QuarantineVerify,
                QuarantineDiagnose, Crash
  <1>2. ASSUME NEW p \in Writers, Mkdir(p) PROVE Goal
    BY <1>0, <1>2 DEF Mkdir, TypeOK
  <1>3. ASSUME NEW p \in Writers, NEW id \in Evidence, AddRaw(p, id)
        PROVE  Goal
    BY <1>0, <1>3 DEF AddRaw, TypeOK, Live
  <1>4. ASSUME NEW p \in Writers, AddEnvelope(p) PROVE Goal
    BY <1>0, <1>4 DEF AddEnvelope, TypeOK, Live
  <1>5. ASSUME NEW p \in Writers, NEW id \in Ids, AddBare(p, id)
        PROVE  Goal
    BY <1>0, <1>5 DEF AddBare, TypeOK, Live
  <1>6. ASSUME NEW p \in Writers, WriteTmp(p) PROVE Goal
    BY <1>0, <1>6 DEF WriteTmp, TypeOK, Live
  <1>7. ASSUME NEW p \in Writers, LinkManifest(p) PROVE Goal
    BY <1>0, <1>7 DEF LinkManifest, TypeOK, Live
  <1>8. ASSUME NEW p \in Writers, UnlinkTmp(p) PROVE Goal
    BY <1>0, <1>8 DEF UnlinkTmp, TypeOK, Live
  <1>9. ASSUME NEW s \in Revisions, NEW id \in Evidence, Damage(s, id)
        PROVE  Goal
    <2>1. CASE s = r
      BY <1>9, <2>1
    <2>2. CASE s # r
      BY <1>0, <1>9, <2>2 DEF Damage, TypeOK
    <2> QED BY <2>1, <2>2
  <1>10. CASE Approve \/ UNCHANGED vars
    BY <1>10 DEF Approve, vars
  <1> QED
    BY <1>1, <1>2, <1>3, <1>4, <1>5, <1>6, <1>7, <1>8, <1>9, <1>10
    DEF Next, Write, Quarantine

(* Damage is never repaired.                                               *)
LEMMA BadGrows ==
    ASSUME IInv, [Next]_vars, NEW r \in Revisions
    PROVE  dirs[r].bad \subseteq dirs'[r].bad
  <1>0. /\ TypeOK
        /\ \A q \in Writers : WriterInv(q)
        /\ dirs[r] \in Dirs
    BY DEF IInv, TypeOK
  <1> DEFINE Goal == dirs[r].bad \subseteq dirs'[r].bad
  <1>1. ASSUME NEW p \in Writers,
               \/ BeginRevision(p) \/ AddFails(p) \/ QuarantineVerify(p)
               \/ QuarantineDiagnose(p) \/ Crash(p)
        PROVE  Goal
    BY <1>1 DEF BeginRevision, AddFails, QuarantineVerify,
                QuarantineDiagnose, Crash
  <1>2. ASSUME NEW p \in Writers, Mkdir(p) PROVE Goal
    BY <1>0, <1>2 DEF Mkdir, TypeOK, Dirs
  <1>3. ASSUME NEW p \in Writers, NEW id \in Evidence, AddRaw(p, id)
        PROVE  Goal
    BY <1>0, <1>3 DEF AddRaw, TypeOK, Dirs
  <1>4. ASSUME NEW p \in Writers, AddEnvelope(p) PROVE Goal
    BY <1>0, <1>4 DEF AddEnvelope, TypeOK, Dirs
  <1>5. ASSUME NEW p \in Writers, NEW id \in Ids, AddBare(p, id)
        PROVE  Goal
    BY <1>0, <1>5 DEF AddBare, TypeOK, Dirs
  <1>6. ASSUME NEW p \in Writers, WriteTmp(p) PROVE Goal
    BY <1>0, <1>6 DEF WriteTmp, TypeOK, Dirs
  <1>7. ASSUME NEW p \in Writers, LinkManifest(p) PROVE Goal
    BY <1>0, <1>7 DEF LinkManifest, TypeOK, Dirs
  <1>8. ASSUME NEW p \in Writers, UnlinkTmp(p) PROVE Goal
    BY <1>0, <1>8 DEF UnlinkTmp, TypeOK, Dirs
  <1>9. ASSUME NEW s \in Revisions, NEW id \in Evidence, Damage(s, id)
        PROVE  Goal
    BY <1>9 DEF Damage
  <1>10. CASE Approve \/ UNCHANGED vars
    BY <1>10 DEF Approve, vars
  <1> QED
    BY <1>1, <1>2, <1>3, <1>4, <1>5, <1>6, <1>7, <1>8, <1>9, <1>10
    DEF Next, Write, Quarantine

-----------------------------------------------------------------------------
(* How the statuses of verify() change.                                    *)

StatusRule == \A r \in Listed : OwnStatus[r] =
                 StatusAfter(r, IF r = 1 THEN "VALID" ELSE OwnStatus[r - 1])

(* The rule holds in every state ...                                       *)
LEMMA StatusRuleHolds == StatusRule
  BY StatusOf DEF StatusRule

(* ... and so in the state after a step.                                   *)
LEMMA StatusRuleNext == StatusRule'
  BY StatusRuleHolds, PTL

(* What verification reads of a revision and of those before it.           *)
LEMMA FrozenParts ==
    ASSUME NEW n \in Listed, \A i \in 1..n : dirs'[i] = dirs[i]
    PROVE  /\ Unsealed(n)' <=> Unsealed(n)
           /\ FileFinding(n)' <=> FileFinding(n)
           /\ RecordOf(n)' = RecordOf(n)
           /\ n # 1 => (BoundTo(n, n - 1)' <=> BoundTo(n, n - 1))
  <1>1. n \in 1..n /\ (n # 1 => n - 1 \in 1..n) /\ 1..(n - 1) \subseteq 1..n
    BY StoreAssumption DEF Listed
  <1>2. Unsealed(n)' <=> Unsealed(n)
    BY <1>1 DEF Unsealed
  <1>3. Duplicate(n)' <=> Duplicate(n)
    BY <1>1 DEF Duplicate
  <1>4. FileFinding(n)' <=> FileFinding(n)
    BY <1>1, <1>3 DEF FileFinding
  <1>5. RecordOf(n)' = RecordOf(n)
    BY <1>1 DEF RecordOf
  <1>6. n # 1 => Snapshot(n - 1)' = Snapshot(n - 1)
    BY <1>1 DEF Snapshot
  <1>7. n # 1 => (BoundTo(n, n - 1)' <=> BoundTo(n, n - 1))
    BY <1>1, <1>5, <1>6 DEF BoundTo
  <1> QED
    BY <1>2, <1>4, <1>5, <1>7

(* When nothing changes up to a revision, neither do the statuses.         *)
LEMMA FrozenStatus ==
    ASSUME NEW k \in Listed, \A i \in 1..k : dirs'[i] = dirs[i]
    PROVE  OwnStatus'[k] = OwnStatus[k]
  <1> DEFINE T == {i \in 1..k : OwnStatus'[i] # OwnStatus[i]}
  <1> SUFFICES ASSUME T # {} PROVE FALSE
    BY StoreAssumption DEF Listed
  <1>0. T \in SUBSET Nat
    OBVIOUS
  <1>1. PICK n \in T : \A m \in T : n <= m
    <2> HIDE DEF T
    <2> QED BY <1>0, LeastNumber
  <1>2. /\ n \in Listed
        /\ \A i \in 1..n : dirs'[i] = dirs[i]
        /\ n # 1 => n - 1 \in 1..n /\ n - 1 \in 1..k /\ n - 1 \notin T
    BY <1>1, StoreAssumption DEF Listed
  <1>3. n # 1 => OwnStatus'[n - 1] = OwnStatus[n - 1]
    BY <1>2
  <1>4. PICK c : c = IF n = 1 THEN "VALID" ELSE OwnStatus[n - 1]
    OBVIOUS
  <1>5. OwnStatus[n] = StatusAfter(n, c)
    BY <1>2, <1>4, StatusRuleHolds DEF StatusRule
  <1>6. OwnStatus'[n] = StatusAfter(n, c)'
    BY <1>2, <1>3, <1>4, StatusRuleNext DEF StatusRule
  <1>7. n \in 1..n /\ dirs'[n] = dirs[n]
        /\ (n # 1 => dirs'[n - 1] = dirs[n - 1])
    BY <1>2, StoreAssumption DEF Listed
  <1>8. /\ RecordFinding(n, c)' <=> RecordFinding(n, c)
        /\ ChainFinding(n, c)' <=> ChainFinding(n, c)
        /\ Resolves(n, c)' <=> Resolves(n, c)
    BY <1>2, <1>7, FrozenParts DEF RecordFinding, ChainFinding, Resolves
  <1>9. StatusAfter(n, c)' = StatusAfter(n, c)
    BY <1>2, <1>7, <1>8, FrozenParts DEF StatusAfter
  <1> QED
    BY <1>1, <1>5, <1>6, <1>9

-----------------------------------------------------------------------------
(* A revision is VALID when it is sealed, its files are right, and it      *)
(* follows a VALID revision or resolves a broken one.                      *)
ValidAfter(n, prev) == /\ dirs[n].made /\ ~ Unsealed(n)
                       /\ ~ FileFinding(n)
                       /\ ~ RecordFinding(n, prev)
                       /\ ChainFinding(n, prev) => Resolves(n, prev)

(* verify() says VALID exactly of such a revision.                         *)
LEMMA ValidIff ==
    ASSUME NEW n \in Listed
    PROVE  OwnStatus[n] = "VALID"
             <=> ValidAfter(n, IF n = 1 THEN "VALID" ELSE OwnStatus[n - 1])
  <1> DEFINE c == IF n = 1 THEN "VALID" ELSE OwnStatus[n - 1]
  <1>1. OwnStatus[n] = StatusAfter(n, c)
    BY StatusOf
  <1>2. StatusAfter(n, c) = "VALID" <=> ValidAfter(n, c)
    <2> HIDE DEF c
    <2> QED BY DEF StatusAfter, ValidAfter
  <1> QED
    BY <1>1, <1>2

ValidRule == \A n \in Listed : OwnStatus[n] = "VALID"
    <=> ValidAfter(n, IF n = 1 THEN "VALID" ELSE OwnStatus[n - 1])

(* The rule holds in every state ...                                       *)
LEMMA ValidRuleHolds == ValidRule
  BY ValidIff DEF ValidRule

(* ... and so in the state after a step.                                   *)
LEMMA ValidRuleNext == ValidRule'
  BY ValidRuleHolds, PTL

AbsentRule == \A n \in Listed : OwnStatus[n] = "ABSENT" <=> ~ dirs[n].made

(* ABSENT is what is not there, in every state ...                         *)
LEMMA AbsentRuleHolds == AbsentRule
  BY StatusOf DEF AbsentRule, StatusAfter

(* ... and so in the state after a step.                                   *)
LEMMA AbsentRuleNext == AbsentRule'
  BY AbsentRuleHolds, PTL

(* What verification reads of a revision whose files were not touched.     *)
LEMMA UntouchedParts ==
    ASSUME NEW n \in Listed, dirs'[n] = dirs[n],
           \A i \in Revisions : dirs'[i].man = dirs[i].man
                                /\ dirs'[i].listed = dirs[i].listed
    PROVE  /\ Unsealed(n)' <=> Unsealed(n)
           /\ FileFinding(n)' <=> FileFinding(n)
           /\ RecordOf(n)' = RecordOf(n)
           /\ n # 1 /\ Snapshot(n - 1)' = Snapshot(n - 1)
                => (BoundTo(n, n - 1)' <=> BoundTo(n, n - 1))
  <1>1. 1..(n - 1) \subseteq Revisions
    BY StoreAssumption DEF Listed, Revisions, Stray
  <1>2. Unsealed(n)' <=> Unsealed(n)
    BY DEF Unsealed
  <1>3. Duplicate(n)' <=> Duplicate(n)
    BY <1>1 DEF Duplicate
  <1>4. FileFinding(n)' <=> FileFinding(n)
    BY <1>3 DEF FileFinding
  <1>5. RecordOf(n)' = RecordOf(n)
    BY DEF RecordOf
  <1> QED
    BY <1>2, <1>4, <1>5 DEF BoundTo

(* Damage from outside makes no revision VALID that was not, as long as    *)
(* every approved revision stays broken.                                   *)
LEMMA DamageStatus ==
    ASSUME IInv, [Next]_vars, ApprovedStaysBroken,
           NEW j \in Revisions, NEW id \in Evidence, Damage(j, id),
           NEW k \in Listed, OwnStatus'[k] = "VALID"
    PROVE  OwnStatus[k] = "VALID"
  <1> DEFINE T == {i \in Listed : OwnStatus'[i] = "VALID"
                                  /\ OwnStatus[i] # "VALID"}
  <1> SUFFICES ASSUME T # {} PROVE FALSE
    OBVIOUS
  <1>0. T \in SUBSET Nat
    BY DEF Listed
  <1>1. PICK n \in T : \A m \in T : n <= m
    <2> HIDE DEF T
    <2> QED BY <1>0, LeastNumber
  <1>2. /\ n \in Listed /\ n \in Revisions
        /\ OwnStatus'[n] = "VALID" /\ OwnStatus[n] # "VALID"
        /\ n # 1 => n - 1 \in Listed /\ n - 1 \in Revisions /\ n - 1 \notin T
    BY <1>1, StoreAssumption, NumberTypes DEF Listed
  <1> HIDE DEF T
  <1>3. /\ TypeOK
        /\ dirs' = [dirs EXCEPT ![j] = [dirs[j] EXCEPT !.bad = {id}]]
        /\ \A r \in Revisions : dirs[r].bad = {}
    BY DEF IInv, Damage
  <1>4. /\ dirs'[j].bad = {id}
        /\ \A r \in Revisions : r # j => dirs'[r] = dirs[r]
        /\ \A r \in Revisions : dirs'[r].man = dirs[r].man
                                /\ dirs'[r].listed = dirs[r].listed
                                /\ dirs'[r].made = dirs[r].made
    BY <1>3 DEF TypeOK, Dirs
  <1>5. \A i \in Listed : i = j => OwnStatus'[i] # "VALID"
    BY <1>4, ValidRuleNext DEF ValidRule, ValidAfter, FileFinding
  <1>6. dirs'[n] = dirs[n]
    BY <1>2, <1>4, <1>5
  <1>7. /\ Unsealed(n)' <=> Unsealed(n)
        /\ FileFinding(n)' <=> FileFinding(n)
        /\ RecordOf(n)' = RecordOf(n)
        /\ n # 1 /\ Snapshot(n - 1)' = Snapshot(n - 1)
             => (BoundTo(n, n - 1)' <=> BoundTo(n, n - 1))
    BY <1>2, <1>4, <1>6, UntouchedParts
  <1>8. CASE n = 1
    <2>1. ValidAfter(n, "VALID")' /\ ~ ValidAfter(n, "VALID")
      BY <1>2, <1>8, ValidRuleHolds, ValidRuleNext DEF ValidRule
    <2> QED
      BY <2>1, <1>6, <1>7, <1>8
      DEF ValidAfter, RecordFinding, ChainFinding, Resolves
  <1>9. CASE n # 1
    <2>1. PICK c : c = OwnStatus[n - 1]
      OBVIOUS
    <2>2. PICK d : d = OwnStatus'[n - 1]
      OBVIOUS
    <2>3. ValidAfter(n, d)' /\ ~ ValidAfter(n, c)
      BY <1>2, <1>9, <2>1, <2>2, ValidRuleHolds, ValidRuleNext DEF ValidRule
    <2>4. d = "VALID" => c = "VALID"
      BY <1>2, <1>9, <2>1, <2>2 DEF T
    <2>5. CASE d # "VALID"
      <3>1. BoundTo(n, n - 1)'
        BY <1>9, <2>3, <2>5 DEF ValidAfter, ChainFinding, Resolves
      <3>2. RecordOf(n).state.bad = dirs'[n - 1].bad
            /\ RecordOf(n) = [rev |-> n - 1, state |-> Snapshot(n - 1)']
        BY <1>7, <3>1 DEF BoundTo, Snapshot
      <3>3. <<n - 1, RecordOf(n).state>> \in approved
        <4>1. RecordOf(n) # NoRecord
          BY <1>2, <1>9, <3>2, StoreAssumption DEF NoRecord, Listed
        <4>2. dirs[n].man /\ dirs[n].record = RecordOf(n)
          BY <4>1 DEF RecordOf
        <4> QED
          BY <1>2, <3>2, <4>1, <4>2 DEF IInv, QuarantineWasApproved
      <3>4. StaysBroken(n - 1, RecordOf(n).state)
        BY <3>3 DEF ApprovedStaysBroken
      <3>5. n - 1 # j
        BY <1>2, <1>3, <1>4, <1>9, <3>2, <3>4 DEF StaysBroken
      <3>6. dirs'[n - 1] = dirs[n - 1]
        BY <1>2, <1>4, <1>9, <3>5
      <3>7. BoundTo(n, n - 1)
        BY <1>7, <1>9, <3>1, <3>6 DEF Snapshot
      <3>8. c # "VALID" /\ c # "ABSENT"
        BY <1>2, <1>9, <2>1, <3>4, AbsentRuleHolds DEF AbsentRule, StaysBroken
      <3>9. Resolves(n, c) /\ ~ RecordFinding(n, c)
        BY <1>9, <3>2, <3>7, <3>8 DEF Resolves, RecordFinding
      <3> QED
        BY <1>6, <1>7, <2>3, <3>9 DEF ValidAfter
    <2>6. CASE d = "VALID"
      <3>1. c = "VALID"
        BY <2>4, <2>6
      <3>2. ~ RecordFinding(n, c)' /\ ~ ChainFinding(n, c)'
        BY <2>3, <2>6, <3>1 DEF ValidAfter, Resolves
      <3>3. dirs'[n - 1].man = dirs[n - 1].man
        BY <1>2, <1>4, <1>9
      <3>4. ~ ChainFinding(n, c)
        BY <1>6, <1>9, <3>2, <3>3 DEF ChainFinding
      <3>5. ~ RecordFinding(n, c)
        BY <1>7, <3>1, <3>2 DEF RecordFinding
      <3> QED
        BY <1>6, <1>7, <2>3, <3>4, <3>5 DEF ValidAfter
    <2> QED BY <2>5, <2>6
  <1> QED BY <1>8, <1>9

-----------------------------------------------------------------------------
(* What every step keeps of what a Human approved.                         *)

(* How the numbers of the live processes, the made revisions and a new one *)
(* compare.                                                                *)
LEMMA NumberFacts ==
    ASSUME IInv
    PROVE  /\ \A r \in Revisions : dirs[r].made
                 => r <= Count \/ (r = Count + 1 /\ r = Stray)
           /\ \A r \in 1..Count : r \in Listed /\ r \in Revisions
                                  /\ dirs[r].made
           /\ dirs[Stray].made => Count = MaxRevisions
           /\ Count \in Nat /\ Count <= MaxRevisions
           /\ Count + 1 \in Revisions
  <1>1. /\ Present = 1..Count
        /\ dirs[Stray].made => Count = MaxRevisions
        /\ Count \in 0..MaxRevisions
    BY CountType DEF IInv, NoRevisionGap
  <1>2. \A r \in Revisions : r \in Listed \/ r = Stray
    BY StoreAssumption DEF Revisions, Listed, Stray
  <1>3. \A r \in Revisions : dirs[r].made
           => r <= Count \/ (r = Count + 1 /\ r = Stray)
    <2> SUFFICES ASSUME NEW r \in Revisions, dirs[r].made
                 PROVE  r <= Count \/ (r = Count + 1 /\ r = Stray)
      OBVIOUS
    <2>1. CASE r \in Listed
      <3>1. r \in Present
        BY <2>1 DEF Present
      <3> QED BY <1>1, <3>1
    <2>2. CASE r = Stray
      <3>1. Count = MaxRevisions
        BY <1>1, <2>2
      <3> QED BY <2>2, <3>1 DEF Stray
    <2> QED BY <1>2, <2>1, <2>2
  <1>4. \A r \in 1..Count : r \in Listed /\ r \in Revisions /\ dirs[r].made
    BY <1>1, NumberTypes DEF Present
  <1> QED
    BY <1>1, <1>3, <1>4, StoreAssumption DEF Revisions, Stray

(* A live process works on a revision that is there.                       *)
LEMMA LiveNumber ==
    ASSUME IInv, NEW p \in Writers, Live(p)
    PROVE  /\ writer[p].num \in Revisions
           /\ dirs[writer[p].num].made
  BY NumberOf DEF IInv, WriterInv, Placed, Live

(* A step keeps an approved revision as broken as it was.                  *)
LEMMA BrokenStep ==
    ASSUME IInv, [Next]_vars, ApprovedStaysBroken,
           NEW k \in Listed, NEW state, StaysBroken(k, state)
    PROVE  StaysBroken(k, state)'
  <1>1. k \in Revisions /\ dirs'[k].made
    BY Grows, NumberTypes DEF StaysBroken
  <1>2. 1..k \subseteq 1..Count /\ k <= Count
    BY <1>1, NumberFacts, StoreAssumption DEF StaysBroken, Listed, Stray
  <1>3. ASSUME NEW q \in Writers, Live(q)'
        PROVE  writer'[q].num > k
    <2>1. writer'[q].num = writer[q].num
      BY <1>3, LiveStep
    <2>2. CASE Live(q)
      BY <2>1, <2>2 DEF StaysBroken
    <2>3. CASE MakesNew(q)
      <3>1. writer[q].num = Count + 1
        BY <2>3, NewNumber
      <3> QED
        BY <2>1, <3>1, <1>2, NumberFacts DEF Listed
    <2> QED BY <1>3, <2>2, <2>3, LiveStep
  <1>4. state.bad \subseteq dirs'[k].bad
    BY <1>1, BadGrows DEF StaysBroken
  <1>5. OwnStatus'[k] # "VALID"
    <2>1. CASE \E j \in Revisions, id \in Evidence : Damage(j, id)
      BY <2>1, DamageStatus DEF StaysBroken
    <2>2. CASE \A j \in Revisions, id \in Evidence : ~ Damage(j, id)
      <3>1. ASSUME NEW i \in 1..k PROVE dirs'[i] = dirs[i]
        <4>1. i \in Revisions /\ dirs[i].made
          BY <1>2, NumberFacts
        <4>2. \A p \in Writers : Live(p) => writer[p].num # i
          BY <3>1 DEF StaysBroken, Listed
        <4> QED
          BY <2>2, <4>1, <4>2, FrozenStep
      <3>2. OwnStatus'[k] = OwnStatus[k]
        BY <3>1, FrozenStatus
      <3> QED
        BY <3>2 DEF StaysBroken
    <2> QED BY <2>1, <2>2
  <1> QED
    BY <1>1, <1>3, <1>4, <1>5 DEF StaysBroken

(* The latest revision is not resolved by a later one.                     *)
LEMMA LatestStatus ==
    ASSUME IInv, Count \in Listed
    PROVE  Sound(Count) <=> OwnStatus[Count] = "VALID"
  <1>1. Count + 1 \notin Present
    BY DEF IInv, NoRevisionGap, Listed
  <1>2. Status(Count) = OwnStatus[Count]
    BY <1>1 DEF Status
  <1>3. OwnStatus[Count] # "QUARANTINED"
    BY StatusOf, StatusAfterType DEF Statuses
  <1> QED
    BY <1>2, <1>3 DEF Sound

(* The assumption of the theorems about a careful Human: no broken         *)
(* revision is approved for quarantine while a writer is live in it.       *)
ApprovesCarefully == Approve => ~ LiveIn(Count)
CarefulApprovals == [][ApprovesCarefully]_vars

(* A careful Human approves a revision nobody works on any more.           *)
LEMMA ApproveBroken ==
    ASSUME IInv, ApprovesCarefully, \A p \in Writers : Alone(p), Approve
    PROVE  /\ Count \in Listed
           /\ StaysBroken(Count, Snapshot(Count))'
  <1>1. /\ Count \in Listed /\ ~ Sound(Count)
        /\ ~ LiveIn(Count)
        /\ Count \in Revisions
    BY CountType, NumberTypes DEF Approve, LatestBroken, ApprovesCarefully
  <1>2. UNCHANGED <<dirs, writer>>
    BY DEF Approve
  <1>3. dirs[Count].made
    BY <1>1, NumberFacts DEF Listed
  <1>4. ASSUME NEW q \in Writers, Live(q) PROVE writer[q].num > Count
    <2>1. writer[q].num # Count
      BY <1>1, <1>4 DEF LiveIn
    <2>2. ~ (Count > writer[q].num)
      BY <1>1, <1>3, <1>4 DEF Alone
    <2>3. writer[q].num \in Int /\ Count \in Int
      BY <1>1, <1>4, LiveNumber, StoreAssumption DEF Revisions, Stray, Listed
    <2> QED BY <2>1, <2>2, <2>3
  <1>5. OwnStatus[Count] # "VALID"
    BY <1>1, LatestStatus
  <1>6. OwnStatus'[Count] = OwnStatus[Count]
    BY <1>1, <1>2, FrozenStatus
  <1>7. PICK c : c = Count /\ c = Count'
    BY <1>2 DEF Count, Present
  <1>8. Snapshot(c)' = Snapshot(c) /\ Snapshot(c).bad = dirs[c].bad
    BY <1>2 DEF Snapshot
  <1>9. StaysBroken(c, Snapshot(c))'
    BY <1>2, <1>3, <1>4, <1>5, <1>6, <1>7, <1>8 DEF StaysBroken, Live
  <1> QED
    BY <1>1, <1>7, <1>9

(* Every step keeps whatever was approved broken.                          *)
LEMMA ApprovedBrokenStep ==
    ASSUME IInv, [Next]_vars, [ApprovesCarefully]_vars, ApprovedStaysBroken,
           \A p \in Writers : Alone(p)
    PROVE  ApprovedStaysBroken'
  <1>1. \A a \in approved : a[1] \in Listed
    BY DEF IInv, TypeOK
  <1>2. ASSUME NEW a \in approved PROVE StaysBroken(a[1], a[2])'
    BY <1>1, <1>2, BrokenStep DEF ApprovedStaysBroken
  <1>6. ASSUME Approve PROVE ApprovesCarefully
    BY <1>6 DEF Approve, vars
  <1>3. CASE Approve
    <2>1. PICK c : c = Count /\ c = Count'
      BY <1>3 DEF Approve, Count, Present
    <2>2. PICK s : s = Snapshot(c) /\ s = Snapshot(c)'
      BY <1>3 DEF Approve, Snapshot
    <2>3. approved' = approved \cup {<<c, s>>}
      BY <1>3, <2>1, <2>2 DEF Approve
    <2>4. StaysBroken(c, s)'
      BY <1>3, <1>6, <2>1, <2>2, ApproveBroken
    <2> QED
      BY <1>2, <2>3, <2>4 DEF ApprovedStaysBroken
  <1>4. CASE UNCHANGED approved
    BY <1>2, <1>4 DEF ApprovedStaysBroken
  <1>5. Approve \/ UNCHANGED approved
    BY DEF Next, vars, Write, Quarantine, BeginRevision, Mkdir, AddRaw,
           AddEnvelope, AddBare, AddFails, WriteTmp, LinkManifest,
           UnlinkTmp, QuarantineVerify, QuarantineDiagnose, Crash, Damage
  <1> QED
    BY <1>3, <1>4, <1>5

-----------------------------------------------------------------------------
(* A process changes by its own action, or not at all.                     *)
LEMMA ActorStep ==
    ASSUME IInv, [Next]_vars, NEW q \in Writers
    PROVE  writer'[q] = writer[q] \/ Write(q) \/ Quarantine(q) \/ Crash(q)
  <1>0. TypeOK
    BY DEF IInv
  <1>1. ASSUME NEW p \in Writers, p # q, Write(p) PROVE writer'[q] = writer[q]
    BY <1>0, <1>1
    DEF TypeOK, Write, BeginRevision, Mkdir, AddRaw, AddEnvelope, AddBare,
        AddFails, WriteTmp, LinkManifest, UnlinkTmp
  <1>2. ASSUME NEW p \in Writers, p # q, Quarantine(p) \/ Crash(p)
        PROVE  writer'[q] = writer[q]
    BY <1>0, <1>2
    DEF TypeOK, Quarantine, QuarantineVerify, QuarantineDiagnose, Crash
  <1>3. CASE Approve \/ UNCHANGED vars
    BY <1>3 DEF Approve, vars
  <1>4. CASE \E r \in Revisions, id \in Evidence : Damage(r, id)
    BY <1>4 DEF Damage
  <1> QED
    BY <1>1, <1>2, <1>3, <1>4 DEF Next

\* A step of a call that goes on with the revision it has.
GoesOn(q) == /\ writer[q].pc # "idle"
             /\ writer'[q].pc \notin {"idle", "diagnose"}
             /\ writer'[q].num = writer[q].num
             /\ writer'[q].record = writer[q].record
             /\ writer'[q].pc = "mkdir" =>
                   QuarantineDiagnose(q) /\ Matches(q)

(* What a process can do: nothing, begin, end, or go on.                   *)
LEMMA CallStep ==
    ASSUME IInv, [Next]_vars, NEW q \in Writers
    PROVE  \/ writer'[q] = writer[q]
           \/ BeginRevision(q) \/ QuarantineVerify(q)
           \/ writer'[q] = IdleWriter
           \/ GoesOn(q)
  <1>0. TypeOK
    BY DEF IInv
  <1>1. ASSUME NEW id \in Evidence, AddRaw(q, id) \/ AddBare(q, id)
        PROVE  GoesOn(q)
    BY <1>0, <1>1 DEF TypeOK, WriterStates, GoesOn, AddRaw, AddBare
  <1>3. CASE Mkdir(q) \/ AddEnvelope(q) \/ AddFails(q)
    BY <1>0, <1>3
    DEF TypeOK, WriterStates, GoesOn, Mkdir, AddEnvelope, AddFails
  <1>4. CASE WriteTmp(q) \/ LinkManifest(q) \/ UnlinkTmp(q)
    BY <1>0, <1>4
    DEF TypeOK, WriterStates, GoesOn, WriteTmp, LinkManifest, UnlinkTmp
  <1>2. CASE Quarantine(q) \/ Crash(q)
    BY <1>0, <1>2
    DEF TypeOK, WriterStates, GoesOn, Quarantine, QuarantineDiagnose, Crash
  <1>5. Ids \subseteq Evidence
    BY DEF Evidence
  <1> QED
    BY <1>1, <1>2, <1>3, <1>4, <1>5, ActorStep DEF Write

(* Every step keeps the quarantines named.                                 *)
LEMMA NamedStep ==
    ASSUME IInv, [Next]_vars, NEW q \in Writers, Named(q)
    PROVE  Named(q)'
  <1> SUFFICES ASSUME writer'[q].record # NoRecord
               PROVE  /\ writer'[q].num = writer'[q].record.rev + 1
                      /\ writer'[q].record.state.man =>
                            dirs'[writer'[q].record.rev].man
    BY DEF Named, IsQuarantine
  <1>0. /\ TypeOK /\ WriterInv(q)
        /\ IdleWriter.record = NoRecord
    BY DEF IInv, IdleWriter
  <1>1. CASE writer'[q].num = writer[q].num
             /\ writer'[q].record = writer[q].record
    <2>1. writer[q].record.rev \in Revisions
      BY <1>0, <1>1, NumberTypes DEF WriterInv, Placed, IsQuarantine
    <2> QED
      BY <1>1, <2>1, Grows DEF Named, IsQuarantine
  <1>2. CASE BeginRevision(q)
    BY <1>0, <1>2 DEF BeginRevision, TypeOK, IdleWriter
  <1>3. CASE QuarantineVerify(q)
    <2>1. /\ writer'[q].num = Count + 1
          /\ writer'[q].record = [rev |-> Count, state |-> Snapshot(Count)]
          /\ UNCHANGED dirs
      BY <1>0, <1>3 DEF QuarantineVerify, TypeOK, IdleWriter
    <2> QED
      BY <2>1 DEF Snapshot
  <1>4. CASE writer'[q] = IdleWriter
    BY <1>0, <1>4
  <1> QED
    BY <1>1, <1>2, <1>3, <1>4, CallStep DEF GoesOn

(* Nobody works when only VALID and quarantined revisions are there.       *)
LEMMA ValidIsQuiet ==
    ASSUME IInv, \A p \in Writers : HalfSealed(p) /\ Alone(p), Valid,
           NEW p \in Writers
    PROVE  ~ Live(p)
  <1> SUFFICES ASSUME Live(p) PROVE FALSE
    OBVIOUS
  <1>1. writer[p].num \in Revisions /\ dirs[writer[p].num].made
    BY LiveNumber
  <1>2. ~ dirs[Stray].made
    BY DEF Valid, StoreFinding
  <1>3. writer[p].num \in 1..Count
    BY <1>1, <1>2, NumberFacts DEF Revisions
  <1>4. Count \in Listed /\ Count \in Revisions /\ dirs[Count].made
    BY <1>3, NumberFacts
  <1>5. writer[p].num = Count
    <2>1. ~ (Count > writer[p].num)
      BY <1>4 DEF Alone
    <2> QED BY <1>3, <2>1, NumberFacts
  <1>6. Unsealed(Count)
    BY <1>5, LiveIsUnsealed
  <1>7. ~ Sound(Count)
    BY <1>4, <1>6, LatestStatus, UnsealedIsNotValid
  <1> QED
    BY <1>4, <1>7 DEF Valid, Present

(* Nobody works when a quarantine that matches its approval goes on.       *)
LEMMA MatchIsQuiet ==
    ASSUME IInv, ApprovedStaysBroken, \A p \in Writers : Named(p) /\ Tidy(p),
           NEW q \in Writers, writer[q].pc = "diagnose", Matches(q),
           ~ dirs[writer[q].num].made,
           NEW p \in Writers
    PROVE  ~ Live(p)
  <1> SUFFICES ASSUME Live(p) PROVE FALSE
    OBVIOUS
  <1> DEFINE k == writer[q].record.rev
  <1>1. /\ IsQuarantine(q) /\ WriterInv(q)
        /\ k \in Listed /\ approval.rev = k
        /\ writer[q].num = k + 1
    BY DEF Tidy, IInv, WriterInv, Placed, Matches, Named
  <1>2. <<k, approval.diagnosis[k]>> \in approved
    BY <1>1 DEF IInv, ApprovalInv, Listed
  <1>3. StaysBroken(k, approval.diagnosis[k])
    BY <1>2 DEF ApprovedStaysBroken
  <1>4. writer[p].num > k
    BY <1>3 DEF StaysBroken
  <1>5. writer[p].num \in Revisions /\ dirs[writer[p].num].made
    BY LiveNumber
  <1>6. k + 1 \notin 1..Count
    BY <1>1, NumberFacts
  <1>7. writer[p].num # k + 1
    BY <1>1, <1>5
  <1>8. Count \in Nat /\ k \in Nat /\ k > 0 /\ writer[p].num \in Nat
    BY <1>1, <1>5, NumberFacts, StoreAssumption
    DEF Listed, Revisions, Stray
  <1>9. k >= Count
    BY <1>6, <1>8
  <1>10. writer[p].num <= Count + 1
    BY <1>5, <1>8, NumberFacts
  <1> QED
    BY <1>4, <1>7, <1>8, <1>9, <1>10

(* Every step keeps the live process alone with the latest revision.       *)
LEMMA AloneStep ==
    ASSUME IInv, [Next]_vars, ApprovedStaysBroken,
           \A p \in Writers : /\ HalfSealed(p) /\ Alone(p)
                              /\ Named(p) /\ Tidy(p),
           NEW q \in Writers
    PROVE  Alone(q)'
  <1>0. TypeOK /\ WriterInv(q)
    BY DEF IInv
  <1>1. ASSUME Live(q)', NEW s \in Revisions, s > writer'[q].num
        PROVE  ~ dirs'[s].made
    <2>1. writer'[q].num = writer[q].num /\ (Live(q) \/ MakesNew(q))
      BY <1>1, LiveStep
    <2>2. CASE Live(q)
      <3>1. ~ dirs[s].made
        BY <1>1, <2>1, <2>2 DEF Alone
      <3>2. \A p \in Writers : MakesNew(p) => writer[p].num # s
        BY <2>2 DEF Alone, MakesNew, Mkdir
      <3> QED
        BY <3>1, <3>2, DirStep DEF Kept
    <2>3. CASE MakesNew(q)
      <3>1. /\ writer[q].num = Count + 1
            /\ dirs' = [dirs EXCEPT ![writer[q].num] =
                          [dirs[writer[q].num] EXCEPT !.made = TRUE]]
        BY <2>3, NewNumber
      <3>2. dirs'[s] = dirs[s]
        BY <1>0, <1>1, <2>1, <3>1, NumberFacts DEF TypeOK, Revisions
      <3>3. ~ dirs[s].made
        BY <1>1, <2>1, <3>1, NumberFacts, StoreAssumption
        DEF Revisions, Stray
      <3> QED BY <3>2, <3>3
    <2> QED BY <2>1, <2>2, <2>3
  <1>2. ASSUME writer'[q].pc = "mkdir", ~ dirs'[writer'[q].num].made,
               NEW p \in Writers
        PROVE  ~ Live(p)'
    <2>1. ASSUME Live(p)', ~ MakesNew(p) PROVE Live(p)
      BY <2>1, LiveStep
    <2>2. CASE BeginRevision(q)
      <3>1. ~ Live(p)
        BY <2>2, ValidIsQuiet DEF BeginRevision
      <3>2. ~ MakesNew(p)
        BY <1>0, <2>2
        DEF BeginRevision, MakesNew, Mkdir, TypeOK, WriterStates
      <3> QED BY <2>1, <3>1, <3>2
    <2>3. CASE QuarantineDiagnose(q) /\ Matches(q)
      <3>1. writer'[q].num = writer[q].num /\ UNCHANGED dirs
        BY <1>0, <2>3 DEF QuarantineDiagnose, TypeOK, WriterStates
      <3>2. ~ Live(p)
        BY <1>2, <2>3, <3>1, MatchIsQuiet DEF QuarantineDiagnose
      <3>3. ~ MakesNew(p)
        BY <1>0, <2>3, <3>1, NewNumber
        DEF QuarantineDiagnose, MakesNew, Mkdir, TypeOK, WriterStates
      <3> QED BY <2>1, <3>2, <3>3
    <2>4. CASE writer'[q] = writer[q]
      <3>1. writer[q].num \in Revisions
        BY <1>0, <1>2, <2>4, NumberOf
      <3>2. ~ dirs[writer[q].num].made
        BY <1>2, <2>4, <3>1, Grows
      <3>3. ~ Live(p)
        BY <1>2, <2>4, <3>2 DEF Alone
      <3>4. ASSUME MakesNew(p) PROVE FALSE
        <4>1. writer[p].num = Count + 1 /\ writer[p].num \in Revisions
          BY <3>4, NewNumber
        <4>2. writer[q].num \in 1..(Count + 1)
          BY <1>0, <1>2, <2>4 DEF WriterInv, Placed
        <4>3. writer[q].num \notin 1..Count
          BY <3>2, NumberFacts
        <4>4. writer[q].num = writer[p].num
          BY <4>1, <4>2, <4>3, NumberFacts
        <4>5. dirs'[writer[p].num].made
          BY <1>0, <3>4, <4>1 DEF MakesNew, Mkdir, TypeOK, Dirs
        <4> QED BY <1>2, <2>4, <4>4, <4>5
      <3> QED BY <2>1, <3>3, <3>4
    <2>5. writer'[q] # IdleWriter /\ ~ QuarantineVerify(q)
      <3>1. writer'[q] # IdleWriter
        BY <1>2 DEF IdleWriter
      <3>2. QuarantineVerify(q) => writer'[q].pc = "diagnose"
        BY <1>0 DEF IdleWriter, QuarantineVerify, TypeOK
      <3> QED BY <1>2, <3>1, <3>2
    <2> QED BY <1>2, <2>2, <2>3, <2>4, <2>5, CallStep DEF GoesOn
  <1> QED
    BY <1>1, <1>2 DEF Alone

-----------------------------------------------------------------------------
(* Every step keeps the entries tidy.                                      *)
LEMMA TidyStep ==
    ASSUME IInv, [Next]_vars, NEW q \in Writers, Tidy(q)
    PROVE  Tidy(q)'
  <1>0. /\ TypeOK
        /\ IdleWriter.pc = "idle" /\ IdleWriter.entries = {}
    BY DEF IInv, IdleWriter
  <1>1. CASE writer'[q] = writer[q]
    BY <1>1 DEF Tidy, IsQuarantine, Live
  <1>2. CASE BeginRevision(q)
    <2>1. writer'[q].pc = "mkdir" /\ writer'[q].entries = {}
      BY <1>0, <1>2 DEF BeginRevision, TypeOK, IdleWriter
    <2> QED BY <2>1 DEF Tidy
  <1>3. CASE QuarantineVerify(q)
    <2>1. /\ writer'[q].pc = "diagnose" /\ writer'[q].entries = {}
          /\ writer'[q].record = [rev |-> Count, state |-> Snapshot(Count)]
      BY <1>0, <1>3 DEF QuarantineVerify, TypeOK, IdleWriter
    <2>2. Count # 0
      BY <1>3, CountType, StoreAssumption
      DEF QuarantineVerify, LatestBroken, Listed
    <2> QED
      BY <2>1, <2>2 DEF Tidy, IsQuarantine, NoRecord
  <1>4. CASE writer'[q] = IdleWriter
    BY <1>0, <1>4 DEF Tidy
  <1>5. CASE QuarantineDiagnose(q)
    BY <1>0, <1>5
    DEF QuarantineDiagnose, TypeOK, WriterStates, Tidy, Live
  <1>6. CASE Mkdir(q)
    BY <1>0, <1>6 DEF Mkdir, TypeOK, WriterStates, Tidy, Live
  <1>7. ASSUME NEW id \in Evidence, AddRaw(q, id) PROVE Tidy(q)'
    BY <1>0, <1>7 DEF AddRaw, TypeOK, WriterStates, Tidy, Live
  <1>8. ASSUME NEW id \in Ids, AddBare(q, id) PROVE Tidy(q)'
    BY <1>0, <1>8 DEF AddBare, TypeOK, WriterStates, Tidy, Live
  <1>9. CASE AddEnvelope(q) \/ AddFails(q)
    BY <1>0, <1>9 DEF AddEnvelope, AddFails, TypeOK, WriterStates, Tidy, Live
  <1>10. CASE WriteTmp(q) \/ LinkManifest(q)
    BY <1>0, <1>10 DEF WriteTmp, LinkManifest, TypeOK, WriterStates, Tidy, Live
  <1>11. UnlinkTmp(q) \/ Crash(q) => writer'[q] = IdleWriter
    BY <1>0 DEF UnlinkTmp, Crash, TypeOK
  <1> QED
    BY <1>1, <1>2, <1>3, <1>4, <1>5, <1>6, <1>7, <1>8, <1>9, <1>10, <1>11,
       ActorStep DEF Write, Quarantine

(* The ids of the revisions there are, sealed or not.                      *)
LEMMA SealedIdsAreUsed ==
    ASSUME IInv, NEW s \in 1..Count, dirs[s].man
    PROVE  dirs[s].listed \subseteq UsedIds
  <1>1. s \in Present
    BY NumberFacts DEF Present
  <1> QED
    BY <1>1 DEF UsedIds, Envelopes

\* What Informed says of one revision that is sealed.
InformedOf(q, s) ==
    /\ Settled(q, s) => dirs[s].listed \subseteq writer[q].used
    /\ writer[q].entries \cap dirs[s].listed = {}

(* A process stays informed of the revisions that were sealed before.      *)
LEMMA StillInformed ==
    ASSUME IInv, [Next]_vars, NEW q \in Writers, Informed(q), Tidy(q),
           writer'[q].pc # "idle",
           NEW s \in Revisions, s < writer'[q].num,
           dirs[s].man, dirs'[s].listed = dirs[s].listed
    PROVE  InformedOf(q, s)'
  <1>0. /\ TypeOK
        /\ IdleWriter.pc = "idle" /\ IdleWriter.entries = {}
        /\ s \in 1..(Count + 1) => s \in Nat
    BY DEF IInv, IdleWriter
  <1>1. CASE writer'[q] = writer[q]
    BY <1>1 DEF Informed, InformedOf, Settled
  <1>2. CASE BeginRevision(q) \/ QuarantineVerify(q)
    <2>1. /\ writer'[q].num = Count + 1 /\ writer'[q].used = UsedIds
          /\ writer'[q].entries = {}
      <3>1. CASE BeginRevision(q)
        BY <1>0, <3>1 DEF BeginRevision, TypeOK, IdleWriter
      <3>2. CASE QuarantineVerify(q)
        BY <1>0, <3>2 DEF QuarantineVerify, TypeOK, IdleWriter
      <3> QED BY <1>2, <3>1, <3>2
    <2>2. s \in 1..Count
      BY <2>1, NumberFacts DEF Revisions
    <2> QED
      BY <2>1, <2>2, SealedIdsAreUsed DEF InformedOf
  <1>3. CASE GoesOn(q)
    <2>1. /\ writer[q].pc # "idle" /\ writer'[q].pc # "diagnose"
          /\ s < writer[q].num
      BY <1>3 DEF GoesOn
    <2>2. /\ Settled(q, s) => dirs[s].listed \subseteq writer[q].used
          /\ writer[q].entries \cap dirs[s].listed = {}
      BY <2>1 DEF Informed
    <2>3. writer[q].pc # "diagnose" => Settled(q, s)
      BY DEF Settled
    <2> SUFFICES /\ dirs[s].listed \subseteq writer'[q].used
                 /\ writer'[q].entries \cap dirs[s].listed = {}
      BY DEF InformedOf
    <2>4. CASE QuarantineDiagnose(q) /\ Matches(q)
      <3>1. /\ writer'[q].used = writer[q].used
            /\ writer'[q].entries = writer[q].entries
        BY <1>0, <2>4 DEF QuarantineDiagnose, TypeOK, WriterStates
      <3>2. Settled(q, s)
        BY <2>4 DEF Settled, Matches, Diagnosis, Snapshot
      <3> QED BY <2>2, <3>1, <3>2
    <2>5. ASSUME NEW id \in Evidence, AddRaw(q, id) \/ AddBare(q, id)
          PROVE  /\ dirs[s].listed \subseteq writer'[q].used
                 /\ writer'[q].entries \cap dirs[s].listed = {}
      BY <1>0, <2>2, <2>3, <2>5 DEF AddRaw, AddBare, TypeOK, WriterStates
    <2>6. CASE AddEnvelope(q)
      <3>1. /\ writer[q].item \notin writer[q].used
            /\ dirs[s].listed \subseteq writer[q].used
        BY <2>2, <2>3, <2>6 DEF AddEnvelope, Tidy
      <3>2. /\ writer'[q].used = writer[q].used \cup {writer[q].item}
            /\ writer'[q].entries = writer[q].entries \cup {writer[q].item}
        BY <1>0, <2>6 DEF AddEnvelope, TypeOK, WriterStates
      <3> QED BY <2>2, <3>1, <3>2
    <2>7. CASE Mkdir(q) \/ AddFails(q)
      BY <1>0, <1>3, <2>2, <2>3, <2>7
      DEF Mkdir, AddFails, TypeOK, WriterStates, GoesOn
    <2>8. CASE WriteTmp(q) \/ LinkManifest(q)
      BY <1>0, <2>2, <2>3, <2>8
      DEF WriteTmp, LinkManifest, TypeOK, WriterStates
    <2>9. /\ ~ UnlinkTmp(q) /\ ~ Crash(q)
          /\ ~ (QuarantineDiagnose(q) /\ ~ Matches(q))
      BY <1>0, <1>3 DEF UnlinkTmp, Crash, QuarantineDiagnose, TypeOK, GoesOn
    <2>10. ~ BeginRevision(q) /\ ~ QuarantineVerify(q)
      BY <2>1 DEF BeginRevision, QuarantineVerify
    <2>11. Ids \subseteq Evidence
      BY DEF Evidence
    <2>12. CASE writer'[q] = writer[q]
      BY <2>1, <2>2, <2>3, <2>12
    <2> QED
      BY <2>4, <2>5, <2>6, <2>7, <2>8, <2>9, <2>10, <2>11, <2>12, ActorStep
      DEF Write, Quarantine
  <1>4. writer'[q] # IdleWriter
    BY <1>0
  <1> QED
    BY <1>1, <1>2, <1>3, <1>4, CallStep

(* Who seals a revision is ahead of every other process.                   *)
LEMMA SealIsNews ==
    ASSUME IInv, [Next]_vars,
           \A p \in Writers : /\ Alone(p) /\ Named(p)
                              /\ Informed(p) /\ Tidy(p),
           NEW p \in Writers, LinkManifest(p),
           NEW s, s = writer[p].num,
           NEW q \in Writers, writer'[q].pc # "idle", s < writer'[q].num
    PROVE  InformedOf(q, s)'
  <1> DEFINE k == writer[q].record.rev
  <1>0. TypeOK /\ WriterInv(q)
    BY DEF IInv
  <1>1. Live(p) /\ s \in Revisions /\ ~ dirs[s].man
    BY LiveNumber DEF LinkManifest, Live
  <1>2. writer'[p].num = writer[p].num
    BY <1>0 DEF LinkManifest, TypeOK, WriterStates
  <1>3. p # q
    BY <1>0, <1>1, <1>2 DEF TypeOK, WriterStates
  <1>4. writer'[q] = writer[q]
    BY <1>0, <1>3 DEF LinkManifest, TypeOK
  <1>5. writer[q].num \in Revisions /\ ~ dirs[writer[q].num].made
    BY <1>0, <1>1, <1>4, NumberOf DEF Alone
  <1>6. ~ Live(q)
    BY <1>5, LiveNumber
  <1>7. writer[q].pc = "diagnose"
    BY <1>1, <1>4, <1>5, <1>6 DEF Alone, Live
  <1>8. writer[q].entries = {}
    BY <1>6 DEF Tidy
  <1>9. /\ IsQuarantine(q) /\ k \in Listed /\ writer[q].num = k + 1
    BY <1>0, <1>7 DEF Tidy, WriterInv, Placed, Named
  <1>10. k \in Revisions /\ dirs[k].made
    <2>1. writer[q].num \in 1..(Count + 1)
      BY <1>0, <1>7 DEF WriterInv, Placed
    <2>2. k \in 1..Count
      BY <1>9, <2>1, NumberFacts DEF Listed
    <2> QED BY <2>2, NumberFacts
  <1>11. ~ (k > s)
    BY <1>1, <1>10 DEF Alone
  <1>12. k = s
    BY <1>1, <1>4, <1>9, <1>11 DEF Listed, Revisions
  <1>13. ~ writer[q].record.state.man
    BY <1>1, <1>9, <1>12 DEF Named
  <1> QED
    BY <1>4, <1>7, <1>8, <1>12, <1>13 DEF InformedOf, Settled

(* Every step keeps the processes informed of what is sealed.              *)
LEMMA InformedStep ==
    ASSUME IInv, [Next]_vars,
           \A p \in Writers : /\ Alone(p) /\ Named(p)
                              /\ Informed(p) /\ Tidy(p),
           NEW q \in Writers
    PROVE  Informed(q)'
  <1> SUFFICES ASSUME writer'[q].pc # "idle", NEW s \in Revisions,
                      s < writer'[q].num, dirs'[s].man
               PROVE  InformedOf(q, s)'
    BY DEF Informed, InformedOf
  <1>1. CASE SameSeal(s)
    BY <1>1, StillInformed DEF SameSeal
  <1>2. ASSUME NEW p \in Writers, LinkManifest(p), writer[p].num = s
        PROVE  InformedOf(q, s)'
    BY <1>2, SealIsNews
  <1> QED BY <1>1, <1>2, SealStep

(* A manifest lists nothing that another one lists already.                *)
LEMMA SealIsDisjoint ==
    ASSUME IInv, [Next]_vars,
           \A p \in Writers : Alone(p) /\ Informed(p),
           NEW p \in Writers, LinkManifest(p),
           NEW s \in Revisions, s # writer[p].num, dirs'[s].man
    PROVE  /\ dirs[s].man /\ dirs'[s].listed = dirs[s].listed
           /\ dirs'[writer[p].num].listed \cap dirs'[s].listed = {}
  <1>0. TypeOK /\ Live(p) /\ writer[p].num \in Revisions
    BY LiveNumber DEF IInv, LinkManifest, Live
  <1>1. dirs'[s] = dirs[s]
    BY <1>0 DEF LinkManifest, TypeOK
  <1>2. dirs[s].made
    BY <1>1 DEF IInv, DirInv
  <1>3. s < writer[p].num
    BY <1>0, <1>2 DEF Alone, Revisions
  <1>4. writer[p].entries \cap dirs[s].listed = {}
    BY <1>1, <1>3 DEF Informed, LinkManifest
  <1> QED
    BY <1>1, <1>4, SealedBy

(* Every step keeps every id sealed at most once.                          *)
LEMMA SealedOnceStep ==
    ASSUME IInv, [Next]_vars, NoIdSealedTwice,
           \A p \in Writers : Alone(p) /\ Informed(p)
    PROVE  NoIdSealedTwice'
  <1> SUFFICES ASSUME NEW r \in Revisions, NEW s \in Revisions, r # s,
                      dirs'[r].man, dirs'[s].man
               PROVE  dirs'[r].listed \cap dirs'[s].listed = {}
    BY DEF NoIdSealedTwice
  <1>1. CASE SameSeal(r) /\ SameSeal(s)
    BY <1>1 DEF SameSeal, NoIdSealedTwice
  <1>2. CASE \E p \in Writers : LinkManifest(p) /\ writer[p].num = r
    BY <1>2, SealIsDisjoint
  <1>3. CASE \E p \in Writers : LinkManifest(p) /\ writer[p].num = s
    BY <1>3, SealIsDisjoint
  <1> QED
    BY <1>1, <1>2, <1>3, SealStep

-----------------------------------------------------------------------------
(* An empty store satisfies the invariant ...                              *)
LEMMA InitCarefulInv == Init => CarefulInv
  <1> SUFFICES ASSUME Init PROVE CarefulInv
    OBVIOUS
  <1>1. \A p \in Writers : /\ writer[p] = IdleWriter
                           /\ writer[p].pc = "idle"
                           /\ writer[p].entries = {}
                           /\ writer[p].record = NoRecord
    BY DEF Init, IdleWriter
  <1>2. \A p \in Writers : /\ HalfSealed(p) /\ Alone(p)
                           /\ Named(p) /\ Informed(p) /\ Tidy(p)
    BY <1>1 DEF HalfSealed, Alone, Named, Informed, Tidy, Live, IsQuarantine
  <1>3. ApprovedStaysBroken /\ NoIdSealedTwice
    BY DEF Init, ApprovedStaysBroken, NoIdSealedTwice, NoDir
  <1> QED
    BY <1>2, <1>3 DEF CarefulInv

(* ... and every step keeps it.                                            *)
LEMMA NextCarefulInv ==
    IInv /\ CarefulInv /\ [Next]_vars /\ [ApprovesCarefully]_vars => CarefulInv'
  BY HalfSealedStep, AloneStep, NamedStep, InformedStep, TidyStep,
     ApprovedBrokenStep, SealedOnceStep DEF CarefulInv

(* The invariant holds in every reachable state of such a store.           *)
LEMMA CarefulInvariance == Spec /\ CarefulApprovals => [](IInv /\ CarefulInv)
  BY InitIInv, NextIInv, InitCarefulInv, NextCarefulInv, PTL
     DEF Spec, CarefulApprovals

(* If no broken revision is approved for quarantine while a writer is live *)
(* in it, no evidence id is ever sealed twice: the ids a writer was told   *)
(* are used when its revision began stay the right ones until it seals,    *)
(* whoever crashes, and with damage from outside. Nothing in store.py or   *)
(* human.py asks for that: verify() reports a revision broken while its    *)
(* writer lives, and an approval of it makes the property false.           *)
THEOREM IdsAreSealedOnce == Spec /\ CarefulApprovals => []NoIdSealedTwice
  <1>1. CarefulInv => NoIdSealedTwice
    BY DEF CarefulInv
  <1> QED
    BY <1>1, CarefulInvariance, PTL

(* What a Human approved stays broken, so no record names a VALID one.     *)
LEMMA BrokenIsFinal == IInv /\ CarefulInv => QuarantineIsFinal
  <1> SUFFICES ASSUME IInv, CarefulInv, NEW r \in Present,
                      dirs[r].man, dirs[r].record # NoRecord
               PROVE  Status(dirs[r].record.rev) # "VALID"
    BY DEF QuarantineIsFinal
  <1>1. r \in Revisions
    BY NumberTypes DEF Present
  <1>2. <<dirs[r].record.rev, dirs[r].record.state>> \in approved
    BY <1>1 DEF IInv, QuarantineWasApproved
  <1>3. OwnStatus[dirs[r].record.rev] # "VALID"
    BY <1>2 DEF CarefulInv, ApprovedStaysBroken, StaysBroken
  <1> QED
    BY <1>3 DEF Status

(* If no broken revision is approved for quarantine while a writer is live *)
(* in it, a revision whose quarantine is sealed is never VALID again,      *)
(* whether the store verifies or not. Without that the docstring of        *)
(* quarantine_latest is refuted (EvidenceStore_undone.cfg).                *)
THEOREM QuarantineStaysFinal ==
    Spec /\ CarefulApprovals => []QuarantineIsFinal
  BY BrokenIsFinal, CarefulInvariance, PTL

(* Under the same assumption already the approval is final: from then on   *)
(* nobody works on that revision or one before it, and no later state of   *)
(* the store makes it VALID.                                               *)
THEOREM ApprovedNeverMends ==
    Spec /\ CarefulApprovals => []ApprovedStaysBroken
  <1>1. CarefulInv => ApprovedStaysBroken
    BY DEF CarefulInv
  <1> QED
    BY <1>1, CarefulInvariance, PTL
=============================================================================
