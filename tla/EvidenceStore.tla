--------------------------- MODULE EvidenceStore ---------------------------
(***************************************************************************)
(* The Evidence Store of src/iacreview/evidence/store.py: revision         *)
(* directories written file by file by concurrent RevisionWriters, sealed  *)
(* by a manifest that is linked into place, verified as one hash chain,    *)
(* and recovered, when the latest revision is broken, only by a quarantine *)
(* record that a Human approved for the exact state on disk.               *)
(*                                                                         *)
(* Hashes are abstract: the SHA-256 of a manifest is the revision that     *)
(* wrote it, and a state digest is the Snapshot it digests, so that two    *)
(* digests are equal exactly when what they digest is equal.               *)
(***************************************************************************)
EXTENDS Integers, FiniteSets

CONSTANTS
    Ids,                  \* evidence ids that callers may store
    Writers,              \* processes that use the store's Python API
    MaxRevisions,         \* MAX_REVISIONS: 9999 in the code
    MaxApprovals,         \* bound: states the Human approves in all
    DamageAllowed,        \* one stored file may be altered from outside
    QuarantineMayCrash,   \* a process may stop inside quarantine_latest
    CarefulHuman          \* the Human approves only when no writer is live
                          \* in the broken revision

ASSUME StoreAssumption ==
    /\ MaxRevisions \in Nat \ {0}
    /\ MaxApprovals \in Nat
    /\ DamageAllowed \in BOOLEAN
    /\ QuarantineMayCrash \in BOOLEAN
    /\ CarefulHuman \in BOOLEAN

VARIABLES
    dirs,       \* revision number -> what its directory holds
    writer,     \* process -> its RevisionWriter, or where it is in a call
    approval,   \* the QuarantineApproval the Human handed over last
    approved    \* history: every <<revision, state>> a Human ever approved

vars == <<dirs, writer, approval, approved>>

-----------------------------------------------------------------------------
(* Types *)

Listed == 1..MaxRevisions               \* names that match _REV
Stray  == MaxRevisions + 1              \* rev-10000 matches nothing
Revisions == 1..Stray

QuarId(r) == <<"quarantine", r>>        \* QUARANTINE_PREFIX + revision id
Evidence == Ids \cup {QuarId(r) : r \in Listed}
NoItem == QuarId(0)

\* What _state_digest covers of one revision directory.
Snapshots == [made : BOOLEAN, raw : SUBSET Evidence, env : SUBSET Evidence,
              tmp : BOOLEAN, man : BOOLEAN, bad : SUBSET Evidence]
NoState == [made |-> FALSE, raw |-> {}, env |-> {},
            tmp |-> FALSE, man |-> FALSE, bad |-> {}]

\* previous_revision_id and previous_manifest_sha256 of a manifest.
Links == [of : {"none", "manifest", "state"},
          rev : 0..MaxRevisions, state : Snapshots]
NoLink == [of |-> "none", rev |-> 0, state |-> NoState]
ManifestLink(r) == [of |-> "manifest", rev |-> r, state |-> NoState]
StateLink(r, s) == [of |-> "state", rev |-> r, state |-> s]

\* The fields of a quarantine record that verification reads; rev 0: none.
Records == [rev : 0..MaxRevisions, state : Snapshots]
NoRecord == [rev |-> 0, state |-> NoState]

Dirs == [made : BOOLEAN, raw : SUBSET Evidence, env : SUBSET Evidence,
         tmp : BOOLEAN, man : BOOLEAN, bad : SUBSET Evidence,
         listed : SUBSET Evidence, link : Links, record : Records]
NoDir == [made |-> FALSE, raw |-> {}, env |-> {}, tmp |-> FALSE,
          man |-> FALSE, bad |-> {}, listed |-> {}, link |-> NoLink,
          record |-> NoRecord]

Phases == {"idle", "diagnose", "mkdir", "open", "raw", "tmp", "linked"}
WriterStates == [pc : Phases, num : 0..Stray, link : Links,
                 used : SUBSET Evidence, entries : SUBSET Evidence,
                 item : Evidence \cup {NoItem}, record : Records]
IdleWriter == [pc |-> "idle", num |-> 0, link |-> NoLink, used |-> {},
               entries |-> {}, item |-> NoItem, record |-> NoRecord]

Approvals == [rev : 0..MaxRevisions, diagnosis : [Revisions -> Snapshots]]
NoApproval == [rev |-> 0, diagnosis |-> [r \in Revisions |-> NoState]]

-----------------------------------------------------------------------------
(* verify(): the report is a function of what is on disk *)

Snapshot(r) == [made |-> dirs[r].made, raw |-> dirs[r].raw,
                env |-> dirs[r].env, tmp |-> dirs[r].tmp,
                man |-> dirs[r].man, bad |-> dirs[r].bad]

Present == {r \in Listed : dirs[r].made}
Count == Cardinality(Present)

Duplicate(r) == \E s \in 1..(r - 1) :
    dirs[s].man /\ dirs[s].listed \cap dirs[r].listed # {}

\* Files that are not listed, or differ from what the manifest recorded.
FileFinding(r) == \/ dirs[r].bad # {}
                  \/ ~ (dirs[r].raw \cup dirs[r].env \subseteq dirs[r].listed)
                  \/ Duplicate(r)

\* The quarantine record a sealed revision carries, if it can be parsed.
RecordOf(r) == IF /\ dirs[r].man
                  /\ QuarId(dirs[r].record.rev) \notin dirs[r].bad
               THEN dirs[r].record
               ELSE NoRecord

\* A record that is bound, with the chain, to the previous state on disk.
BoundTo(r, prev) == /\ RecordOf(r) = [rev |-> prev, state |-> Snapshot(prev)]
                    /\ dirs[r].link = StateLink(prev, Snapshot(prev))

ChainFinding(r, prevStatus) ==
    IF r = 1
    THEN dirs[r].link # NoLink
    ELSE \/ dirs[r].link # ManifestLink(r - 1)
         \/ ~ dirs[r - 1].man
         \/ prevStatus # "VALID"

\* A record for another revision, a VALID one, or a state that has changed.
RecordFinding(r, prevStatus) ==
    LET named == RecordOf(r).rev
    IN  /\ named # 0 /\ r # 1
        /\ \/ named # r - 1
           \/ prevStatus = "VALID"
           \/ ~ BoundTo(r, r - 1)

Resolves(r, prevStatus) == /\ r # 1
                           /\ prevStatus \notin {"VALID", "ABSENT"}
                           /\ BoundTo(r, r - 1)

\* Faulty variant: verify() overlooks a leftover MANIFEST.json.tmp.
Unsealed_TmpIgnored(r) == ~ dirs[r].man

\* No manifest, or an interrupted seal left MANIFEST.json.tmp.
Unsealed(r) == dirs[r].tmp \/ ~ dirs[r].man

\* What verification says of a revision, given what it says of the one before.
StatusAfter(r, prevStatus) ==
    CASE ~ dirs[r].made -> "ABSENT"
      [] dirs[r].made /\ Unsealed(r) -> "INCOMPLETE"
      [] OTHER -> IF \/ FileFinding(r)
                     \/ RecordFinding(r, prevStatus)
                     \/ /\ ChainFinding(r, prevStatus)
                        /\ ~ Resolves(r, prevStatus)
                  THEN "INVALID" ELSE "VALID"

\* The status a revision has before the next one is looked at.
OwnStatus[r \in Listed] ==
    StatusAfter(r, IF r = 1 THEN "VALID" ELSE OwnStatus[r - 1])

Status(r) == IF /\ r + 1 \in Present
                /\ Resolves(r + 1, OwnStatus[r])
             THEN "QUARANTINED" ELSE OwnStatus[r]

\* Evidence ids a report names: the manifest's, else the envelopes found.
Envelopes(r) == IF dirs[r].man THEN dirs[r].listed ELSE dirs[r].env
\* Faulty variant: used ids read only from the VALID revisions.
UsedIds_ValidOnly == UNION {Envelopes(r) : r \in {s \in Present :
                                                  Status(s) = "VALID"}}
UsedIds == UNION {Envelopes(r) : r \in Present}

Sound(r) == Status(r) \in {"VALID", "QUARANTINED"}

\* Findings about the store root: a stray entry, a gap, an unsealed
\* revision that is followed by a later one.
StoreFinding == \/ dirs[Stray].made
                \/ Present # 1..Count
                \/ \E r \in Present : r < Count /\ Status(r) = "INCOMPLETE"

Valid == ~ StoreFinding /\ \A r \in Present : Sound(r)

\* Evidence that find() and read_raw() return.
Usable == IF Valid
          THEN UNION {dirs[r].listed : r \in {s \in Present :
                                                Status(s) = "VALID"}}
          ELSE {}

\* diagnose(): its digest covers every status, state and finding, and all
\* of these are functions of the snapshots.
Diagnosis == [r \in Revisions |-> Snapshot(r)]

\* Faulty variant: a sound latest revision may be quarantined too.
LatestBroken_Any == /\ Present # {}
                    /\ ~ StoreFinding
                    /\ \A r \in Present \ {Count} : Sound(r)

\* quarantine_latest()'s view: only the latest revision is broken.
LatestBroken == /\ Present # {}
                /\ ~ Sound(Count)
                /\ ~ StoreFinding
                /\ \A r \in Present \ {Count} : Sound(r)

-----------------------------------------------------------------------------
Init == /\ dirs = [r \in Revisions |-> NoDir]
        /\ writer = [p \in Writers |-> IdleWriter]
        /\ approval = NoApproval
        /\ approved = {}

Live(p) == writer[p].pc \notin {"idle", "diagnose", "mkdir"}
LiveIn(r) == \E p \in Writers : Live(p) /\ writer[p].num = r
IsQuarantine(p) == writer[p].record # NoRecord

\* Faulty variant: MAX_REVISIONS is not checked.
BeginRevision_NoLimit(p) ==
    /\ writer[p].pc = "idle"
    /\ Valid
    /\ writer' = [writer EXCEPT ![p] =
          [IdleWriter EXCEPT
             !.pc = "mkdir",
             !.num = Count + 1,
             !.link = IF Count = 0 THEN NoLink ELSE ManifestLink(Count),
             !.used = UsedIds]]
    /\ UNCHANGED <<dirs, approval, approved>>

(* begin_revision(): verify, number and used ids now, mkdir later *)
BeginRevision(p) ==
    /\ writer[p].pc = "idle"
    /\ Valid
    /\ Count + 1 <= MaxRevisions
    /\ writer' = [writer EXCEPT ![p] =
          [IdleWriter EXCEPT
             !.pc = "mkdir",
             !.num = Count + 1,
             !.link = IF Count = 0 THEN NoLink ELSE ManifestLink(Count),
             !.used = UsedIds]]
    /\ UNCHANGED <<dirs, approval, approved>>

\* Faulty variant: mkdir(exist_ok=True).
Mkdir_ExistOk(p) ==
    /\ writer[p].pc = "mkdir"
    /\ dirs' = [dirs EXCEPT ![writer[p].num].made = TRUE]
    /\ writer' = [writer EXCEPT ![p].pc = "open"]
    /\ UNCHANGED <<approval, approved>>

(* _create_revision_dir(): an existing directory is never reused *)
Mkdir(p) ==
    /\ writer[p].pc = "mkdir"
    /\ LET r == writer[p].num
       IN  IF dirs[r].made
           THEN /\ writer' = [writer EXCEPT ![p] = IdleWriter]
                /\ UNCHANGED dirs
           ELSE /\ dirs' = [dirs EXCEPT ![r].made = TRUE]
                /\ writer' = [writer EXCEPT ![p].pc = "open"]
    /\ UNCHANGED <<approval, approved>>

(* add(): refused for a used id; the raw bytes first (when there are any) *)
AddRaw(p, id) ==
    /\ writer[p].pc = "open"
    /\ id \notin writer[p].used
    /\ IF IsQuarantine(p)
       THEN writer[p].entries = {} /\ id = QuarId(writer[p].record.rev)
       ELSE id \in Ids
    /\ id \notin dirs[writer[p].num].raw
    /\ dirs' = [dirs EXCEPT ![writer[p].num].raw = @ \cup {id}]
    /\ writer' = [writer EXCEPT ![p].pc = "raw", ![p].item = id]
    /\ UNCHANGED <<approval, approved>>

(* ... then the envelope *)
AddEnvelope(p) ==
    /\ writer[p].pc = "raw"
    /\ LET id == writer[p].item
       IN  /\ dirs' = [dirs EXCEPT ![writer[p].num].env = @ \cup {id}]
           /\ writer' = [writer EXCEPT ![p].pc = "open",
                                       ![p].item = NoItem,
                                       ![p].used = @ \cup {id},
                                       ![p].entries = @ \cup {id}]
    /\ UNCHANGED <<approval, approved>>

(* add() of evidence that has no raw bytes; the file a failed add() left under *)
(* the same id is then not what the manifest will say of it                   *)
AddBare(p, id) ==
    LET r == writer[p].num IN
    /\ writer[p].pc = "open"
    /\ ~ IsQuarantine(p)
    /\ id \in Ids \ writer[p].used
    /\ dirs' = [dirs EXCEPT ![r] =
                  [@ EXCEPT !.env = dirs[r].env \cup {id},
                            !.bad = dirs[r].bad \cup (dirs[r].raw \cap {id})]]
    /\ writer' = [writer EXCEPT ![p].used = @ \cup {id},
                                ![p].entries = @ \cup {id}]
    /\ UNCHANGED <<approval, approved>>

(* add() raises between the two writes and its caller goes on *)
AddFails(p) ==
    /\ writer[p].pc = "raw"
    /\ ~ IsQuarantine(p)
    /\ writer' = [writer EXCEPT ![p].pc = "open", ![p].item = NoItem]
    /\ UNCHANGED <<dirs, approval, approved>>

\* Faulty variant: seal() accepts a revision without evidence.
WriteTmp_Empty(p) ==
    /\ writer[p].pc = "open"
    /\ ~ dirs[writer[p].num].tmp
    /\ dirs' = [dirs EXCEPT ![writer[p].num].tmp = TRUE]
    /\ writer' = [writer EXCEPT ![p].pc = "tmp"]
    /\ UNCHANGED <<approval, approved>>

(* seal(): MANIFEST.json.tmp, link it to MANIFEST.json, unlink it *)
WriteTmp(p) ==
    /\ writer[p].pc = "open"
    /\ writer[p].entries # {}
    /\ ~ dirs[writer[p].num].tmp
    /\ dirs' = [dirs EXCEPT ![writer[p].num].tmp = TRUE]
    /\ writer' = [writer EXCEPT ![p].pc = "tmp"]
    /\ UNCHANGED <<approval, approved>>

LinkManifest(p) ==
    /\ writer[p].pc = "tmp"
    /\ ~ dirs[writer[p].num].man
    /\ dirs' = [dirs EXCEPT ![writer[p].num] =
                  [@ EXCEPT !.man = TRUE,
                            !.listed = writer[p].entries,
                            !.link = writer[p].link,
                            !.record = writer[p].record]]
    /\ writer' = [writer EXCEPT ![p].pc = "linked"]
    /\ UNCHANGED <<approval, approved>>

UnlinkTmp(p) ==
    /\ writer[p].pc = "linked"
    /\ dirs' = [dirs EXCEPT ![writer[p].num].tmp = FALSE]
    /\ writer' = [writer EXCEPT ![p] = IdleWriter]
    /\ UNCHANGED <<approval, approved>>

(* A Human reads a diagnostic and approves a quarantine of the latest *)
Approve ==
    /\ LatestBroken
    /\ CarefulHuman => ~ LiveIn(Count)
    /\ approval' = [rev |-> Count, diagnosis |-> Diagnosis]
    /\ approval' # approval
    /\ approved' = approved \cup {<<Count, Snapshot(Count)>>}
    /\ Cardinality(approved') <= MaxApprovals
    /\ UNCHANGED <<dirs, writer>>

\* Faulty variant: the quarantine skips a number.
QuarantineVerify_Skip(p) ==
    /\ writer[p].pc = "idle"
    /\ approval # NoApproval
    /\ LatestBroken
    /\ Count < MaxRevisions
    /\ writer' = [writer EXCEPT ![p] =
          [IdleWriter EXCEPT
             !.pc = "diagnose",
             !.num = Count + 2,
             !.link = StateLink(Count, Snapshot(Count)),
             !.used = UsedIds,
             !.record = [rev |-> Count, state |-> Snapshot(Count)]]]
    /\ UNCHANGED <<dirs, approval, approved>>

(* quarantine_latest(): the first verify() *)
QuarantineVerify(p) ==
    /\ writer[p].pc = "idle"
    /\ approval # NoApproval
    /\ LatestBroken
    /\ writer' = [writer EXCEPT ![p] =
          [IdleWriter EXCEPT
             !.pc = "diagnose",
             !.num = Count + 1,
             !.link = StateLink(Count, Snapshot(Count)),
             !.used = UsedIds,
             !.record = [rev |-> Count, state |-> Snapshot(Count)]]]
    /\ UNCHANGED <<dirs, approval, approved>>

\* Faulty variant: the approved state digest is not compared.
Matches_NoState(p) == /\ approval.rev = writer[p].record.rev
                      /\ approval.diagnosis = Diagnosis

\* Faulty variant: the approval is compared with the new revision's number.
Matches_OffByOne(p) == /\ approval.rev = writer[p].num
                       /\ approval.diagnosis = Diagnosis

(* ... the second one inside diagnose(), and the approval's digests *)
Matches(p) == /\ approval.rev = writer[p].record.rev
              /\ approval.diagnosis[approval.rev] = writer[p].record.state
              /\ approval.diagnosis = Diagnosis

QuarantineDiagnose(p) ==
    /\ writer[p].pc = "diagnose"
    /\ writer' = [writer EXCEPT ![p] = IF Matches(p)
                                       THEN [@ EXCEPT !.pc = "mkdir"]
                                       ELSE IdleWriter]
    /\ UNCHANGED <<dirs, approval, approved>>

(* A process stops, or seal() raises: the RevisionWriter is lost (no caller *)
(* goes on with it), its files stay                                        *)
Crash(p) ==
    /\ writer[p].pc # "idle"
    /\ IsQuarantine(p) => QuarantineMayCrash
    /\ writer' = [writer EXCEPT ![p] = IdleWriter]
    /\ UNCHANGED <<dirs, approval, approved>>

(* Somebody changes the bytes of one raw file of a sealed revision *)
Damage(r, id) ==
    /\ DamageAllowed
    /\ \A s \in Revisions : dirs[s].bad = {}
    /\ dirs[r].man /\ id \in dirs[r].raw
    /\ dirs' = [dirs EXCEPT ![r].bad = {id}]
    /\ UNCHANGED <<writer, approval, approved>>

Write(p) == \/ BeginRevision(p)
            \/ Mkdir(p)
            \/ \E id \in Evidence : AddRaw(p, id)
            \/ AddEnvelope(p)
            \/ \E id \in Ids : AddBare(p, id)
            \/ AddFails(p)
            \/ WriteTmp(p)
            \/ LinkManifest(p)
            \/ UnlinkTmp(p)

Quarantine(p) == QuarantineVerify(p) \/ QuarantineDiagnose(p)

Next == \/ \E p \in Writers : Write(p) \/ Quarantine(p) \/ Crash(p)
        \/ Approve
        \/ \E r \in Revisions, id \in Evidence : Damage(r, id)

Spec == Init /\ [][Next]_vars

(* A process inside a call goes on or stops; somebody calls                *)
(* quarantine_latest with the approval the Human gave, and the Human does  *)
(* decide.  Nobody is obliged to begin a revision.                         *)
Continue(p) == \/ Write(p) /\ writer[p].pc # "idle"
               \/ QuarantineDiagnose(p)
               \/ Crash(p)

Fairness == /\ \A p \in Writers : /\ WF_vars(Continue(p))
                                  /\ WF_vars(QuarantineVerify(p))
            /\ WF_vars(Approve)

FairSpec == Spec /\ Fairness

-----------------------------------------------------------------------------
(* Types of the store's files, the writers and the approvals; only a       *)
(* quarantine can reach a revision number beyond MAX_REVISIONS.            *)
TypeOK == /\ dirs \in [Revisions -> Dirs]
          /\ writer \in [Writers -> WriterStates]
          /\ approval \in Approvals
          /\ approved \subseteq Listed \X Snapshots
          /\ \A p \in Writers : writer[p].num = Stray => IsQuarantine(p)

(* A revision directory belongs to one RevisionWriter: no two processes    *)
(* ever write into the same one, whatever they saw when they verified.     *)
OneWriterPerRevision ==
    \A p, q \in Writers :
        Live(p) /\ Live(q) /\ writer[p].num = writer[q].num => p = q

(* Numbers are taken without a gap, so begin_revision's len() + 1 is free  *)
(* unless somebody was faster, and the name no verification lists appears  *)
(* only when every listed name is taken.                                   *)
NoRevisionGap == /\ Present = 1..Count
                 /\ dirs[Stray].made => Count = MaxRevisions

(* What a manifest seals is final: no later step of any process changes    *)
(* the manifest or the files beside it (from outside, Damage may).         *)
SealedIsFinal ==
    [][\A r \in Revisions : dirs[r].man =>
          dirs'[r] = [dirs[r] EXCEPT !.tmp = dirs'[r].tmp,
                                     !.bad = dirs'[r].bad]]_vars

(* A store that verifies holds no revision somebody is still writing, or   *)
(* died writing, except one that was quarantined in exactly that state.    *)
UnfinishedIsNeverTrusted ==
    Valid => \A r \in Revisions : dirs[r].made /\ (~ dirs[r].man \/ LiveIn(r))
                                  => Status(r) = "QUARANTINED"

(* No evidence id is ever sealed twice: the ids a writer was told are used *)
(* when its revision began stay the right ones until it seals.             *)
NoIdSealedTwice ==
    \A r, s \in Revisions : r # s /\ dirs[r].man /\ dirs[s].man
                             => dirs[r].listed \cap dirs[s].listed = {}

(* A quarantine record on disk names a state some Human approved, although *)
(* quarantine_latest reads the store twice and writes later.               *)
QuarantineWasApproved ==
    \A r \in Revisions : dirs[r].man /\ dirs[r].record # NoRecord =>
        <<dirs[r].record.rev, dirs[r].record.state>> \in approved

(* "A quarantined revision stays on disk, its evidence is unusable": once  *)
(* a quarantine of a revision is sealed, a store that verifies never again *)
(* treats that revision as VALID.                                          *)
QuarantineIsFinal ==
    Valid => \A r \in Present : dirs[r].man /\ dirs[r].record # NoRecord
                                 => Status(dirs[r].record.rev) # "VALID"

(* ... and a broken store does come back: the store verifies again, unless *)
(* the quarantine needed a revision number beyond MAX_REVISIONS.           *)
BrokenIsRecovered == ~ Valid ~> Valid \/ dirs[Stray].made

(* The store is the write-once log of EvidenceLog: a number is claimed by  *)
(* mkdir and its contents become final when the manifest is linked.        *)
Log == INSTANCE EvidenceLog WITH
          NoRevision <- {NoItem},
          claimed <- {r \in Revisions : dirs[r].made},
          sealed <- [r \in Revisions |->
                        IF dirs[r].man THEN dirs[r].listed ELSE {NoItem}]

ImplementsLog == Log!LogSpec
=============================================================================
