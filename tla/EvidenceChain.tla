----------------------------- MODULE EvidenceChain -----------------------------
(***************************************************************************)
(* The Chain Validator (iacreview/chain/validator.py, links.py,            *)
(* manifest.py): a manifest names the subject commits, the contract, the   *)
(* review report, the verification report, the gate records and the        *)
(* evidence; six checks re-read each artifact, one after the other, and    *)
(* the worst reason code is the verdict.  Anything outside git may be      *)
(* replaced between two checks.  The gate's evidence comes from the pull   *)
(* request of PullRequest and its verdict from HumanGate.                  *)
(***************************************************************************)
EXTENDS PullRequest

CONSTANTS MaxChanges,     \* bound: replacements while the validator runs
          ChainReviews    \* bound: a chain is validated only with so few reviews

ASSUME ChainAssumption == Nothing \notin {"named", "other"} /\ MaxChanges \in Nat

VARIABLES
  step,      \* 0 before there is a manifest, 1 to load the report, then the checks
  manifest,  \* what the manifest says; Nothing before there is one
  world,     \* the artifacts as they are now
  changes,   \* replacements so far
  report,    \* Context.report: the verification report that passed its shape check
  results,   \* results[link]: its reason codes and whether it is present
  read       \* history: what each link found when it read its artifacts

chainVars == <<step, manifest, world, changes, report, results, read>>
vars      == <<prVars, chainVars>>

(* ------------------------- artifacts and manifests --------------------- *)

\* A file below the chain root: the bytes the manifest names, other bytes of the
\* same format, bytes of no format, or nothing read_below returns.
FileStates == {"named", "other", "malformed", "missing", "unreadable"}

\* The evidence store: the named revision, a valid revision with that name and
\* another MANIFEST, a revision whose bytes do not verify under the named MANIFEST,
\* no such store.  (A damaged MANIFEST has one code more, store_manifest_mismatch.)
StoreStates == {"named", "replaced", "damaged", "missing"}

HonestWorld ==
  [repo |-> "there", ancestry |-> "linear", blob |-> "named", review |-> "named",
   verification |-> "named", store |-> "named", recompute |-> "same"]

\* What the manifest says and what the bytes it names say.
HonestContents ==
  [optional |-> TRUE, errors |-> FALSE, tools |-> TRUE, findings |-> "named",
   subject |-> "same", trust |-> "same", payload |-> "same", shape |-> "valid",
   repository |-> "same"]

\* What may be wrong when the manifest is written: one field of one of them.
WorldFaults ==
  ({"repo"} \X {"gone"})
  \cup ({"ancestry"} \X {"base_aside", "config_aside", "base_unknown", "config_unknown"})
  \cup ({"blob"} \X {"other", "missing"})
  \cup ({"recompute"} \X {"different", "tool", "internal_error"})
  \cup ({"review", "verification"} \X (FileStates \ {"named"}))
  \cup ({"store"} \X (StoreStates \ {"named"}))

ContentFaults ==
  {<<"errors", TRUE>>, <<"tools", FALSE>>, <<"optional", FALSE>>, <<"repository", "other">>,
   <<"subject", "other">>, <<"trust", "other">>, <<"payload", "other">>}
  \cup ({"findings"} \X {"absent", "content", "identity"})
  \cup ({"shape"} \X {"invalid", "metadata"})

ListingFaults ==
  {<<"revision", FALSE>>, <<"reads", FALSE>>, <<"twin", TRUE>>, <<"decodes", FALSE>>,
   <<"integrity", "V5">>, <<"integrity", "OTHER">>, <<"pull", FALSE>>,
   <<"pages", {}>>, <<"pages", {1}>>, <<"indexes", <<1, 1>> >>}

With(rec, fault) == [rec EXCEPT ![fault[1]] = fault[2]]

\* The entries an honest author presents: one per record the capture gives.
Entries(records) ==
  LET order == SetToSeq(records)
  IN [i \in DOMAIN order |-> [kind |-> order[i].kind, file |-> "read", record |-> order[i]]]

\* One thing wrong with one presented entry.
TamperedEntries(e) ==
  {[e EXCEPT !.file = f] : f \in RecordFiles \ {"read"}}
  \cup {[e EXCEPT !.kind = k] : k \in KINDS \ {e.kind}}
  \cup {[e EXCEPT !.record.commit = c] : c \in Range(Commits) \ {e.record.commit}}
  \cup {[e EXCEPT !.record.source = s] : s \in {"unlisted", "altered"}}
  \cup {[e EXCEPT !.record.item = "elsewhere"]}

Tampered(entries) ==
  (UNION {{[entries EXCEPT ![i] = t] : t \in TamperedEntries(entries[i])}
          \cup {RemoveAt(entries, i), Append(entries, entries[i])} : i \in DOMAIN entries})
  \cup {<<>>, Append(entries, [kind |-> "candidate_review", file |-> "self_declaration",
                               record |-> ContractRecord])}

(* ------------------------------ link checks ---------------------------- *)

Result(present, codes) == [present |-> present, codes |-> codes]

\* load_report: the codes, and whether ctx.report is set.
ReportCodes ==
  CASE world.verification = "missing"    -> {"verification_artifact_missing"}
    [] world.verification = "unreadable" -> {"report_invalid"}
    [] world.verification = "malformed"  -> {"verification_digest_mismatch", "report_invalid"}
    [] OTHER ->
         (IF world.verification = "other" THEN {"verification_digest_mismatch"} ELSE {})
         \cup (CASE manifest.shape = "invalid"  -> {"report_invalid"}
                 [] manifest.shape = "metadata" -> {"metadata_digest_mismatch"}
                 [] OTHER                       -> {})

ReportLoaded ==
  world.verification \in {"named", "other"} /\ manifest.shape = "valid"

\* What a loaded report says: the bytes the manifest names say what their author
\* wrote, other bytes of the format say something else.
ReportAgrees(field) == report = "named" /\ manifest[field] = "same"

check_subject ==
  CASE world.repo = "gone"               -> {"link_check_error"}
    [] world.ancestry = "base_unknown"   -> {"revision_not_found"}
    [] OTHER -> (IF world.ancestry = "base_aside" THEN {"base_not_ancestor_of_head"} ELSE {})
                \cup (IF report # Nothing /\ ~ReportAgrees("subject")
                      THEN {"subject_mismatch"} ELSE {})

check_contract ==
  CASE world.repo = "gone" \/ world.ancestry = "base_unknown" -> {"link_check_error"}
    [] world.ancestry = "config_unknown"   -> {"revision_not_found"}
    [] OTHER ->
         (IF world.ancestry = "config_aside" THEN {"config_not_ancestor_of_base"} ELSE {})
         \cup (IF world.blob = "missing" THEN {"contract_blob_missing"}
               ELSE (IF world.blob = "other" THEN {"contract_digest_mismatch"} ELSE {})
                    \cup (IF report # Nothing /\ ~(ReportAgrees("trust") /\ world.blob = "named")
                          THEN {"contract_mismatch_with_report"} ELSE {}))

\* review_evidence_complete and the referenced findings, on the bytes read.
review_contents ==
  (IF manifest.errors THEN {"review_report_has_errors"} ELSE {})
  \cup (IF ~manifest.tools THEN {"review_tool_unavailable"} ELSE {})
  \cup (CASE manifest.findings = "absent"   -> {"finding_missing"}
          [] manifest.findings = "content"  -> {"finding_digest_mismatch"}
          [] manifest.findings = "identity" -> {"finding_digest_mismatch", "identity_key_mismatch"}
          [] OTHER                          -> {})

check_review ==
  CASE world.review = "missing"    -> {"review_artifact_missing"}
    [] world.review = "unreadable" -> {"review_report_invalid"}
    [] world.review = "malformed"  -> {"review_digest_mismatch", "review_report_invalid"}
    [] world.review = "other"      -> {"review_digest_mismatch"} \cup review_contents
    [] OTHER                       -> review_contents

\* recompute: no tool runs when the commits cannot be bound, and another contract
\* gives another payload.
recompute ==
  CASE world.ancestry # "linear" \/ world.blob = "missing" -> "tool"
    [] world.blob = "other" -> "different"
    [] OTHER                -> world.recompute

\* The digest of the payload, the subject of the report, the recomputation.
check_verification ==
  IF report = Nothing THEN {}
  ELSE (IF ReportAgrees("payload") THEN {} ELSE {"payload_digest_mismatch"})
       \cup (IF ReportAgrees("subject") THEN {} ELSE {"report_subject_mismatch"})
       \cup (IF world.repo = "gone" \/ recompute \in {"tool", "internal_error"}
             THEN {"recompute_unavailable"}
             ELSE IF recompute = "same" /\ report = "named" THEN {}
             ELSE {"payload_digest_mismatch"})

\* The store as the gate and the github link find it.  A replaced revision gives
\* other raw bytes, so every record that cites it differs from its regeneration.
GateListing == IF world.store \in {"named", "replaced"} THEN manifest.listing
               ELSE [manifest.listing EXCEPT !.revision = FALSE]

Altered(rec) ==
  [kind |-> rec.kind, item |-> rec.item, decision |-> rec.decision, commit |-> rec.commit,
   relation |-> rec.relation, source |-> "altered"]

GateEntries ==
  IF world.store # "replaced" THEN manifest.entries
  ELSE [i \in DOMAIN manifest.entries |->
          LET e == manifest.entries[i] IN
          IF e.record.kind = "contract_approval" THEN e
          ELSE [kind |-> e.kind, file |-> e.file, record |-> Altered(e.record)]]

NamesEvidence == manifest.listing.pull \/ manifest.listing.pages # {}

GateCapture == IF NamesEvidence THEN capture
               ELSE [capture EXCEPT !.pull = Nothing, !.pages = <<>>]

check_gate ==
  IF manifest.entries = <<>> THEN {"gate_record_missing"}
  ELSE Codes(check(GateCapture, GateListing, GateEntries, manifest.head))

\* Faulty variant: a valid revision with the named id is enough.
check_github_any_manifest ==
  CASE world.store = "missing" -> {"evidence_id_missing"}
    [] world.store = "damaged" \/ ~manifest.listing.revision ->
         {"capture_incomplete", "integrity_not_pass"}
    [] OTHER -> (IF manifest.repository = "other" THEN {"repository_mismatch"} ELSE {})
                \cup {"capture_incomplete" :
                        p \in manifest.listing.pages \ (IF Captured THEN DOMAIN capture.pages ELSE {})}

check_github ==
  LET paged == manifest.listing.pages \in {{}, DOMAIN capture.pages}
      whole == capture.complete /\ Captured
  IN CASE world.store = "missing" -> {"evidence_id_missing"}
       [] world.store = "damaged" \/ ~manifest.listing.revision ->
            {"capture_incomplete", "integrity_not_pass"}
       [] OTHER ->
            (IF world.store = "replaced" THEN {"store_manifest_mismatch"} ELSE {})
            \cup (IF manifest.repository = "other" THEN {"repository_mismatch"} ELSE {})
            \cup (IF \/ ~paged \/ manifest.listing.integrity = "V5"
                     \/ manifest.listing.indexes # [i \in DOMAIN capture.pages |-> i]
                     \/ manifest.listing.pages # {} /\ ~whole
                  THEN {"capture_incomplete"} ELSE {})
            \cup (IF \/ manifest.listing.integrity = "OTHER" \/ ~manifest.listing.reads
                     \/ manifest.listing.pages # {} /\ ~whole
                  THEN {"integrity_not_pass"} ELSE {})

LinkCodes(link) ==
  CASE link = "subject"      -> check_subject
    [] link = "contract"     -> check_contract
    [] link = "review"       -> check_review
    [] link = "verification" -> results.verification.codes \cup check_verification
    [] link = "gate"         -> check_gate
    [] link = "github"       -> check_github

Present(link) ==
  CASE link = "review" -> manifest.optional
    [] link = "github" -> NamesEvidence
    [] OTHER           -> TRUE

(* -------------------------------- actions ------------------------------ *)

Order == <<"subject", "contract", "review", "verification", "gate", "github">>

Unread == [l \in LINKS |-> Nothing]

Unchecked == [l \in LINKS |-> Result(FALSE, {})]

ChainInit ==
  /\ PRInit
  /\ step = 0
  /\ manifest = Nothing
  /\ world = HonestWorld
  /\ changes = 0
  /\ report = Nothing
  /\ results = Unchecked
  /\ read = Unread

\* The author of the chain names the capture and a head and writes it all down.
WholeEntries == Entries(build(capture, WholeListing(capture)).records)

\* The gate's codes for an honest manifest about what was captured.
HonestGate(commit) ==
  UNION {check(capture, WholeListing(capture), entries, commit) : entries \in {WholeEntries}}

Manifest(commit, contents, listing, entries) ==
  [optional |-> contents.optional, errors |-> contents.errors, tools |-> contents.tools,
   findings |-> contents.findings, subject |-> contents.subject, trust |-> contents.trust,
   payload |-> contents.payload, shape |-> contents.shape, repository |-> contents.repository,
   head |-> commit, listing |-> listing, entries |-> entries]

HonestManifest(commit) ==
  Manifest(commit, HonestContents, WholeListing(capture), WholeEntries)

Write(m, w) ==
  /\ manifest' = m
  /\ world' = w
  /\ step' = 1
  /\ UNCHANGED <<prVars, changes, report, results, read>>

\* A manifest with one wrong field, artifacts that are not as named, or neither.
\* Bound: faults only where the honest manifest passes the gate.
WriteSome(commit) ==
  LET whole == WholeListing(capture) IN
  /\ step = 0 /\ CaptureEnded
  /\ Len(reviews) <= ChainReviews
  /\ \E entries \in {WholeEntries} :
       \/ Write(Manifest(commit, HonestContents, whole, entries), HonestWorld)
       \/ /\ HonestGate(commit) = {}
          /\ \/ \E f \in WorldFaults :
                  Write(Manifest(commit, HonestContents, whole, entries), With(HonestWorld, f))
             \/ \E f \in ContentFaults :
                  Write(Manifest(commit, With(HonestContents, f), whole, entries), HonestWorld)
             \/ \E f \in ListingFaults :
                  Write(Manifest(commit, HonestContents, With(whole, f), entries), HonestWorld)
             \/ \E others \in Tampered(entries) :
                  Write(Manifest(commit, HonestContents, whole, others), HonestWorld)

\* evaluate: the verification report is read before the first check.
LoadReport ==
  /\ step = 1
  /\ report' = IF ReportLoaded THEN world.verification ELSE Nothing
  /\ results' = [results EXCEPT !.verification = Result(TRUE, ReportCodes)]
  /\ read' = [read EXCEPT !.verification = world]
  /\ step' = 2
  /\ UNCHANGED <<prVars, manifest, world, changes>>

Check(i) ==
  /\ step = i + 1
  /\ LET link == Order[i] IN
       /\ results' = [results EXCEPT ![link] =
            Result(Present(link), IF Present(link) THEN LinkCodes(link) ELSE {})]
       /\ read' = [read EXCEPT ![link] = IF link = "verification" THEN @ ELSE world]
  /\ step' = i + 2
  /\ UNCHANGED <<prVars, manifest, world, changes, report>>

Validating == step \in 1..(Len(Order) + 1)

\* Somebody else replaces a file or the store while the checks run, or puts back
\* what was there.
Replace(artifact, state) ==
  /\ \A f \in DOMAIN world \ {artifact} : world[f] = HonestWorld[f]
  /\ world[artifact] # state
  /\ world' = [world EXCEPT ![artifact] = state]
  /\ changes' = changes + 1
  /\ UNCHANGED <<prVars, step, manifest, report, results, read>>

\* Bound: nothing else is wrong.
ReplaceSome ==
  /\ Validating
  /\ changes < MaxChanges
  /\ HonestGate(manifest.head) = {}
  /\ manifest = HonestManifest(manifest.head)
  /\ \/ \E a \in {"review", "verification"}, s \in FileStates : Replace(a, s)
     \/ \E s \in StoreStates : Replace("store", s)

ChainNext ==
  \/ PRNext /\ step = 0 /\ UNCHANGED chainVars
  \/ \E commit \in Range(Commits) : WriteSome(commit)
  \/ LoadReport
  \/ \E i \in 1..Len(Order) : Check(i)
  \/ ReplaceSome

Spec == ChainInit /\ [][ChainNext]_vars

(* --------------------------- verdict and properties -------------------- *)

Done == step = Len(Order) + 2

status(link) ==
  IF results[link].present THEN link_status(results[link].codes) ELSE "NOT_PRESENT"

chain_status == compose([l \in LINKS |-> status(l)])

TypeOK ==
  /\ step \in 0..(Len(Order) + 2)
  /\ head \in DOMAIN Commits /\ clock \in 0..MaxTime /\ happened \in 0..Len(reviews)
  /\ \A i \in DOMAIN reviews : reviews[i].state \in STATES \cup {"UNKNOWN"}
  /\ capture.pull \in Pulls /\ truth.inForce \cup truth.objections \subseteq DOMAIN reviews
  /\ DOMAIN world = DOMAIN HonestWorld /\ changes \in 0..MaxChanges
  /\ report \in {Nothing, "named", "other"}
  /\ \A l \in LINKS : /\ results[l].codes \subseteq REASONS
                      /\ status(l) \in LINK_STATUSES
  /\ chain_status \in CHAIN_STATUSES

\* A gate that is LINKED counted a real approval: an account other than the
\* author's had approved the chain's head; when its page was captured that approval
\* was not dismissed, until the last page it was not followed by that account's
\* request for changes, and then no account's request for changes stood -- in the
\* order things really happened, which neither the pages, the ids nor the time
\* stamps show.
Approved(commit) ==
  /\ capture.pull.head = commit
  /\ truth.objections = {}
  /\ \E i \in truth.inForce : /\ reviews[i].user \notin {Author, "deleted"}
                        /\ reviews[i].commit = commit

CountedApprovalWasInForce ==
  /\ CaptureEnded /\ step = 0 =>
       \A commit \in Range(Commits) : HonestGate(commit) = {} => Approved(commit)
  /\ results.gate = Result(TRUE, {}) => Approved(manifest.head)

\* A LINKED gate was shown exactly what the evidence gives: every regenerated
\* record, each in a file of its own kind, and nothing else, however the entries
\* that cannot be used are counted against the records that were left out.
Regenerated(listing, entries) ==
  /\ {entries[i].record : i \in DOMAIN entries} = build(capture, listing).records
  /\ \A i \in DOMAIN entries :
       entries[i].file = "read" /\ entries[i].kind = entries[i].record.kind

LinkedMeansRegenerated ==
  /\ results.gate = Result(TRUE, {}) => Regenerated(manifest.listing, manifest.entries)
  /\ CaptureEnded /\ step = 0 /\ Len(reviews) <= ChainReviews =>
       \A entries \in Tampered(WholeEntries), commit \in Range(Commits) :
         check(capture, WholeListing(capture), entries, commit) = {} =>
           Regenerated(WholeListing(capture), entries)

\* COMPLETE says that every link read what the manifest names, at the moment it
\* read it, and that the verification report is about this subject, under this
\* contract, with a result that was computed again.
CompleteIsWholeChain ==
  (Done /\ chain_status = "COMPLETE") =>
    /\ \A l \in LINKS : read[l].repo = "there" /\ read[l].ancestry = "linear"
    /\ read.contract.blob = "named"
    /\ read.review.review = "named"
    /\ read.verification.verification = "named"
    /\ read.gate.store = "named" /\ read.github.store = "named"
    /\ read.verification.recompute = "same"
    /\ \A f \in DOMAIN HonestContents : manifest[f] = HonestContents[f]
    /\ manifest.listing.revision /\ manifest.listing.integrity = "PASS"
    /\ capture.complete /\ Captured

\* An honest manifest about a whole capture, on artifacts nobody touched, is
\* BROKEN only if the pull request moved to another head or a review changed
\* between two pages of its capture: never because the evidence is inconclusive.
BrokenIsContradicted ==
  (/\ Done /\ chain_status = "BROKEN" /\ changes = 0 /\ world = HonestWorld
   /\ capture.complete /\ manifest = HonestManifest(manifest.head))
  => \/ capture.pull.head \notin {Nothing, manifest.head}
     \/ \E m, n \in DOMAIN capture.pages : \E x \in DOMAIN capture.pages[m].items,
          y \in DOMAIN capture.pages[n].items :
            /\ capture.pages[m].items[x].id = capture.pages[n].items[y].id
            /\ capture.pages[m].items[x] # capture.pages[n].items[y]
================================================================================
