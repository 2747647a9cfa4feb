------------------------- MODULE RemediationVerify -------------------------
(***************************************************************************)
(* One call of the bounded remediation verifier:                           *)
(* iacreview/remediation/verify.py run(), over gitsnap.py, boundary.py,    *)
(* checks.py and decide.py, while other processes move branches, write     *)
(* files of the working tree and run git add.                              *)
(*                                                                         *)
(* Commits and blobs never change: reading them is one step.  A branch is  *)
(* read when it is resolved.  The working tree is read file by file, three *)
(* times: for the first snapshot, for the bytes of the target Template,    *)
(* for the second snapshot after the checks.  Whatever happens between two *)
(* of those reads is an interleaving of the model.                         *)
(*                                                                         *)
(* A blob id is the content it names.  Tools are external: a run of one    *)
(* completes or ends in a fault.                                           *)
(***************************************************************************)
EXTENDS TemplateBoundary

CONSTANTS
    Commits,        \* commit ids
    NoCommit,       \* what a branch that does not exist resolves to
    Ancestors,      \* pairs <<a, d>>: merge-base --is-ancestor a d
    Tree,           \* Commits -> the tree: paths to entries
    Paths,          \* the paths of the repository, in listing order
    ContractPath,   \* --contract
    Contents,       \* file contents
    Doc,            \* the contents that parse as a Template, to the Template
    Scope,          \* the contents that are contracts bound to their profile,
                    \* to the contract: an EditScope and the Template's path
    Passes,         \* rule -> the leaves of the guarded property it passes on
    OutcomeRule, StatementRule,
    LintClean,      \* contents cfn-lint reports no Error on
    ToolFaults,     \* the ways a tool call can fail that are explored
    Starts,         \* the command lines, branches and working trees explored
    MoveTo,         \* where other processes move a branch to
    WriteEntries,   \* the files other processes write
    MaxEdits,       \* bound: changes of the working tree and the index
    MaxMoves,       \* bound: moves of a branch
    MaxFaults,      \* bound: tool runs of a call that do not complete
    None

FileMode == "100644"
RegularModes == {FileMode, "100755"}
Modes == RegularModes \cup {"120000"}
Revs == {"config", "base", "head"}
PathSet == {Paths[i] : i \in DOMAIN Paths}
FileEntry == [mode : Modes, oid : Contents]
Files == Mappings(PathSet, FileEntry)

\* verify.Request: --config-rev with --contract or --contract-file, and --head
\* or --worktree.
Request == [source : {"git_revision", "draft_file"}, draft : Contents,
            head : {"commit", "worktree"}]

\* The states of a check other than PASS and FAIL, and their codes.
FaultCode ==
    [TOOL_UNAVAILABLE |-> "tool_unavailable", VERSION_MISMATCH |-> "tool_version_mismatch",
     TIMEOUT |-> "tool_timeout", FAILED |-> "tool_failed",
     OUTPUT_INVALID |-> "tool_output_invalid", OUTPUT_TOO_LARGE |-> "tool_output_too_large",
     NOT_PASSED |-> "check_not_passed", NOT_RUN |-> "check_not_passed"]
CheckStates == {"PASS", "FAIL"} \cup DOMAIN FaultCode

ErrorCodes ==
    {"contract_invalid", "contract_not_found", "revision_not_found",
     "repository_unreadable"}
BlockedCodes ==
    {"file_added_outside_scope", "file_removed_outside_scope",
     "file_modified_outside_scope", "file_mode_changed",
     "target_template_removed", "target_not_regular_file",
     "template_change_outside_scope", "resource_added", "resource_removed",
     "resource_type_changed", "parent_replaced", "operation_not_allowed",
     "outcome_not_achieved", "invariant_violated", "check_failed"}
UnverifiedCodes ==
    {"contract_not_approved", "config_not_ancestor_of_base",
     "base_not_ancestor_of_head", "snapshot_changed", "comparison_incomplete",
     "template_not_comparable", "unsupported_construct",
     "invariant_failed_on_base", "target_resource_missing",
     "outcome_not_evaluated"} \cup {FaultCode[s] : s \in DOMAIN FaultCode}

Decisions == {"ERROR", "BLOCKED", "UNVERIFIED", "VERIFIED"}

\* decide.decision_of: the first of ERROR > BLOCKED > UNVERIFIED that is forced.
DecisionOf(codes) ==
    IF codes \cap ErrorCodes # {} THEN "ERROR"
    ELSE IF codes \cap BlockedCodes # {} THEN "BLOCKED"
    ELSE IF codes # {} THEN "UNVERIFIED" ELSE "VERIFIED"

\* mutant: the cap forgets BLOCKED
CapForDraftVerifiedOnly(verdict) == IF verdict = "VERIFIED" THEN "UNVERIFIED" ELSE verdict

CapForDraft(verdict) ==
    IF verdict \in {"VERIFIED", "BLOCKED"} THEN "UNVERIFIED" ELSE verdict

ASSUME RemediationAssumption ==
    /\ Paths \in Seq(PathSet)
    /\ Ancestors \subseteq Commits \X Commits
    /\ NoCommit \notin Commits
    /\ None \notin Commits
    /\ None \notin Contents
    /\ None \notin Decisions
    /\ Tree \in [Commits -> Files]
    /\ DOMAIN Doc \subseteq Contents
    /\ \A c \in DOMAIN Doc : IsTemplate(Doc[c])
    /\ DOMAIN Scope \subseteq Contents
    /\ \A c \in DOMAIN Scope :
        Scope[c] \in [resource : LogicalIds, edits : Mappings(Props, SUBSET Operations),
                     path : PathSet]
    /\ ContractPath \in PathSet
    /\ Starts \subseteq [request : Request, refs : [Revs -> Commits \cup {NoCommit}],
                         disk : Files, tracked : SUBSET PathSet]
    /\ MoveTo \subseteq Commits \cup {NoCommit}
    /\ WriteEntries \subseteq FileEntry
    /\ ToolFaults \subseteq DOMAIN FaultCode
    /\ MaxEdits \in Nat
    /\ MaxMoves \in Nat
    /\ MaxFaults \in Nat

\* cfn-guard finds no statement with the Sid in Policies that are not a list.
ASSUME RulesAssumption ==
    \A leaf \in Passes[StatementRule] \cap Leaves : StatementsOf[leaf] # Unreadable

VARIABLES
    refs,       \* the branches: --config-rev, --base, --head (HEAD for --worktree)
    disk,       \* the working tree
    tracked,    \* the paths in the index
    edits,      \* changes other processes made to disk and tracked
    moves,      \* branch moves other processes made
    touched,    \* history: the paths whose file was changed
    request,
    at,         \* where run() is
    stage,      \* Result.stage_reached
    contract, configCommit, baseCommit, headCommit,
    headSnap,   \* the first snapshot of Head
    todo, got,  \* the snapshot in the making: paths to hash, entries hashed
    raw,        \* Result.head.raw: the bytes of the target on Head
    states,     \* the states of the checks: cfn-lint, each rule of cfn-guard on
                \* either side, and the invariant outside-allowed-edits-unchanged
    codes,      \* Result.findings
    decision

env == <<refs, disk, tracked, edits, moves, touched>>
bound == <<contract, configCommit, baseCommit, headCommit>>
vars == <<env, request, at, stage, bound, headSnap, todo, got, raw, states, codes, decision>>

Worktree == request.head = "worktree"
Approved == request.source = "git_revision"
BaseSnap == Tree[baseCommit]
Target == contract.path
Rules == {OutcomeRule, StatementRule}
NotRun == [r \in Rules |-> "NOT_RUN"]
NoChecks == [lint |-> "NOT_RUN", guardBase |-> NotRun, guardHead |-> NotRun,
             boundary |-> "NOT_EVALUATED"]

Init ==
    /\ \E s \in Starts :
          /\ request = s.request
          /\ refs = s.refs
          /\ disk = s.disk
          /\ tracked = s.tracked
    /\ edits = 0
    /\ moves = 0
    /\ touched = {}
    /\ at = "load"
    /\ stage = "start"
    /\ contract = None
    /\ configCommit = None
    /\ baseCommit = None
    /\ headCommit = None
    /\ headSnap = <<>>
    /\ todo = {}
    /\ got = <<>>
    /\ raw = None
    /\ states = NoChecks
    /\ codes = {}
    /\ decision = None

-----------------------------------------------------------------------------
\* The end of run(): every path out of the pipeline computes the decision.

Conclude(found) ==
    /\ at' = "done"
    /\ LET all == codes \cup found
           forced == DecisionOf(all)
       IN  IF Approved \/ forced = "ERROR"
           THEN codes' = all /\ decision' = forced
           ELSE codes' = all \cup {"contract_not_approved"}
                /\ decision' = CapForDraft(DecisionOf(codes'))

Continue(label, found) ==
    /\ at' = label
    /\ codes' = codes \cup found
    /\ UNCHANGED decision

-----------------------------------------------------------------------------
\* _load_contract

\* The contract bytes: the draft on disk, or the blob at ContractPath of the
\* commit --config-rev resolves to now.
ContractBytes ==
    IF ~ Approved THEN {request.draft}
    ELSE {Tree[c][ContractPath].oid :
             c \in {d \in {refs["config"]} \ {NoCommit} :
                       /\ ContractPath \in DOMAIN Tree[d]
                       /\ Tree[d][ContractPath].mode = FileMode}}

LoadContract ==
    /\ at = "load"
    /\ IF Approved /\ refs["config"] = NoCommit
       THEN /\ Conclude({"revision_not_found"})
            /\ UNCHANGED <<stage, contract, configCommit>>
       ELSE /\ configCommit' = IF Approved THEN refs["config"] ELSE None
            /\ \/ /\ ContractBytes = {}
                  /\ Conclude({"contract_not_found"})
                  /\ UNCHANGED <<stage, contract>>
               \/ \E bytes \in ContractBytes \ DOMAIN Scope :
                  /\ Conclude({"contract_invalid"})
                  /\ UNCHANGED <<stage, contract>>
               \/ \E bytes \in ContractBytes \cap DOMAIN Scope :
                  /\ contract' = Scope[bytes]
                  /\ stage' = "contract_loaded"
                  /\ Continue("base", {})
    /\ UNCHANGED <<env, request, baseCommit, headCommit, headSnap, todo, got, raw, states>>

-----------------------------------------------------------------------------
\* _bind

ResolveBase ==
    /\ at = "base"
    /\ IF refs["base"] = NoCommit
       THEN Conclude({"revision_not_found"}) /\ UNCHANGED baseCommit
       ELSE Continue("head", {}) /\ baseCommit' = refs["base"]
    /\ UNCHANGED <<env, request, stage, contract, configCommit, headCommit,
                   headSnap, todo, got, raw, states>>

TrustCodes(config, base, head) ==
    {c \in {"config_not_ancestor_of_base"} : config # None /\ <<config, base>> \notin Ancestors}
    \cup {c \in {"base_not_ancestor_of_head"} : <<base, head>> \notin Ancestors}

ResolveHead ==
    /\ at = "head"
    /\ LET head == refs["head"]
           distrust == TrustCodes(configCommit, baseCommit, head)
       IN  \/ /\ head = NoCommit
              /\ Conclude({"revision_not_found"})
              /\ UNCHANGED <<stage, headCommit, headSnap>>
           \/ /\ head # NoCommit
              /\ headCommit' = head
              /\ IF distrust # {}
                 THEN Conclude(distrust) /\ UNCHANGED <<stage, headSnap>>
                 ELSE /\ stage' = "trust_established"
                      /\ IF Worktree
                         THEN Continue("list", {}) /\ UNCHANGED headSnap
                         ELSE Continue("compare", {}) /\ headSnap' = Tree[head]
    /\ UNCHANGED <<env, request, contract, configCommit, baseCommit, todo, got, raw, states>>

-----------------------------------------------------------------------------
\* gitsnap.worktree_snapshot, run twice: "list" lists the index, "others" the
\* files that are not in the index, "hash" and "hash others" read them.  The
\* second snapshot is told by stage: the checks have been run, or skipped.

\* The path of S that a listing names first.
First(S) ==
    LET places == {i \in DOMAIN Paths : Paths[i] \in S}
    IN  Paths[CHOOSE i \in places : \A j \in places : i <= j]

Rehash == stage \in {"boundary_checked", "checks_run"}

ListIndex ==
    /\ at = "list"
    /\ todo' = tracked
    /\ got' = <<>>
    /\ Continue("hash", {})
    /\ UNCHANGED <<env, request, stage, bound, headSnap, raw, states>>

\* _hash_worktree_file: a path with no file is left out.
HashNext ==
    /\ at \in {"hash", "hash others"}
    /\ todo # {}
    /\ todo' = todo \ {First(todo)}
    /\ LET read == DOMAIN disk \cap {First(todo)}
       IN  got' = [p \in DOMAIN got \cup read |-> IF p \in read THEN disk[p] ELSE got[p]]
    /\ UNCHANGED <<env, request, at, stage, bound, headSnap, raw, states, codes, decision>>

\* The file is written while it is read: its size is not the size of fstat.
TornRead ==
    /\ at \in {"hash", "hash others"}
    /\ todo # {}
    /\ edits < MaxEdits
    /\ edits' = edits + 1
    /\ touched' = touched \cup {First(todo)}
    /\ Conclude({"snapshot_changed"})
    /\ UNCHANGED <<refs, disk, tracked, moves, request, stage, bound, headSnap,
                   todo, got, raw, states>>

ListOthers ==
    /\ at = "hash"
    /\ todo = {}
    /\ todo' = DOMAIN disk \ tracked
    /\ Continue("hash others", {})
    /\ UNCHANGED <<env, request, stage, bound, headSnap, got, raw, states>>

\* mutant: the second snapshot is not compared with the first
SnapshotDoneUnchecked ==
    /\ at = "hash others"
    /\ todo = {}
    /\ IF Rehash THEN Conclude({}) /\ UNCHANGED headSnap
       ELSE Continue("compare", {}) /\ headSnap' = got
    /\ UNCHANGED <<env, request, stage, bound, todo, got, raw, states>>

SnapshotDone ==
    /\ at = "hash others"
    /\ todo = {}
    /\ IF Rehash
       THEN Conclude({c \in {"snapshot_changed"} : got # headSnap}) /\ UNCHANGED headSnap
       ELSE Continue("compare", {}) /\ headSnap' = got
    /\ UNCHANGED <<env, request, stage, bound, todo, got, raw, states>>

-----------------------------------------------------------------------------
\* boundary.repository

\* mutant: only the paths of Base are compared
OutsideCodesOfBase(b, h, target) ==
    LET paths == DOMAIN b \ {target}
    IN  {c \in {"file_removed_outside_scope"} : \E p \in paths : p \notin DOMAIN h}
        \cup {c \in {"file_mode_changed"} :
                \E p \in paths \cap DOMAIN h : b[p].mode # h[p].mode}
        \cup {c \in {"file_modified_outside_scope"} :
                \E p \in paths \cap DOMAIN h :
                    b[p].mode = h[p].mode /\ b[p].oid # h[p].oid}

OutsideCodes(b, h, target) ==
    LET paths == Keys(b, h) \ {target}
    IN  {c \in {"file_added_outside_scope"} : \E p \in paths : p \notin DOMAIN b}
        \cup {c \in {"file_removed_outside_scope"} : \E p \in paths : p \notin DOMAIN h}
        \cup {c \in {"file_mode_changed"} :
                \E p \in paths \cap DOMAIN b \cap DOMAIN h : b[p].mode # h[p].mode}
        \cup {c \in {"file_modified_outside_scope"} :
                \E p \in paths \cap DOMAIN b \cap DOMAIN h :
                    b[p].mode = h[p].mode /\ b[p].oid # h[p].oid}

Regular(files, p) == p \in DOMAIN files /\ files[p].mode \in RegularModes

TargetFileCodes(b, h, target) ==
    {c \in {"target_not_regular_file"} :
        ~ Regular(b, target) \/ (target \in DOMAIN h /\ ~ Regular(h, target))}
    \cup {c \in {"target_template_removed"} : target \notin DOMAIN h}
    \cup {c \in {"file_mode_changed"} :
            Regular(h, target) /\ target \in DOMAIN b /\ b[target].mode # h[target].mode}

RepositoryCodes(b, h, target) == OutsideCodes(b, h, target) \cup TargetFileCodes(b, h, target)

\* _read_target of a commit: the content when it is a regular file.
TargetBytes(files) == {files[p].oid : p \in {q \in {Target} : Regular(files, q)}}

\* The Templates both sides parse to.
Parsed(bytes) == {Doc[c] : c \in bytes \cap DOMAIN Doc}

Unparsed(bytes) == {c \in {"template_not_comparable"} : bytes \ DOMAIN Doc # {}}

\* The boundary of both levels, once the target's bytes are known on Head.  Left
\* out: a diff of more entries than its limit, which is not comparable either.
CompareWith(headBytes, found) ==
    LET baseBytes == TargetBytes(BaseSnap)
        template == UNION {TemplateCodes(contract, b, h) :
                              b \in Parsed(baseBytes), h \in Parsed(headBytes)}
    IN  /\ raw' = IF headBytes = {} THEN None ELSE CHOOSE c \in headBytes : TRUE
        /\ stage' = "boundary_checked"
        /\ Continue("check", RepositoryCodes(BaseSnap, headSnap, Target)
                             \cup Unparsed(baseBytes \cup headBytes) \cup template \cup found)

\* The working tree's target is read again; it must still be the snapshot's.
CompareWorktree ==
    IF ~ Regular(headSnap, Target) THEN CompareWith({}, {})
    ELSE IF ~ Regular(disk, Target)
    THEN /\ Conclude(RepositoryCodes(BaseSnap, headSnap, Target)
                     \cup Unparsed(TargetBytes(BaseSnap)) \cup {"repository_unreadable"})
         /\ UNCHANGED <<stage, raw>>
    ELSE IF disk[Target].oid # headSnap[Target].oid
    THEN CompareWith({}, {"snapshot_changed"})
    ELSE CompareWith({disk[Target].oid}, {})

Compare ==
    /\ at = "compare"
    /\ IF Worktree THEN CompareWorktree ELSE CompareWith(TargetBytes(headSnap), {})
    /\ UNCHANGED <<env, request, bound, headSnap, todo, got, states>>

-----------------------------------------------------------------------------
\* _checks

\* What cfn-guard says of a rule on the projection of a Template: an absent
\* Resource or property fails it.
Verdict(rule, t) ==
    IF GuardedLeaf(contract, t) \cap Passes[rule] # {} THEN "PASS" ELSE "FAIL"

\* run_guard on one side, completed: some rules may have been skipped.  A fault
\* is the state of every rule.
GuardRun(ts, skipped) ==
    IF ts = {} THEN NotRun
    ELSE [r \in Rules |-> IF r \in skipped THEN "NOT_PASSED"
                          ELSE Verdict(r, CHOOSE t \in ts : TRUE)]

GuardFaults(ts) ==
    IF ts = {} THEN {}
    ELSE {[r \in Rules |-> f] : f \in ToolFaults}
         \cup {GuardRun(ts, skipped) :
                  skipped \in {s \in SUBSET Rules : s # {} /\ "NOT_PASSED" \in ToolFaults}}

\* run_cfn_lint on Head's bytes, completed, and its faults.
LintRun(ts) == IF ts = {} THEN "NOT_RUN" ELSE IF raw \in LintClean THEN "PASS" ELSE "FAIL"
LintFaults(ts) == IF ts = {} THEN {} ELSE ToolFaults \ {"NOT_PASSED"}

\* The states of the three runs, at most MaxFaults of them faults.
CheckRuns(t, hs) ==
    {run \in [lint : {LintRun(hs)} \cup LintFaults(hs),
              guardBase : {GuardRun({t}, {})} \cup GuardFaults({t}),
              guardHead : {GuardRun(hs, {})} \cup GuardFaults(hs)] :
        Cardinality({x \in {"lint"} : run.lint \in LintFaults(hs)}
                    \cup {x \in {"base"} : run.guardBase \in GuardFaults({t})}
                    \cup {x \in {"head"} : run.guardHead \in GuardFaults(hs)}) <= MaxFaults}

FaultsOf(S) == {FaultCode[s] : s \in S \cap DOMAIN FaultCode}

OutcomeCodes(b, h) ==
    IF h = "FAIL" THEN {"outcome_not_achieved"}
    ELSE {c \in {"outcome_not_evaluated"} : h # "PASS" \/ b \notin {"PASS", "FAIL"}}

\* The statement invariant: the rule, and the statement equal on both sides.
StatementOnBase(state, t) ==
    IF /\ state = "PASS"
       /\ Statements(contract, t) # Unreadable
       /\ Len(Statements(contract, t)) # 1
    THEN "FAIL" ELSE state

\* mutant: the statement has to be there, not to be the same
StatementOnHeadPresent(state, t, hs) ==
    IF state = "PASS" /\ \E h \in hs : Statements(contract, h) = Unreadable
    THEN "FAIL" ELSE state

StatementOnHead(state, t, hs) ==
    IF state = "PASS" /\ \E h \in hs : \/ Statements(contract, h) = Unreadable
                                       \/ Statements(contract, h) # Statements(contract, t)
    THEN "FAIL" ELSE state

StatementCodes(b, h) ==
    IF b = "FAIL" THEN {"invariant_failed_on_base"}
    ELSE IF b = "PASS" /\ h = "FAIL" THEN {"invariant_violated"}
    ELSE {c \in {"outcome_not_evaluated"} : h # "PASS" \/ b # "PASS"}

\* The invariant outside-allowed-edits-unchanged, from the boundary findings.
BoundaryState(hs) ==
    IF codes \cap (BlockedCodes \ {"outcome_not_achieved", "invariant_violated", "check_failed"}) # {}
    THEN "FAIL"
    ELSE IF \/ codes \cap {"comparison_incomplete", "unsupported_construct",
                            "template_not_comparable"} # {}
            \/ hs = {}
    THEN "NOT_EVALUATED" ELSE "PASS"

RunChecks(t, hs) ==
    \E run \in CheckRuns(t, hs) :
        /\ states' = [lint |-> run.lint, guardBase |-> run.guardBase,
                      guardHead |-> run.guardHead, boundary |-> BoundaryState(hs)]
        /\ stage' = "checks_run"
        /\ LET gb == run.guardBase
               gh == run.guardHead
               lint == run.lint
               found ==
                 FaultsOf({lint} \cup {gb[r] : r \in Rules} \cup {gh[r] : r \in Rules})
                 \cup {c \in {"check_failed"} : lint = "FAIL"}
                 \cup OutcomeCodes(gb[OutcomeRule], gh[OutcomeRule])
                 \cup StatementCodes(StatementOnBase(gb[StatementRule], t),
                                     StatementOnHead(gh[StatementRule], t, hs))
           IN  IF Worktree THEN Continue("list", found) ELSE Conclude(found)

\* head_t: the Template Head's bytes parse to, if they were read.
HeadTemplates == Parsed({raw} \ {None})

Check ==
    /\ at = "check"
    /\ \/ \E t \in Parsed(TargetBytes(BaseSnap)) : RunChecks(t, HeadTemplates)
       \/ /\ Parsed(TargetBytes(BaseSnap)) = {}
          /\ IF Worktree THEN Continue("list", {}) ELSE Conclude({})
          /\ UNCHANGED <<stage, states>>
    /\ UNCHANGED <<env, request, bound, headSnap, todo, got, raw>>

-----------------------------------------------------------------------------
(***************************************************************************)
(* Other processes.  A branch that moves after it was resolved is not read *)
(* again, and a file written before the first listing is another working   *)
(* tree to start from: those steps are left out.                           *)
(***************************************************************************)
Unresolved ==
    CASE at = "load" -> Revs
      [] at = "base" -> {"base", "head"}
      [] OTHER -> {"head"}

MoveBranch ==
    /\ at \in {"load", "base", "head"}
    /\ moves < MaxMoves
    /\ moves' = moves + 1
    /\ \E r \in Unresolved, c \in MoveTo : refs' = [refs EXCEPT ![r] = c]
    /\ UNCHANGED <<disk, tracked, edits, touched, request, at, stage, bound, headSnap,
                   todo, got, raw, states, codes, decision>>

Edit ==
    /\ Worktree
    /\ at \notin {"load", "base", "head", "done"}
    /\ edits < MaxEdits
    /\ edits' = edits + 1
    /\ UNCHANGED <<refs, moves, request, at, stage, bound, headSnap, todo, got, raw,
                   states, codes, decision>>

WriteFile(p) ==
    /\ Edit
    /\ touched' = touched \cup {p}
    /\ \E e \in WriteEntries :
          disk' = [q \in DOMAIN disk \cup {p} |-> IF q = p THEN e ELSE disk[q]]
    /\ UNCHANGED tracked

RemoveFile(p) ==
    /\ Edit
    /\ p \in DOMAIN disk
    /\ touched' = touched \cup {p}
    /\ disk' = [q \in DOMAIN disk \ {p} |-> disk[q]]
    /\ UNCHANGED tracked

\* git add, git rm --cached
ChangeIndex(p) ==
    /\ Edit
    /\ IF p \in tracked THEN tracked' = tracked \ {p}
       ELSE p \in DOMAIN disk /\ tracked' = tracked \cup {p}
    /\ UNCHANGED <<disk, touched>>

Finished == at = "done" /\ UNCHANGED vars

Next ==
    \/ LoadContract \/ ResolveBase \/ ResolveHead
    \/ ListIndex \/ HashNext \/ TornRead \/ ListOthers \/ SnapshotDone
    \/ Compare \/ Check
    \/ MoveBranch
    \/ \E p \in PathSet : WriteFile(p) \/ RemoveFile(p) \/ ChangeIndex(p)
    \/ Finished

Spec == Init /\ [][Next]_vars

-----------------------------------------------------------------------------
(***************************************************************************)
(* Properties                                                              *)
(***************************************************************************)

TypeOK ==
    /\ refs \in [Revs -> Commits \cup {NoCommit}]
    /\ disk \in Files
    /\ tracked \subseteq PathSet
    /\ edits \in 0 .. MaxEdits
    /\ moves \in 0 .. MaxMoves
    /\ touched \subseteq PathSet
    /\ request \in Request
    /\ at \in {"load", "base", "head", "list", "hash", "hash others", "compare", "check", "done"}
    /\ stage \in {"start", "contract_loaded", "trust_established",
                  "boundary_checked", "checks_run"}
    /\ contract \in {None} \cup {Scope[c] : c \in DOMAIN Scope}
    /\ configCommit \in Commits \cup {None}
    /\ baseCommit \in Commits \cup {None}
    /\ headCommit \in Commits \cup {None}
    /\ headSnap \in Files
    /\ todo \subseteq PathSet
    /\ got \in Files
    /\ raw \in Contents \cup {None}
    /\ codes \subseteq ErrorCodes \cup BlockedCodes \cup UnverifiedCodes
    /\ decision \in Decisions \cup {None}
    /\ (at = "done") <=> (decision # None)

\* A VERIFIED or BLOCKED decision is only ever made under a contract read from
\* the trusted commit, that commit being an ancestor of the Base and the Base
\* of the Head the branches were resolved to: not under a draft, nor under a
\* contract only the candidate carries, nor for a Base that moved away
\* (design.md section 3; verify._load_contract, _bind, decide.cap_for_draft).
TrustComesFirst ==
    decision \in {"VERIFIED", "BLOCKED"} =>
        /\ Approved
        /\ <<configCommit, baseCommit>> \in Ancestors
        /\ <<baseCommit, headCommit>> \in Ancestors
        /\ contract = Scope[Tree[configCommit][ContractPath].oid]

OutsideUnchanged ==
    \A p \in Keys(BaseSnap, headSnap) \ {Target} : ~ Differ(BaseSnap, headSnap, p)

TargetKept ==
    /\ Regular(BaseSnap, Target)
    /\ Regular(headSnap, Target)
    /\ BaseSnap[Target].mode = headSnap[Target].mode

BaseDoc == Doc[BaseSnap[Target].oid]
HeadDoc == Doc[headSnap[Target].oid]

\* Both targets parse, and Head's differs from Base's by allowed edits only.
TemplateInScope ==
    /\ {BaseSnap[Target].oid, headSnap[Target].oid} \subseteq DOMAIN Doc
    /\ OnlyAllowedEdits(contract, BaseDoc, HeadDoc)

\* When the report says VERIFIED, or says that the invariant
\* outside-allowed-edits-unchanged passes, the Head snapshot is the Base tree
\* but for the target file, and the two Templates differ only in properties of
\* the contract's Resource, changed by operations the contract lists.  The
\* comparison works on paths that lost the spelling of digit names, leaves
\* positions out and stops early; none of that may let another edit through.
PassStaysInContract ==
    decision = "VERIFIED" \/ states.boundary = "PASS" =>
        OutsideUnchanged /\ TargetKept /\ TemplateInScope

\* VERIFIED stands on evidence about the very bytes of the snapshot: they are
\* what was read and linted, cfn-lint found no error, every rule was evaluated
\* and the outcome holds on them, and the statement to preserve is there on
\* both sides and the same.  No skipped rule, tool fault, Template that did not
\* parse or check that was not run ends in VERIFIED (verify._read_target,
\* _checks).
VerifiedIsEvidenced ==
    decision = "VERIFIED" =>
        /\ raw = headSnap[Target].oid
        /\ raw \in LintClean
        /\ Verdict(OutcomeRule, HeadDoc) = "PASS"
        /\ Verdict(StatementRule, HeadDoc) = "PASS"
        /\ Statements(contract, HeadDoc) = Statements(contract, BaseDoc)
        /\ \A r \in Rules : {states.guardBase[r], states.guardHead[r]} \subseteq {"PASS", "FAIL"}

\* BLOCKED names a real violation: a difference outside the contract, an
\* outcome or a check that fails on the checked bytes, or a statement that was
\* there and is not.  What could not be compared or evaluated never blocks
\* (design.md section 7).
BlockedIsReal ==
    decision = "BLOCKED" =>
        \/ ~ OutsideUnchanged
        \/ ~ TargetKept
        \/ ~ TemplateInScope
        \/ raw \notin LintClean
        \/ Verdict(OutcomeRule, HeadDoc) = "FAIL"
        \/ /\ Verdict(StatementRule, BaseDoc) = "PASS"
           /\ \/ Verdict(StatementRule, HeadDoc) = "FAIL"
              \/ Statements(contract, HeadDoc) # Statements(contract, BaseDoc)

\* A preview is VERIFIED only if every file no other process touched during the
\* call is what Base has, and the target is what was checked: a change that
\* stands through the whole call is seen, although a snapshot is made of two
\* listings and the index may change between them.  One change of the index
\* cannot hide a file from both snapshots, nor can two; three can (git add
\* between the listings of the first, git rm --cached, git add between those of
\* the second), and MaxEdits is below that.
StandingChangeIsSeen ==
    decision = "VERIFIED" /\ Worktree =>
        \A p \in PathSet \ touched :
            IF p = Target THEN Regular(disk, p) /\ disk[p].oid = raw
            ELSE p \in Keys(BaseSnap, disk) => ~ Differ(BaseSnap, disk, p)
=============================================================================
