# Verification of the IaC review agent plugin

TLA+ modules, TLC runs and TLAPS proofs for the program under `src/`: a command
line plugin that reviews CloudFormation and CDK templates with several
detectors, keeps the evidence its answers rest on in a tamper-evident store,
and verifies chains of claims and proposed remediations against that evidence.

`PROJECT.json` lists the components, the runs with their properties, the lines
of code each definition stands for, the hazards and the theorems. This file
explains them.

## 1. The system

| Component | State | Operations | Interacts with |
|---|---|---|---|
| Evidence Store, `iacreview/evidence/store.py` | revision directories, raw files, envelopes, `MANIFEST.json` linked from `MANIFEST.json.tmp`, the hash chain between manifests, quarantine records | `begin_revision`, `RevisionWriter.add`/`seal`, `verify`, `diagnose`, `quarantine_latest`, `read_raw` | collector writes, snapshot and chain read, a Human approves quarantines |
| Evidence capture and evaluation, `iacreview/evidence/*` | captured envelopes, a snapshot of the store, evaluation artifacts | `capture`, `take`, `validate`, `evaluate`, `replay`, final report | external API pages, the store, rules |
| Evidence chain, `iacreview/chain/*` | none of its own: the manifest and what it names, the reason codes of each link, the verification report that was loaded | `load_sources`, `aggregate`, `build`, `check`, the six link checks, `evaluate`, `compose` | git, the reports of review and remediation, the captured pull request in the store |
| Remediation verifier, `iacreview/remediation/*` | two snapshots of a git work tree, check results | `run`, the checks, `decision_of`, `task_outcome` | git, the delta tool, external tools |
| External tool processes, `iacreview/proc.py` | a process group, its pipes, timers | `run`, `run_bounded`, `_terminate_process_group` | kernel, every component that starts a tool |
| Review orchestrator, `run_iac_review.py`, `bootstrap.py`, `source.py` | candidates, reviewed templates, failures, Sources that succeeded | `validate`, `run`, `collect`, `exit_code`, `partial_report` | CDK, tools, detectors, report |
| CDK, `iacreview/cdk.py` | `cdk.out` | `detect_cdk_project`, `partition_templates`, `synth_if_confirmed` | orchestrator, `proc.run` |
| Path guard, `iacreview/pathguard.py` | temporary files to remove, signal handlers | `resolve_within`, temporary files | every file access |
| Findings, `finding.py`, `dedup.py`, `report.py`, `agentin.py`, `sarif.py` | findings per template | validation, `deduplicate`, ordering, `build_report` | detectors, the agent's file, orchestrator |
| Delta tool, `delta*.py`, `semdiff.py`, `reportcheck.py` | two reports and two templates | reconstruct, match, classify, compare, render, exit code | reads what reviews printed; remediation uses its diff |
| Detectors, `cfnlint.py`, `cfnguard.py`, `iam/*`, `netgraph.py`, `secrets.py`, `quality.py` | none | six Sources, each from a template to findings | called by the orchestrator; two of them start a tool |
| Skills of one Source, benchmark harness, repository scripts | none of their own | one pass over their input | the above |

What is hard here: the store is written file by file by processes that do not
lock each other out, may die anywhere, and must still never be trusted half
written; a tool is an arbitrary process tree that the wrapper has to read to its
end or to kill; a review goes on after most failures and must neither forget
one nor review what is stale. Nothing is multi-threaded inside one process:
interleavings come from several processes and from the file system.

What makes each part correct:

* *Evidence Store*: a revision has one writer; what is sealed is final; nothing
  unfinished, damaged or unapproved is ever trusted; a broken store can be
  recovered, by a quarantine a Human approved for exactly the state on disk.
* *Tool processes*: the child is always collected, a normal result is whole,
  limits are exact, nothing that was killed goes on, every call ends.
* *Review*: exit code 0 only for work that was done; every candidate and every
  Source is accounted for; no stale synthesis is reviewed.
* *Capture*: a collection is complete only when its pages say so, and what an
  evaluation read is what was validated.
* *Chain*: the status of a chain is never better than its weakest link; each link
  read what the manifest names; the gate judges records that are computed again
  from the evidence, and an approval that counts was one.
* *Remediation*: a remediation is accepted only when the tree that was checked
  is the tree that is there afterwards, under a contract the candidate did not
  bring along, and differs from its Base only where the contract allows.
* *Findings*: a merge loses nothing and invents nothing, whatever the order of
  its input, and one bad entry costs only itself.
* *Detectors*: no policy statement and no cycle of references is passed over in
  silence; what cannot be evaluated is said to be so.
* *Delta*: "Resolved" and "New" are true of the two revisions, every place where
  the templates differ is named or said not to be compared, and exit code 0
  means that everything asked for was compared.

## 2. Modules

| Module | Models | Of |
|---|---|---|
| `EvidenceLog` | the promise of the store: a write-once log of numbered revisions | abstract specification |
| `EvidenceStore` | the store, its writers, quarantine, crashes, damage | `store.py` |
| `MCEvidenceStore` | TLC symmetry of the instances | |
| `EvidenceStoreProofs` | theorems about `EvidenceStore` | |
| `ProcessGroup` | `run` and `run_bounded` with an arbitrary tool | `proc.py` |
| `ProcessGroupProofs` | theorems about `ProcessGroup` | |
| `ReviewRun` | one run of the orchestrator | `run_iac_review.py`, `bootstrap.py`, `cdk.py` |
| `MCReviewRun` | the command lines that are checked | |
| `ReviewRunProofs` | theorems about `ReviewRun` | |
| `EvidenceCapture` | one capture, page by page, and its envelopes | `collector.py`, `envelope.py`, `secretgate.py` |
| `EvidenceReplay` | a capture on its way through store, validation and snapshot to a verdict, twice, in a store that changes | `integrity.py`, `snapshot.py`, `evaluator.py`, `replay.py` |
| `MCEvidenceReplay` | the answers and specifications that are checked | |
| `EvidenceReplayProofs` | theorems about `EvidenceReplay`, and so about `EvidenceCapture` | |
| `TemplateBoundary` | the comparison of two Templates and what a contract allows of it, as operators | `semdiff.py`, `boundary.py` |
| `RemediationVerify` | one call of the remediation verifier in a repository that changes | `verify.py`, `gitsnap.py`, `boundary.py`, `checks.py`, `decide.py` |
| `MCRemediationVerify` | the Templates, commits, contracts and command lines that are checked | |
| `RemediationVerifyProofs` | theorems about `RemediationVerify` | |
| `ChainStatus` | reason codes, link and chain status, exit codes, as operators | `chain/status.py` |
| `HumanGate` | regeneration of the gate records and the four rules, as operators | `chain/gate.py` |
| `PullRequest` | a pull request with its reviews, and its capture page by page | external, as `gate.py` relies on it |
| `EvidenceChain` | one validation of a chain, link by link, while artifacts are replaced | `chain/validator.py`, `links.py`, `manifest.py` |
| `MCEvidenceChain` | the accounts and commits that are checked | |
| `EvidenceChainProofs` | theorems about `EvidenceChain` and its gate | |
| `TemplateTree` | the tree a template is parsed into | `template.py`, `yamlcfn.py` |
| `Finding` | schema, validation and redaction of a finding | `finding.py` |
| `AgentInput` | the agent's file, entry by entry | `agentin.py` |
| `ReviewReport` | deduplication: the key, the merge and its order; order, numbers, summary and validation of a report | `dedup.py`, `report.py` |
| `LintSource`, `GuardSource` | the two Sources that run a tool, from its output on | `cfnlint.py`, `cfnguard.py`, `categories.py` |
| `IamVerdict` | what can be said of an element before it is deployed, with its theorems | `iam/intrinsics.py` |
| `IamIntrinsics`, `IamDetectors` | branches and resolution, sites, statements and rules, findings and disclosures | `iam/*` |
| `IamReference` | which statements some deployment has: the definition the IAM review is checked against; not translated from code | |
| `ResourceGraph`, `SecretSource`, `QualitySource` | references and the network review, secrets, quality | `netgraph.py`, `secrets.py`, `quality.py` |
| `Review` | two reviews whose Sources find anything that is sound, merge and report it | `run_iac_review.py` |
| `ReportCheck` | shape and reconstruction of a report, comparability of two | `reportcheck.py` |
| `FindingDelta` | matching and classification | `delta.py` |
| `DeltaInput` | reading of templates and reports, repeated and merged keys | `deltaio.py` |
| `SemanticDiff` | the comparison of two trees, its limits and qualifiers | `semdiff.py` |
| `DeltaTool` | arguments, and one request | `deltacli.py` |
| `DeltaResult` | the result, its anonymized form, failures and exit code | `deltareport.py` |
| `ReviewProofs` | theorems about `Review` and the reports it makes, `FindingDelta` and `DeltaResult` | |
| `ReviewDelta` | two reviews of two revisions, and the delta tool on what they printed | `run_iac_review.py`, `deltacli.py` |
| `MCReviewDelta` | the revisions, tools, agent files and command lines that are checked | |

`RemediationVerify` extends `TemplateBoundary`, whose operators its steps
`Compare` and `Check` use. `EvidenceReplay` extends `EvidenceCapture`: what it
validates is what the capture made. The store between them is one revision whose states `EvidenceStore`
makes reachable, reduced to what `verify()` reports of it. `EvidenceChain` extends
`PullRequest`, which extends `HumanGate` and `ChainStatus`: the gate of a chain
judges the pages the capture of that pull request gave. `ReviewDelta` extends
all modules from `TemplateTree` to `DeltaTool`. Those from `Finding` to `Review` and
`DeltaResult` take no template apart and have no recursive operator: they are what
`ReviewProofs` proves about.

Definitions named after the one that follows them with a suffix (`Numbered_IdsFirst`), or
whose comment calls them a *Faulty variant*, are plausible bugs. They
are used by no specification: each shows that some property notices the bug when
the definition that follows it is replaced by it.

### EvidenceStore

`dirs` is what is on disk, one record per revision number: whether the directory
exists (`made`), its raw files and envelopes (`raw`, `env`), whether
`MANIFEST.json.tmp` and `MANIFEST.json` are there (`tmp`, `man`), what the
manifest lists and links to (`listed`, `link`), the quarantine record the
revision carries (`record`) and which raw files differ from what was recorded
(`bad`). `writer[p]` is the program counter and the local variables of process
`p` inside `begin_revision`, `add`, `seal` or `quarantine_latest`; a crash
forgets it. `approval` is the `QuarantineApproval` the Human handed over last,
`approved` every pair of a revision and a state a Human ever approved.

Every system call that another process can see is a step of its own: the two
verifications of `quarantine_latest` (`QuarantineVerify`, `QuarantineDiagnose`),
`Mkdir`, the raw file and the envelope of `add` (`AddRaw`, `AddEnvelope`, or
`AddBare` for evidence without raw bytes; `AddFails` when the second write
raises, and evidence without raw bytes may be added after it under the same id, whose
leftover `.raw` the manifest then does not list), and `WriteTmp`, `LinkManifest`,
`UnlinkTmp` of `seal`. A `seal` that raises, also after the link, is a `Crash` of its
writer: no caller in the repository goes on with the writer. `verify()` only
reads, and is a function of `dirs` (`OwnStatus`, `Status`, `StoreFinding`,
`Valid`). A SHA-256 is abstracted to what it is the hash of: a link to a
manifest names the revision, a state digest is the `Snapshot` it covers, so two
digests are equal exactly when the states are.

Left out, because they are refusals that change nothing or data no property
distinguishes: path containment and symbolic links, file modes, the secret scan
(an evidence it refuses is never added), the text of reasons, time stamps, and
`MAX_FILE_BYTES`.

### ProcessGroup

The tool and its descendants are free: they fork, write, close the pipe, are
born with SIGTERM ignored or not, exit or never exit, and a descendant may leave
the process group (`Leave`: `setsid`), after which no signal of the wrapper
reaches it or what it forks; the tool itself leads a session and cannot. `pc` is the place of the
wrapper in the call, from Popen (`Start`) over reading (`Read`, `ReadEnd`),
`wait` (`Waited`) to the termination of the group (`Terminate`, `GraceEnds`,
`Kill`), the `communicate` that drains the pipes (`Drain`, `DrainEnds`) and the
last resort (`DrainTimeout`). A timer may ring at any moment at which the code
waits with a timeout. `run` and `run_bounded` share the model; they differ in
the output limit. `ZombieHasGroup` is the answer of the platform to `getpgid` of
a child that exited and was not collected.

### ReviewRun

One run, with the targets and flags chosen in `Init`. `_discover` takes one
target per step, `_verify_tools` one tool, the loop one template and one Source
per step, and in each the environment chooses success or one of the failures
the code distinguishes. `errors` is what the entries of `errors[]` were made for,
`first` the first recorded exit code that is not 0. The entry of a Source that
failed carries the name of the Source only (`run_iac_review.py:338-343`), so that
`NothingSilentlySkipped` says that there is an entry for every pair that was
lost, and not that a reader of the report can tell the template from it.
`RaisePartial` and `Raise` are the two ways of
`run_entry_point` to end a run whose exception is an `IacReviewError`, with and
without a partial report; `Crash` is any other exception. `ReportRefused` is a
`build_report` that refuses what it is to print (exit 4 and no report; the findings that make it do so
are modelled in `ReviewDelta`, see 6). When it refuses a partial report
(`bootstrap.py:601-603`) the exception leaves the handler of `run_entry_point`
itself: the interpreter ends with a trace and exit 1, which is `Crash` here.

### EvidenceCapture

The transport may answer every fetch in any way of `Answers`: raise, return
nothing, or give a status, a body of some size, kept headers, a next link that
stays on the resource or leaves it. `pages` is the list of page records the loop
builds, `total` the bytes accepted so far. `Fetch` is one round of the loop,
`BudgetSpent` the round that does not ask, and `Finish` everything after the
loop: the records, the security gate, and the siblings of a refused page. What
bytes hold is one of five kinds that the gate treats differently; its patterns
are data. `evidence` and `refusals` are the two lists of `CaptureResult`, by page
index.

### EvidenceReplay

`store` is the state on disk of the revision the capture was sealed in, and
whether a revision follows it that chains to its present state. `Alter`, `Edit`,
`Restore`, `Follow` and `Quarantine` change it between any two reads. `replay`
holds the locals of one replay: the report of `take`, the group being validated,
the reads of its raw bytes that are still to be made (`todo`), the bindings, and
the result. Each `read_raw` and each `Snapshot.read` is a step; so is each of the
two `verify()`, of `take` and of `native_replay`. A hash is what it is the hash
of. `Again` is a second replay with `--expect`.

The bundle has one role with evidence, `check_runs`. S7-01 needs three more
roles; they are taken to be there and sound, so S7-01 depends on this one. S7-04
is judged from the same bytes. An altered raw file may show a check that the
answer did not. Left out: W2 and evidence that is not from an API, the artifacts
of G11, the open questions, and the re-evaluation of legacy results.

### TemplateBoundary

A Template is its Resources, one more section and whether it has a Transform; a
Resource is its type, its attributes and its properties; the value of a property
is a leaf. `Changes` and `Uncompared` are what `semdiff.diff` returns,
`TemplateCodes` what `boundary.template` makes of it, code by code.
`OnlyAllowedEdits` says what a contract means without any comparison, on the two
Templates themselves: it is the reference the boundary is checked against. Two
facts of the code make the difference worth checking. Paths of the comparison
lose the spelling of digit-only names (`Canon`), so a path may stand for two
Logical IDs, and `resolve_path` has to notice; and what repeats a key is left out
of the comparison (`Marked`). Resources that are not mappings are left out.

### RemediationVerify

`at` is the place of `run` between two reads of something that can change;
`stage` is `stage_reached`. Commits and blobs are immutable: reading them is part
of the step that resolves a branch. Branches are read one by one (`LoadContract`,
`ResolveBase`, `ResolveHead`), and another process may move one in between
(`MoveBranch`). A snapshot of the working tree is two listings (`ListIndex`,
`ListOthers`) and a read of every file listed (`HashNext`, or `TornRead` when the
file is written meanwhile); the target is read once more (`CompareWorktree`), and
the whole is repeated after the checks (`SnapshotDone`). Between any two of these
other processes write or remove files and change the index. An edit before the
first listing, or a branch that moves after it was resolved, is another initial
state or unread, and is not a step. `Conclude` is the end of `run`, which every
path reaches. Tools are external: a run completes, or faults in one of the ways
of `STATE_CODES`; `ToolFaults` names two that stand for the others, which differ
in their code only.

Left out: parsing of the contract (`Scope` gives the contract a content binds
to), a diff of more entries than its limit (`template_not_comparable`,
`verify.py:313`), a template whose projection cannot be made
(`comparison_incomplete`, `verify.py:238-241`), a git command that fails anywhere
but at the second read of the target, submodules and ignored files, `task_outcome`, the text of the report, and
`init` and `explain`.

### HumanGate, PullRequest and EvidenceChain

`HumanGate` is pure, and so is the code: `build` regenerates the records from a
`capture` and what the manifest lists of it, `Judge` compares the presented
records with them and applies GV-1 to GV-4, `check` is both. A digest is the
value it is the digest of, a time stamp a number.

`PullRequest` is the world the gate cannot see. `reviews` is what happened, in
order; `Open`, `Submit`, `Review`, `Dismiss` and `Push` go on between
`CapturePull` and the pages of `CapturePage`; `CaptureFails` ends the capture
early. `truth` records at each page what was in force and what objection stood.
What is assumed of GitHub: one unsubmitted review per account, a listing by time
of submission in which the viewer's own unsubmitted review is last, and no
visible review is ever deleted. That an author cannot approve is not assumed.
Two things may carry the same time stamp, and an account may be gone.

In `EvidenceChain` a manifest is written about a capture (`WriteSome`): an honest
one, or one with a single fault in what it says, in what it lists, in the
records it presents or in the artifacts. `LoadReport` and `Check(i)` are the
steps of `evaluate`; between any two of them somebody may replace the review
report, the verification report or the store (`ReplaceSome`). `read` is a
history variable: the artifacts as they were when a link read them. `gate.py`
verifies the store for itself, before the github link does, and only the github
link compares the digest of the store's manifest; both are steps of the model.

Left out: the three codes of a manifest that cannot be read at all, which end
`validate()` before any check, diagnostics, and the text of the report. A damaged
store is one whose evidence is damaged: damage to the store's own manifest gives
`store_manifest_mismatch` as well (`links.py:430`), and a damaged envelope may give
`evidence_id_missing`. An exception that no check handles replaces the codes
of its link by `link_check_error` (`validator.py:36-42`), which can only take a
contradiction away from a chain and never completes it; the model has the
exceptions of a repository that is gone.

### From a template to the exit code of the delta tool

A template is a tree of `Map`, `List`, `Text`, `Number` and `Time`. A file is a tree of `pairs` in
their order, with `merge` for anchors, so that keys may repeat or be inherited.
Texts are values of the instance and are never taken apart. What the code asks of
a text (is it a wildcard, is it a credential, which names does `Fn::Sub`
substitute in it, which environment does it name) is data, a constant. The
order of resources and references is `Lexical`.

`ReviewDelta` runs the Sources of one review one after the other, in the order of
the orchestrator, then the agent's file, then the report, first for the base,
then for the head. `enabled` is the Sources each review is asked for: all, or all
but one. What the tools find of a document is `LintChecks` and `GuardChecks`: the tools
are external, and these constants are the truth their runs may fall short of
(`LintFails`, `LintSaysNothing`, `GuardFails`). Before the comparison a report may be edited,
rewritten so that it agrees with itself, or damaged, and a template damaged or exchanged. Each
of these, and each omission, counts towards `MaxOdd`. Everything the Sources, the
report and the delta tool do in between is a function, as it is in the code.

`Review` is the part of it that does not depend on what a Source looks for. Its step
`SourceReports` lets a Source add any sound findings, any errors of a known class
and any tools, each tool once; `MakeReport` merges and prints, `Proceed` writes
the reports and lets the next program read them. `ReviewDelta` has the same
variables, uses `MakeReport` and `Proceed` as they are, and is checked to implement
`ReviewSpec`: every step of a Source is a `SourceReports` or leaves what the reviews
collect alone. Whatever is proved of `ReviewSpec` therefore holds of the six
Sources and of an agent's file, and of a seventh Source that finds sound findings.

The properties do not use the functions they are about, but definitions of their
own: `IamReference` deploys the policies of a resource for every choice of conditions
and asks of each which of the 15 rules may hold of its statements (`MayHold`), and what of that
is seen by a reader who follows an `Fn::If` only where it gives statements or an element (`Evident`); `OnCycle` is a cycle as a least
fixed point; `Readings` is everything a file with repeated keys can be read as;
`FaithfulMerge` says what a merged finding stands for without merging.

## 3. Runs and bounds

| Run | Shows | Bounds |
|---|---|---|
| `store_faults` | types, one writer per revision, contiguous numbers, nothing unfinished trusted, quarantines approved, sealed revisions final, refinement of `EvidenceLog` | 2 processes, 1 id, 3 revisions, 2 approved states, one damaged file, crashes everywhere |
| `store_recovery` | no id twice, a quarantine is final, every broken store is recovered | 2 processes, 2 ids, 3 revisions, a careful Human, no damage |
| `store_undone` | expected violation, see 6 | as `store_faults` without damage |
| `process_calls` | what a call reports is what happened (a normal result is whole, the limit is exact, the child is collected), no signal after the child was collected, every call ends unless a holder of the pipe out of SIGKILL's reach hangs it | the tool and 2 descendants, pipe and limit of 2, at most 3 units written |
| `process_left` | expected violation, see 6 | the same, on a platform like Linux |
| `review_outcomes` | exit codes, completeness of reports, no stale review | 2 templates, 1 tool Source, 1 own Source, 42 target lists of one or two targets, aggregate limit of one file |
| `review_synthesis` | expected violation, see 6 | the same |
| `evidence_verdict` | nothing refused is kept, only whole answers are bound, a recorded PASS is true of the whole answer, a mismatch at one snapshot needs a race, captures and replays end | 13 answers, 2 pages, page limit 2 and total limit 3, 3 specifications with two groups, 2 changes of the store, 2 Definitions |
| `evidence_exit` | expected violation, see 6 | the same, with 1 change |
| `remediation_verify` | trust before any verdict, VERIFIED only for allowed edits with evidence on the bytes of the snapshot, BLOCKED only for a real violation, a preview sees every change that stands | 23 Templates, 3 contracts, 32 command lines with their repositories, 2 changes of the working tree or the index, 1 move of a branch, 1 tool fault |
| `evidence_chain` | a counted approval was in force, a LINKED gate saw exactly the records of the evidence, COMPLETE means that every link read what is named, BROKEN is never said of evidence that is only inconclusive | the author, two reviewers and an account that is gone; 2 commits, one review per page, 2 reviews, 2 time stamps, 1 unusual review or answer, 1 fault of the manifest or the artifacts, 1 replacement; chains over at most 1 review; 502,982 states |
| `report_delta` | printed reports are accepted, merges are faithful, nothing is silent, Resolved and New are real, differences are covered, exit 0 means compared, and the reviews implement `ReviewSpec` | 37 pairs of revisions, 7 argument lists, each Source omitted on one side, 1 thing that goes wrong; limits of 5 findings, 60 nodes, depth 14, 5 changes, 6 entries of output; nesting depth 3 in policies and 2 in guard checks; 33,461 states |

The bounds are enough for what the properties are about. Three revisions allow a
broken revision, its quarantine and the quarantine of that, and reach the number
beyond `MaxRevisions` (`Stray`). Two processes are what a race needs; the store
has no step of three. `MaxApprovals` bounds how often the Human approves, and in
`store_recovery` it is larger than the number of approvals any behaviour
contains, so it bounds nothing. With a limit of 2 and 3 units written the output
is below, at and above the limit. With two targets a file can be reached twice,
a CDK project can come before and after another, and one synth can succeed
before another fails. In `evidence_verdict` a second page may fit on its own and
exceed the total, each of the ways a page can be incomplete occurs on the first
and on the last page, and the bytes can be altered after they were bound and put
back after they were read, or altered before one replay and restored before the
other. In `remediation_verify` there is a Template for every way a candidate can
leave its contract or the comparison can be deceived, alone or together with a
trusted, a draft, an unreadable and a self-granted contract. Two changes are what
is needed to alter a file and to put it back. In `evidence_chain` two reviews on
two pages are enough for a review to be submitted, dismissed or overridden
between two pages, for time stamps to tie, and for an id to be older than its
submission; one replacement can fall between any two links. `ChainReviews` keeps
the chain behind the gate to captures of one review: the gate is judged for
all captures of two, in the state where they end, and what follows depends on
its codes only. With one review no two pages show the same one, so that the
second case of `BrokenIsContradicted` is beyond the run and rests on
`ContradictionHolds`. In `report_delta` each pair is there for
something that can go differently on its two sides: a rule that holds, holds under one
branch or cannot be decided; a key that is repeated, inherited or hidden; a resource
that is renamed or retyped; a cycle that is reached another way; more changes
than the limit; an agent file with a bad entry, with entries that clash, with
another spelling of the path, with a path that leaves the workspace, or with so many
entries that the report exceeds the limit of the delta tool.

The types of `RemediationVerify` are proved (`VerifierTypes`) and not checked again by
a run.

`StandingChangeIsSeen` depends on that bound, and its theorem names it. With
`MaxEdits = 3` it fails: an untracked file is missed by both snapshots if it is
added to the index between the two listings of the first, removed from the index
afterwards, and added again between the two listings of the second. The
documents promise only that another hash is noticed, and both hashes are equal.
Whoever changes the index while the verifier runs should not rely on a preview.

`CHECK_DEADLOCK` is off in all runs but that of `RemediationVerify` because each of these
programs ends: a store at `MAX_REVISIONS` with no damage left, a call that
returned, a run that printed its report, a chain that has its verdict, a delta
that was printed. `RemediationVerify` has a step for its
end (`Finished`), so there a deadlock would be found.

`QuarantineMayCrash = FALSE` and `CarefulHuman = TRUE` in `store_recovery` are
assumptions of that run, not facts of the code: with the first one TRUE, a crash
inside `quarantine_latest` after its `mkdir` leaves two broken revisions at the
end, which neither `begin_revision` nor `quarantine_latest` accepts; without the
second, 6 applies. `NoIdSealedTwice` and `QuarantineIsFinal` are checked there under the second only.

### Fairness

`EvidenceStore!FairSpec`: a process inside a call goes on or dies (`Continue`),
which is what an operating system gives; and somebody calls `quarantine_latest`
with the approval the Human gave, who does decide. Without the last two, no
store is ever recovered, and the code does not claim it. Nobody has to begin a
revision. `ProcessGroup!FairSpec`: the wrapper runs, the timers it waits with
ring, and the kernel delivers a fatal signal. Nothing is assumed of the tool: it
may stop, run forever, and leave descendants, in the group or out of it, that
hold the pipe. `CallEnds` therefore has the exception `Hung`: the last
`communicate()` (`proc.py:471`) has no timeout and waits for a descendant that
SIGKILL did not reach, either because it was not sent (the tool exited within the
grace period) or because the descendant had left the group.
`EvidenceReplay!Fairness`: a capture and a replay that can go on do; they are
single-threaded calls that wait for nobody. Nobody has to start one or to change
the store. The other specifications state no fairness: their properties are
safety properties.

## 4. Proofs

`EvidenceStoreProofs` proves, for every set of ids, every set of processes and
every `MaxRevisions` and `MaxApprovals` (assumption `StoreAssumption`):

| Theorem | States |
|---|---|
| `TypeCorrect` | `[]TypeOK` |
| `NoTwoWriters` | `[]OneWriterPerRevision` |
| `NumbersHaveNoGap` | `[]NoRevisionGap` |
| `QuarantinesAreApproved` | `[]QuarantineWasApproved` |
| `SealedStaysFinal` | `SealedIsFinal` |
| `StoreImplementsLog` | `ImplementsLog` |
| `NothingUnfinishedIsTrusted` | `[]UnfinishedIsNeverTrusted` |
| `IdsAreSealedOnce` | `[]NoIdSealedTwice`, if `CarefulApprovals` |
| `QuarantineStaysFinal` | `[]QuarantineIsFinal`, if `CarefulApprovals` |
| `ApprovedNeverMends` | `[]ApprovedStaysBroken`, if `CarefulApprovals` |

None of these is inductive alone. `IInv` adds what a process knows: its number
is at most one beyond the revisions there are, its directory exists once it is
live, its directory has no manifest before it links one, it has entries when it
is about to (`WriterInv`); a sealed revision exists and is not empty
(`DirInv`); and what the Human handed over was approved (`ApprovalInv`). The
reason `OneWriterPerRevision` is preserved is `NewNumber`: `mkdir` succeeds only
for a name that does not exist, while every live process owns one that does. The
reason `NoRevisionGap` is preserved is that numbers only grow, so a number that
was `len + 1` when it was computed is still at most `len + 1` at the `mkdir`.
`DirStep` and `SealStep` say once what a step can do to a directory; the
invariants, the action property and the refinement are corollaries of them. The
refinement maps `mkdir` to `Claim`, the link of the manifest to `Seal`, and
every other step to a stutter.

What verification says of a revision depends on all revisions before it:
`OwnStatus` is a recursive function over their numbers. That it exists and has
its values is an induction, which the provers cannot be given as such; the
proofs use the least number instead. If some number had no status, there would
be a least one (`LeastNumber`, from the well-foundedness of `<`), and the status
of its predecessor gives it one (`StatusesExist`). The same form serves wherever
these proofs need an induction over numbers.

`NothingUnfinishedIsTrusted` then needs one fact more about a process between the
manifest's temporary file and its link (`HalfSealed`). The three theorems about a
careful Human are of the behaviours in which nobody approves a quarantine while a writer is
live in the broken revision: `CarefulApprovals`, in their statements `[][Approve => ~LiveIn(Count)]_vars`.
That is more than the code asks. `quarantine_latest` asks for a revision that `verify()` reports
broken, and a revision is so reported as long as its writer has not sealed it; nothing
in `store.py` or `human.py` tells the Human of the writer, and an approval of such a revision
makes `QuarantineIsFinal` false (`store_undone`). They assume
nothing else: damage from outside and a crash inside `quarantine_latest` are
allowed, both of which `store_recovery` excludes. The invariant, `CarefulInv`, is about who works
on which revision. Nobody is live in a revision that has a successor (`Alone`), so
the ids a writer was told are used stay the right ones until it seals
(`Informed`); and nobody is live in or before a revision a Human approved as
broken, so what made it broken stays there and it never becomes VALID again
(`ApprovedStaysBroken`). That is more than `QuarantineIsFinal` asks, which speaks
of quarantines that were sealed.

`EvidenceReplayProofs` proves, for every set of answers, every limit, every set
of specifications and any number of changes (`CaptureAssumption`,
`ReplayAssumption`):

| Theorem | States |
|---|---|
| `InvHolds` | `[]Inv`, the inductive invariant |
| `GateHolds` | `[]RefusedIsNeverKept` |
| `BindingHolds` | `[]BoundIsWholeAnswer` |
| `PassIsTrue` | `[]RecordedPassIsTrue` |
| `TypesAreKept` | `[]TypeOK` |
| `MismatchIsRace` | `[]MismatchMeansRace` |

`BindingHolds` is the one that takes an argument. `PagesInv` says what the loop
guarantees of every page it has recorded: a page without errors was received
whole and, in a GraphQL answer, reports no next page, and every page but the last offers a next one. `EvidenceInv` says what
the envelopes retain of that after the gate has removed pages and siblings were
marked. `V5FindsAll` then shows that V5 cannot be deceived: its check that the
indices have no gap excludes a refused page in front, its check that the last
page offers no other excludes a refused page at the end, and `pagination_complete`
of any one page excludes errors in all of them, so also a GraphQL document that says
`hasNextPage`. It does not need V6 or V7, nor
anything about the store but that a report lists evidence of the capture only
(`HeldIsCaptured`), so it holds however the store changes.

`PassIsTrue` rests on `VerdictInv`. S7-01 passes only when evidence is bound
to the role and none of the role is missing, so by V5 the role is every page of the
answer. The pages are read in order and a page that is not what its envelope names stops
the reading, so the count of checks is that of the capture as far as none, one and
more than one can be told apart (`TallyOneMore`), which is all S7-04 asks. The
property says "exactly one check on all pages" without a sum (`OneCheck`), since what
a recursive sum computes is out of the prover's reach.

`MismatchIsRace` rests on `RaceInv`: as long as nobody changed the store while a
replay runs, each thing it has found so far (what is bound, the counts, S7-01,
S7-04) is what the capture and the specification alone decide. Two replays of one
Definition at one snapshot that were both left alone therefore have equal results, and a
mismatch needs a change during one of them. `TypesAreKept` carries with the types
that the loop never holds more than `MaxPages` pages and that what is left to read
was bound.

`RemediationVerifyProofs` proves, for every repository, contract, profile, set of
tools, pair of Templates and number of concurrent changes (`TemplateAssumption`,
`RemediationAssumption`):

| Theorem | States |
|---|---|
| `TrustHolds` | `[]TrustComesFirst` |
| `InContractHolds` | `[]PassStaysInContract` |
| `EvidenceHolds` | `[]VerifiedIsEvidenced` |
| `BlockHolds` | `[]BlockedIsReal` |
| `StandingHolds` | `[](edits <= 2 => StandingChangeIsSeen)` |
| `VerifierTypes` | `[]TypeOK` |

`TrustInv` says where the pipeline is: past `ResolveHead` without an end, the two
ancestor relations were tested on the commits that are kept, and the contract is
the one of `configCommit`. `DraftIsCapped` is the other half: a draft can end as
ERROR or UNVERIFIED only, whatever is found (`EarlyEnd`, `LateEnd`).

`InContractHolds` needs a fact about the comparison that has nothing to do with
the pipeline: `NoCodeNoOtherEdit`, two Templates whose comparison has no code of
the boundary differ by allowed edits only. The paths of the comparison lose the
spelling of digit names, so the lemma has to find the Resource a path was made
for: a path without the code `comparison_incomplete` has one spelling, and if it
counts as inside the target that spelling is the contract's. A position that is left
out has a code of its own. `StayInv` carries the conclusion to the end: nothing
the call compared is read again but the working tree, and every change of that
ends it with a code.

`EvidenceHolds` uses the same skeleton. With no code at the end, `OutcomeCodes`
excludes a Head that was not read, and `FaultsOf` every fault and every skipped
rule, so what is left of each run is its completed form (`RunIsNoFault`), on the
very bytes of the snapshot (`CompareReads`).

`BlockHolds` is the converse: `AllowedEditIsNotBlocked` shows that an allowed edit
never has a code that blocks, which needs the names of a Template to be finitely
many, since `Ambiguous` counts them. It also takes `RulesAssumption`: the rule that the
statement is present does not pass on Policies that are not a list. Without it the
theorem is false, because `_statements` answers None on both sides and counts that
as a difference (section 6); the instance satisfies it, and so does the rule of the
profile, which looks for a statement below `Policies[*]`.

`StandingHolds` bounds in a theorem what the run bounds by `MaxEdits = 2`: it holds for
every `MaxEdits`, at every state before the third change. Its invariant, `StandingInv`,
counts what it costs to keep a file from being read (`HiddenAtCost`). A file that
nobody touches is missed by a snapshot only if it is in the index when the others
are listed and was not when the index was listed, which is one change; if it is out of
the index when the second snapshot begins, that was another; and being missed
again is a third. What a snapshot does hold of an untouched file is the file, so
with `InContractHolds` and `EvidenceHolds` the working tree itself is what was
judged. `VerifierTypes` says that every code a call can record, whatever the
Templates, is in the catalogue, and that a call has decided exactly when it is over.

`ProcessGroupProofs` proves, for every set of descendants, every pipe size, every
output limit and either platform (`GroupAssumption`), `ResultHolds`
(`[]ResultIsTrue`), `SignalsHold` (`NoSignalAfterReap`) and `KilledGroupIsGone`
(`NothingLeftRunning` holds of every call in which SIGKILL was sent: nothing alive
in the group escapes it, and only what left the group can fork afterwards; the
violation of `process_left` is exactly the path without it). `BytesInv` accounts for
every byte: while a call reads, what was captured and what is in the pipe is what
was written, and from the end of the streams on nobody can write any more, because
nobody holds the pipe and it can only be inherited from a holder. `OrderInv`
says that the result is set when reading ends, that signals come later, and that the
child is collected only from the drain on: so a group is never signalled after
its leader was collected.

`ReviewRunProofs` proves, for every set of templates and Sources, every list of
targets and every limit (`RunAssumption`):

| Theorem | States |
|---|---|
| `TypeCorrect` | `[]TypeOK` |
| `ZeroIsEarned` | `[]ZeroMeansReviewed` |
| `NothingIsSkipped` | `[]NothingSilentlySkipped` |
| `NothingStale` | `[]NoStaleReview` |

`CoverInv` says where every candidate and every enabled Source is at each moment of
a run that was not stopped: waiting, done, or in `errors[]`. `OutcomeInv` says that
every failure that cost a template, a Source or a tool left a code that is not 0.
`FailureHasCode` puts them together at the end of the loop: if no Source
completed a template, then something was lost, and its code is the exit code.

`EvidenceChainProofs` proves, for every pull request, capture, manifest of the
model and number of replacements (`PullRequestAssumption`, `ChainAssumption`):

| Theorem | States |
|---|---|
| `ChainInvHolds` | `[]ChainInv`, the inductive invariant |
| `CompleteHolds` | `[]CompleteIsWholeChain` |
| `RegenerationHolds` | `[]LinkedMeansRegenerated` |
| `ApprovalInvHolds` | `[]ApprovalInv`, the inductive invariant of the approval |
| `ApprovalHolds` | `[]CountedApprovalWasInForce` |
| `ContradictionHolds` | `[]BrokenIsContradicted` |
| `ChainTypes` | `[]TypeOK` |

`ChainInv` says of each link that was checked that its codes are empty only if what it read,
as `read` remembers it, was what the manifest names. That survives
any replacement afterwards, since neither the codes nor the memory change; that
is why a chain whose parts were read at different moments can still be trusted
part by part. `CompleteIsAllLinked` and `CleanLinkHasNoCode` lead from the status of the chain
to empty codes. `GateRegenerates` is the argument of the gate: no
code means that every entry is usable, that every entry equals the regenerated
record of its key, and that no key of a record is without an entry, since no faulty
entry is there to be counted in its place; a key has one record
(`OneRecordPerKey`), so the presented records are the regenerated ones.

`ApprovalHolds` is about time: the pages are captured one after the other while reviews are
submitted, dismissed and overridden, and yet an approval the gate counts was in
force at some page. `ApprovalInv` says what the
captured pages show of the reviews as they really were.

1. The time stamps never contradict the order of the submissions.
2. Until the last page, the pages repeat a review, or hold exactly the first
   reviews of the listing, or hold one that has moved so far back that a later page
   repeats it. So pages without a repeat that reach the last one hold every review
   that is listed; `gate.py` refuses a repeat.
3. A captured approval is in force, or it is overridden by a later decision of its
   account that is captured as such or still will be.
4. So at the last page every approval that is not in force is followed by a
   captured decision with no earlier stamp, and every objection that stands is captured
   with no later approval.

The gate takes of each account only an approval that is strictly later than its
other decisions, so by 4 what it counts was in force. That the items of the pages
are the pages joined is an induction over the pages (`LeastNumber` again). The
position of a review in the listing is a number here (`Position`), counted from the
reviews that come before it, instead of a sorted sequence, so that the paging can
be reasoned about.

`ContradictionHolds` says when a chain is called BROKEN, the status that says evidence
contradicts the claim. An honest manifest about a whole capture, over artifacts
nobody replaced, has no code but those of the gate; of these, the ones that
contradict are given only if the pull request moved to another head, or a review
changed between two pages. Everything else (an answer that is not usable, an
account that is gone, no approval that counts) ends in INCOMPLETE or NOT_PROVEN. `ChainTypes` includes that every code and
every status is in its catalogue.

`IamVerdict` holds its theorems itself. A deployment has the groups whose branch it takes
(`Takes`, `Deploys`). `MatchIsCertain`: a "match" is decided by some group, and every deployment that
takes the branch of this group has an accepted text, whatever it chooses; a deployment that takes the other
branch of an `Fn::If` may have none, because either branch being dangerous is reported.
`MatchWithoutConditions`: where there is no `Fn::If`, a "match" holds of every deployment.
`SilenceIsCertain`: "no_match" is said only of an element that is known completely and of which
no deployment has an accepted text. The
last assumes that a choice has a blocker, as `_resolve_allowed_values` gives
every choice one.

`ReviewProofs` proves of every behaviour of `ReviewSpec`, with any Sources in any order:

| Theorem | States |
|---|---|
| `ReviewKeeps` | `[]ReviewInv` |
| `PublishedIsAcceptedHolds` | `[]PublishedIsAccepted` |
| `MergeIsFaithfulHolds` | `[]MergeIsFaithful` |

of every list of findings:

| Theorem | States |
|---|---|
| `Deduplicated`, `MergedWhole` | one finding of every key (and file), made of all that share it; those without a key as they are; and all the evidence |
| `EvidenceKept` | the bag of facts (source, rule, detail) is the same before the merge and in the report |
| `NumberedTwice`, `Rebuilt` | numbering again changes nothing, so a report is what the delta tool rebuilds it to |
| `WellFormed` | a report that was made is refused for its size only |
| `OneFindingAKey` | one finding a key, unless two spellings of a path have one normal form |
| `OnlyLoss` | with paths that stay in the workspace, a report is lost only to `CriticalWithoutRule` |

of every pair of reports with finitely many findings, whatever their tools, errors,
declarations and templates are:

| Theorem | States |
|---|---|
| `EveryFindingOnce` | every finding of both reports is in exactly one entry, on its own side |
| `MatchedIsUnique` | a matched pair shares file, resource and category, and is the only one of them on each side (stage 1) or has a fingerprint no other finding of its report has (stage 2) |
| `OneSidedIsEarned` | "New" and "Resolved" are said of a finding only if everything of the other report about the same resource and category is matched to others, and both reports can be compared for it |

and of every request:

| Theorem | States |
|---|---|
| `ExitIsTrue` | exit 0 exactly when nothing failed and the result is not too large; any other code is the one of the failure that precedes all others; a part is analyzed unless one of its own inputs failed or the result is too large |

They assume of the constants what `Finding` and `Review` state (`LexicalAssumption`,
`OddAssumption`, `NumberAssumption`, `PathAssumption`, `FileAssumption`), and that null and
a value of the wrong type are neither lists nor objects (`~IsAFunction(None)`,
`~IsAFunction(Odd)`), that null is not a finding, and for `ExitIsTrue` that null is no side and that
two failures of one input and one side are one (`Reportable`), as
`DeltaTool` makes them: it reads every input once.

`PublishedIsAccepted` and `MergeIsFaithful` speak of a report and of what was
collected for it, at a time when both reviews are over. They are not inductive: a
report that was changed after it was made, or collected findings that are not
sound, would break them one step later. `ReviewInv` adds that (`Collected`) what a
Source promises holds of all that was collected, and that (`ReportsMade`) a report
is `Printed` of its own lists from the moment it is made. It is inductive because
the steps of the head review leave the lists of the base alone (`Grows`), and a
Source of the head has no step once the head is printed (`SourcesAreNoSteps`).
TLC checked it on `report_delta` before it was proved. With `ReviewInv`, each of the
two properties is a statement about `Printed` (`AcceptedWhere`, `FaithfulWhere`).

Python's `sorted` is stable. Here a sort is a ranking of places (`StableSort`,
`SortedSet`): the place of an element is the number of elements before it, so that
what a sort does follows from counting (`RankedLists`, `ListsOnce`, `OneListing`)
and no induction over the list is needed. A sort by keys is a bijection of places
that ascends (`ArrangedKeeps`), and one of what ascends already is the identity
(`ArrangedAlready`); the keys of a report do not contain the ids, so numbering
twice is numbering once. `FlattenSeq` is a fold: `FlattenMadeOf` says of its result
that its places are the places of its parts, each once, and takes the least
number of parts for which this fails in place of an induction.

That a merge keeps all evidence is `Same`: a bijection of places under which both
lists hold the same. It is kept by putting a list in order (`ArrangedSame`), by
joining lists (`FlattenSame`) and class by class (`SameByClass`), and a merge is made of
these three: the findings of each file and key, put in order, their evidence
joined, ordered and joined again. `SameBags` turns `Same` into equality of bags. A finding `Represents`
its group (`MergedGroup`): its key, its sources, severity and confidence, its evidence, and
that it is valid unless the group is `CriticalWithoutRule` (`MergedValid`). A report is
lost only when a finding in it is not valid or a path has no normal form, and
both are traced back to the found findings (`OnlyLoss`).

The three theorems about matching are what the docstrings of `delta.py` promise, as facts of
`match_and_classify` and not of a run: `report_delta` checks with `OneSidedIsReal`
that such an entry is also true of the two revisions. A group is either one
matched pair or the result of `ByFingerprint` (`GroupIs`), and the findings of
different groups differ in what they are about, so each theorem is one about a
group (`GroupOnce`, `MatchedOfGroup`, `OneSidedOfGroup`) and a step from the group to
the report. `SinglesAreAlone` is the fact all three rest on: a finding that
occurs once on its side is the only one with its fingerprint, so no finding is in
two pairs, and one that is left when the other side is used up has no
counterpart. `Known` lists what must have been equal or clean on both sides:
integrity, declarations, the file reviewed, its source enabled and without an
error, its tools usable and of one version, the synthesis of a synthesized file.

`ExitIsTrue` is the general part of `ZeroMeansCompared`. Failures are told by their
input and side (`FailureKeys`), so the order of `_ordered_failures` lists each once
(`FailuresListed`), and a part is blocked exactly by a failure among its inputs
(`FirstFailure`). What `ZeroMeansCompared` adds is which files fail.

Only model-checked are `NothingSilent`, `OneSidedIsReal`, `DifferencesAreCovered` and
`ZeroMeansCompared` of `ReviewDelta`, and that `ReviewDelta` implements `ReviewSpec`: its
trees are of any depth and are walked by recursive operators, and the prover takes
no module that declares one. Out of its reach are also liveness under fairness
(`BrokenIsRecovered`, `CallEnds`, `BothEnd`) and induction over data, except over
numbers, where the least number that would be an exception takes its place.

## 5. Plan

In this order; each with an MC module where it needs one, a configuration and
the properties named.

1. *done* `EvidenceLog`, `EvidenceStore`, its runs and proofs.
2. *done* `ProcessGroup`, its runs and proofs.
3. *done* `ReviewRun`, its runs and proofs.
4. *done* `EvidenceCapture`, `EvidenceReplay`, its runs and proofs.
   Next here: the S7 rules as operators over the facts of a bundle, with facts
   that are missing, and the verdict of a scenario: more evidence never turns a
   settled criterion around, a required impostor fails, and a spoof scenario is
   never proven by absence.
5. *done* `ChainStatus`, `HumanGate`, `PullRequest`, `EvidenceChain`, its run and
   proofs, for every number of reviews.
6. *done* `TemplateBoundary`, `RemediationVerify`, its run and proofs.
7. *done* Findings and delta, from `Finding` to `DeltaTool`, `Review`, `ReviewDelta`, and
   proofs of the merge, the report, the matching and the exit code.
8. *done* The six Sources, with their references.
9. Left: the path guard with its temporary files and signal handlers;
   the assembly of the single-Source skills.

## 6. Findings

* `store_undone`: a revision can be quarantined while its writer is alive. The
  writer then seals it, the quarantine record becomes invalid, and after a
  quarantine of that record's revision the store verifies with the first
  revision VALID and its evidence readable, although the docstring says a
  quarantined revision's evidence is unusable.
* `process_left`: after a timeout a descendant that ignores SIGTERM survives if
  the tool itself exits within the grace period, because the wait is for the
  tool and not for the group. While it holds the pipe, the last `communicate()`
  does not return (`Hung`). A descendant that left the group survives as well, and hangs
  the last `communicate()` in the same way; no signal to the group could reach it.
* `review_synthesis`: the partial report of a run that a failed `cdk synth`
  ended says that synthesis ran.

* `evidence_exit`: a revision directory that is gone, or has become a symbolic
  link, after the snapshot was taken makes `Snapshot.read` raise `StoreError`,
  which `main()` of the replay does not catch: a traceback and exit status 1
  instead of the documented 3.

One remark that is not a violation: the evaluator says that any change after the
snapshot refuses the evaluation, but `Snapshot.read` compares only the manifest
and the two files of each bound evidence, and S7-01 is judged from a second
`verify()`. A stray file in the revision, or an unsealed revision, changes S7-01 and
is not refused; replaying it later at the same snapshot gives `RESULT_MISMATCH`.
`MismatchMeansRace` says that this, a change during a replay, is the only way.
It is stated for replays that bound something: two replays that bound nothing
have the same snapshot whatever made their groups fail.

Remarks on the remediation verifier, none of them a violation. Section 5 of
`docs/v2/phase1/design.md` asks for a target of mode 100644; `REGULAR_MODES`
also takes 100755, and a change of mode is reported in either case. With
`--worktree`, `worktree_parent` is the commit HEAD had when it was resolved, and
nothing notices if HEAD moves afterwards. `_statements` answers None when Policies
is not a list, and None on both sides counts as a difference; the instance takes
cfn-guard to find no statement there, so that the rule decides first.

Remarks on reviews and the delta tool. Each is an exact exception in a property or
a case of the instance, so that the property still says everything else:

* Two findings of the agent that are each accepted, `Validity` of severity HIGH
  without a rule and `BestPractice` of severity CRITICAL, on the same resource and
  category, merge into `Validity` of severity CRITICAL without a rule. The schema
  forbids that, `build_report` raises `SchemaViolationError`, and since that class is
  not in `PARTIAL_REPORT_ERROR_CLASSES` the whole report is lost, although the
  docstring of `agentin.py` says that one bad entry never costs another
  (`CriticalWithoutRule` in `MergeIsFaithful`).
* A path that is absolute or leaves the workspace is accepted from the agent, and
  `normalize_output_path` (`report.py:303`) rejects it only when the report is made: again
  one bad entry costs the whole report (`PathOf[f.File] = None` in `MergeIsFaithful`).
* Nothing limits what a review prints, and the delta tool refuses a report of more
  than `MAX_REPORT_FINDINGS` findings (`reportcheck.py:311`): `PublishedIsAccepted` says that
  this is the only refusal.
* Findings are merged per file as their Source spelled it. An agent that writes
  `./a.yaml` gets a bucket of its own, the spelling is normalised afterwards, and
  the report has two findings of one key, which the delta tool refuses as
  `dedup_invariant_violated` (`Respelled` in `PublishedIsAccepted`).
* `run_cfn_guard.py` merges the findings of all its targets together, whereas
  `run_iam_scan.py` and `run_iac_review.py` merge per template.
* `Policies` that is not a list or holds an `Fn::If` in place of a policy yields no
  site; a `PolicyDocument` that is an `Fn::If` or another function yields no statements; a
  `Statement`, or an entry of it, that is a function other than `Fn::If`, or an `Fn::If` nested
  deeper than the limit, yields none. Nothing is disclosed in these cases, although
  `docs/architecture.md:310-315` says that Layer 1 discloses what it could not
  resolve. The condition keys of a statement are united over the branches of its `Condition`, so
  that the rules about a missing one are silent of the branch that has none. `EvidentOf` is
  `NothingSilent` without these cases, each of which the instance has; `Unseen` names the consequence in
  `OneSidedIsReal`: a `PolicyDocument` that grants `*` on `*` and is put under an
  `Fn::If` is called Resolved. Also not looked at, and no part of the reference: `NotAction`, and a list nested
  in an `Fn::If` among statements. A combination is dangerous within one document only
  (`privesc_lambda_passrole`), so one that is split between two inline policies of a role is not reported.
* cfn-lint that exits with the code of findings and writes nothing counts as a
  run without findings (`has_findings` is computed and never used), so that everything it found before looks
  Resolved (`blind` in `Unseen`, for evidence of cfn-lint only).
* Only the first cycle of references is reported. A cycle that is still there may
  be Resolved at one resource and New at another; `docs/delta-schema.md` says that
  Resolved is no evidence of a fix. References inside `Fn::Sub` are no edges.
* A condition that is used outside `Properties` (in `UpdatePolicy` or `Metadata`) counts as unused.

## 7. Not modelled

* The S7 rules and the artifacts of an evaluation, and W2: planned, see 5. Of the
  criteria only S7-01 and S7-04 are modelled.
* The path guard: every refusal is a function of a path and the file system and
  changes nothing; its temporary files and signal handlers are planned.
* The single-Source skills: one Source, one template, one report, without an order
  of steps. Their detectors are modelled.
* The benchmark harness and the repository's scripts, which are not part of the
  product.
* The conversion to SARIF and the validation of the category map.
* Texts: the parsing of YAML and JSON, the patterns over texts, wording,
  formatting and escaping, the published JSON schemas. Strict decoding in
  `proc.py` is one of them: a tool whose output is not UTF-8 raises
  `UnicodeDecodeError`, which no property covers because bytes are counted only.
* The lists a detector reports without judgement (`extract_policy_sites`, the
  attachments) and the statistics of the rules.
* Three changes of the index at the right moments, see `StandingChangeIsSeen` in 3
  and `StandingHolds` in 4.
