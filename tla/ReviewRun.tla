----------------------------- MODULE ReviewRun -----------------------------
(***************************************************************************)
(* One run of skills/iac-review/scripts/run_iac_review.py under            *)
(* iacreview/bootstrap.py's run_entry_point: validate, discover (with the  *)
(* gated cdk synth), verify the tools, run every Source over every         *)
(* Template, take in the agent's findings, and end with an exit code and a *)
(* full, a partial or no report.                                           *)
(*                                                                         *)
(* What can go wrong at each step is the environment's choice.  A set of   *)
(* paths stands for a sorted list, an entry of errors[] for what it was    *)
(* made for and nothing else.                                              *)
(***************************************************************************)
EXTENDS Integers, FiniteSets, Sequences

CONSTANTS
    Templates,      \* files that may be candidates
    ToolSources,    \* Sources that need an external tool
    OwnSources,     \* Sources that are this program's own detectors
    TargetLists,    \* the --target values of the runs that are checked
    MaxTemplates    \* MAX_AGGREGATE_BYTES, in files of one size

Sources == ToolSources \cup OwnSources
Nobody == "none"        \* no Template

\* A --target: a file, or a directory with the templates outside cdk.out,
\* those under cdk.out now, and those a cdk synth would leave there.
Targets == [dir : BOOLEAN, cdk : BOOLEAN, plain : SUBSET Templates,
            out : SUBSET Templates, fresh : SUBSET Templates]

ASSUME RunAssumption ==
    /\ TargetLists \subseteq Seq(Targets)
    /\ MaxTemplates \in Nat
    /\ ToolSources \cap OwnSources = {}
    /\ Nobody \notin Templates

VARIABLES
    targets, enabled, confirm,  \* the command line
    pc,             \* step of the run
    next,           \* the target that discovery looks at
    standalone, synthesized,    \* candidate templates
    detected,       \* cdk_detected
    synthDone,      \* history: targets whose cdk synth succeeded
    unverified,     \* tool Sources that are still to be verified
    specs,          \* Sources that can be called
    todo,           \* candidates not looked at yet
    current,        \* the template that is reviewed, and the Sources
    calls,          \* that are still to be called for it
    charged,        \* aggregate_bytes
    reviewed, succeeded,
    ran,            \* history: <<source, template>> that completed
    errors,         \* what the entries of errors[] were made for
    first,          \* the first exit code recorded that is not OK
    exit, report    \* the outcome

input == <<targets, enabled, confirm>>
found == <<next, standalone, synthesized, detected, synthDone>>
tools == <<unverified, specs>>
loop == <<todo, current, calls, charged, reviewed, succeeded, ran>>
record == <<errors, first>>
outcome == <<exit, report>>
vars == <<input, pc, found, tools, loop, record, outcome>>

Codes == 0..8
NoReport == [kind |-> "none"]

Record(what, code) ==
    /\ errors' = errors \cup {what}
    /\ first' = IF first = 0 THEN code ELSE first

Init ==
    /\ targets \in TargetLists
    /\ enabled \in (SUBSET Sources) \ {{}}
    /\ confirm \in BOOLEAN
    /\ pc = "validate"
    /\ next = 1
    /\ standalone = {} /\ synthesized = {}
    /\ detected = FALSE
    /\ synthDone = {}
    /\ unverified = {} /\ specs = {}
    /\ todo = {} /\ current = Nobody /\ calls = {} /\ charged = 0
    /\ reviewed = {} /\ succeeded = {} /\ ran = {}
    /\ errors = {} /\ first = 0
    /\ exit = -1 /\ report = NoReport

-----------------------------------------------------------------------------
(* How a run ends *)

\* _cdk_synthesis_outcome(): from the layout and the flag alone.
Synthesis(cdkSeen) ==
             IF ~ cdkSeen THEN "not_applicable"
             ELSE IF ~ confirm THEN "skipped_unconfirmed"
             ELSE "ran"

\* A candidate that was named directly and is also under cdk.out counts as
\* synthesized.
Files == standalone \ synthesized

Report(kind, cdkSeen) == [kind |-> kind,
                          files |-> Files \cap reviewed,
                          synthesized |-> synthesized \cap reviewed,
                          synthesis |-> Synthesis(cdkSeen)]

\* An IacReviewError that leaves run(): the entry point exits with its code
\* and prints a partial report for PARTIAL_REPORT_ERROR_CLASSES.
RaisePartial(what, code, cdkSeen) ==
    /\ pc' = "done" /\ exit' = code
    /\ Record(what, code)
    /\ report' = Report("partial", cdkSeen)

Raise(code) ==
    /\ pc' = "done" /\ exit' = code
    /\ UNCHANGED <<record, report>>

\* Refused arguments: no work was started.
Refuse(code) ==
    /\ pc = "validate"
    /\ Raise(code)
    /\ UNCHANGED <<input, found, tools, loop>>

Validate ==
    /\ pc = "validate"
    /\ pc' = "discover"
    /\ UNCHANGED <<input, found, tools, loop, record, outcome>>

(* Any exception that no step handles, a partial report that cannot be     *)
(* assembled among them, as it is built in run_entry_point()'s handler:    *)
(* exit 1, stdout stays empty.                                             *)
Crash ==
    /\ pc \notin {"validate", "done"}
    /\ Raise(1)
    /\ UNCHANGED <<input, found, tools, loop>>

-----------------------------------------------------------------------------
(* _discover(), one target at a time *)

Target == targets[next]
Synth == Target.dir /\ Target.cdk /\ confirm
Discovering == pc = "discover" /\ next <= Len(targets)

(* A file, or a directory without a confirmed synthesis: cdk.out as it is *)
Scan ==
    /\ Discovering
    /\ ~ Synth
    /\ next' = next + 1
    /\ standalone' = standalone \cup Target.plain
    /\ synthesized' = synthesized \cup Target.out
    /\ detected' = (detected \/ Target.cdk)
    /\ IF Target.cdk THEN Record(<<"synthesis skipped">>, 0)
       ELSE UNCHANGED record
    /\ UNCHANGED <<input, pc, synthDone, tools, loop, outcome>>

(* A confirmed cdk synth that succeeds: cdk.out as it leaves it *)
SynthRuns ==
    /\ Discovering
    /\ Synth
    /\ next' = next + 1
    /\ standalone' = standalone \cup Target.plain
    /\ synthesized' = synthesized \cup Target.fresh
    /\ detected' = TRUE
    /\ synthDone' = synthDone \cup {next}
    /\ UNCHANGED <<input, pc, tools, loop, record, outcome>>

\* Faulty variant: a failed synth falls back to the old cdk.out.
SynthFails_FallBack(code) ==
    /\ Discovering
    /\ Synth
    /\ next' = next + 1
    /\ standalone' = standalone \cup Target.plain
    /\ synthesized' = synthesized \cup Target.out
    /\ detected' = TRUE
    /\ Record(<<"cdk", code>>, code)
    /\ UNCHANGED <<input, pc, synthDone, tools, loop, outcome>>

(* The CDK CLI is absent or too old, or cdk synth fails or times out; the  *)
(* target was detected before.                                             *)
SynthFails(code) ==
    /\ Discovering
    /\ Synth
    /\ detected' = TRUE
    /\ RaisePartial(<<"cdk", code>>, code, TRUE)
    /\ UNCHANGED <<input, next, standalone, synthesized, synthDone, tools,
                   loop>>

(* The directory disappeared after it was validated *)
TargetGone ==
    /\ Discovering
    /\ Target.dir
    /\ Raise(3)
    /\ UNCHANGED <<input, found, tools, loop>>

Candidates == Files \cup synthesized

Discovered ==
    /\ pc = "discover" /\ next > Len(targets)
    /\ IF Candidates = {}
       THEN /\ RaisePartial(<<"targets">>, 8, detected)
            /\ UNCHANGED <<todo, unverified, specs>>
       ELSE /\ pc' = "verify"
            /\ todo' = Candidates
            /\ unverified' = enabled \cap ToolSources
            /\ specs' = enabled \cap OwnSources
            /\ UNCHANGED <<record, outcome>>
    /\ UNCHANGED <<input, found, current, calls, charged, reviewed,
                   succeeded, ran>>

-----------------------------------------------------------------------------
(* _verify_tools() and _build_specs() *)

ToolUsable(s) ==
    /\ pc = "verify" /\ s \in unverified
    /\ unverified' = unverified \ {s}
    /\ specs' = specs \cup {s}
    /\ UNCHANGED <<input, pc, found, loop, record, outcome>>

ToolUnusable(s, code) ==
    /\ pc = "verify" /\ s \in unverified
    /\ unverified' = unverified \ {s}
    /\ Record(<<"tool", s>>, code)
    /\ UNCHANGED <<input, pc, found, specs, loop, outcome>>

Built ==
    /\ pc = "verify" /\ unverified = {}
    /\ pc' = "review"
    /\ UNCHANGED <<input, found, tools, loop, record, outcome>>

-----------------------------------------------------------------------------
(* The loop over the candidates, standalone ones first *)

NextUp(t) == /\ pc = "review" /\ current = Nobody
             /\ t \in todo
             /\ t \in synthesized => todo \subseteq synthesized

\* Faulty variant: the aggregate limit is not enforced.
Charge_NoLimit(size) == charged' = charged + size

\* _charge_aggregate(): a file whose size cannot be read is charged nothing.
Charge(size) == charged + size <= MaxTemplates /\ charged' = charged + size

TooLarge(t) ==
    /\ NextUp(t)
    /\ charged + 1 > MaxTemplates
    /\ RaisePartial(<<"aggregate", t>>, 3, detected)
    /\ UNCHANGED <<input, found, tools, loop>>

(* load_template() refuses the file: reported, and the loop goes on *)
LoadFails(t, size, code) ==
    /\ NextUp(t)
    /\ Charge(size)
    /\ todo' = todo \ {t}
    /\ Record(<<"template", t>>, code)
    /\ UNCHANGED <<input, pc, found, tools, current, calls, reviewed,
                   succeeded, ran, outcome>>

Load(t, size) ==
    /\ NextUp(t)
    /\ Charge(size)
    /\ todo' = todo \ {t}
    /\ current' = t
    /\ calls' = specs
    /\ reviewed' = reviewed \cup {t}
    /\ UNCHANGED <<input, pc, found, tools, succeeded, ran, record, outcome>>

(* collect(): a Source completes, perhaps degraded and reporting so *)
SourceRuns(s, complains) ==
    /\ pc = "review" /\ s \in calls
    /\ calls' = calls \ {s}
    /\ succeeded' = succeeded \cup {s}
    /\ ran' = ran \cup {<<s, current>>}
    /\ IF complains THEN \E code \in {1, 5, 6} :
                            Record(<<"source", s, current>>, code)
       ELSE UNCHANGED record
    /\ UNCHANGED <<input, pc, found, tools, todo, current, charged, reviewed,
                   outcome>>

\* Faulty variant: a failing Source ends the work on its Template.
SourceFails_Stops(s, code) ==
    /\ pc = "review" /\ s \in calls
    /\ calls' = {}
    /\ Record(<<"source", s, current>>, code)
    /\ UNCHANGED <<input, pc, found, tools, todo, current, charged, reviewed,
                   succeeded, ran, outcome>>

(* ... or it gives up, or raises what it may or may not raise: one entry,  *)
(* and the next Source is called.  The entry of the code carries the name  *)
(* of the Source alone; the Template is what it was made for.              *)
SourceFails(s, code) ==
    /\ pc = "review" /\ s \in calls
    /\ calls' = calls \ {s}
    /\ Record(<<"source", s, current>>, code)
    /\ UNCHANGED <<input, pc, found, tools, todo, current, charged, reviewed,
                   succeeded, ran, outcome>>

Collected ==
    /\ pc = "review" /\ current # Nobody /\ calls = {}
    /\ current' = Nobody
    /\ UNCHANGED <<input, pc, found, tools, todo, calls, charged, reviewed,
                   succeeded, ran, record, outcome>>

\* Faulty variant: a Template that was loaded counts as reviewed.
ExitCode_AnyReviewed == IF reviewed # {} THEN 0 ELSE first'

\* exit_code(): OK when some Source completed some Template, otherwise what
\* the first failure that is not OK justifies.
ExitCode == IF reviewed # {} /\ succeeded # {} THEN 0 ELSE first'

(* The agent's findings, if any: a file of them that is refused is an      *)
(* entry.  Then the report.                                                *)
Finish(agentComplains) ==
    /\ pc = "review" /\ todo = {} /\ current = Nobody
    /\ pc' = "done"
    /\ IF agentComplains THEN Record(<<"agent">>, 0) ELSE UNCHANGED record
    /\ exit' = ExitCode
    /\ report' = Report("full", detected)
    /\ UNCHANGED <<input, found, tools, loop>>

(* ... or build_report() refuses a Finding or a path of it: the whole      *)
(* report is lost, and schema_violation has no partial one.                *)
ReportRefused ==
    /\ pc = "review" /\ todo = {} /\ current = Nobody
    /\ Raise(4)
    /\ UNCHANGED <<input, found, tools, loop>>

Discover == \/ Scan \/ SynthRuns \/ TargetGone \/ Discovered
            \/ \E code \in {5, 6} : SynthFails(code)

Verify == \/ \E s \in ToolSources : \/ ToolUsable(s)
                                    \/ \E code \in {5, 6} :
                                          ToolUnusable(s, code)
          \/ Built

Review == \/ \E t \in Templates, size \in {0, 1} :
                \/ Load(t, size)
                \/ \E code \in {3, 4, 5, 8} : LoadFails(t, size, code)
          \/ \E t \in Templates : TooLarge(t)
          \/ \E s \in Sources : \/ \E b \in BOOLEAN : SourceRuns(s, b)
                                \/ \E code \in {1, 5, 6} : SourceFails(s, code)
          \/ Collected
          \/ \E b \in BOOLEAN : Finish(b)
          \/ ReportRefused

Next == \/ \E code \in {1, 2, 3, 7} : Refuse(code)
        \/ Validate
        \/ Crash
        \/ Discover
        \/ Verify
        \/ Review

Spec == Init /\ [][Next]_vars

-----------------------------------------------------------------------------
(* Types; a run has an exit code exactly when it is over.                  *)
TypeOK ==
    /\ targets \in TargetLists /\ enabled \subseteq Sources
    /\ confirm \in BOOLEAN /\ detected \in BOOLEAN
    /\ pc \in {"validate", "discover", "verify", "review", "done"}
    /\ next \in 1..(Len(targets) + 1) /\ synthDone \subseteq 1..Len(targets)
    /\ standalone \subseteq Templates /\ synthesized \subseteq Templates
    /\ unverified \subseteq ToolSources /\ specs \subseteq Sources
    /\ todo \subseteq Templates /\ current \in Templates \cup {Nobody}
    /\ calls \subseteq specs /\ charged \in 0..MaxTemplates
    /\ reviewed \subseteq Templates /\ succeeded \subseteq specs
    /\ ran \subseteq Sources \X Templates
    /\ first \in Codes
    /\ exit \in {-1} \cup Codes /\ (exit = -1 <=> pc # "done")

(* Exit code 0 of a run that was not stopped: exactly when at least one    *)
(* Template was completed by at least one Source.                          *)
ZeroMeansReviewed == /\ exit = 0 => report.kind = "full"
                     /\ report.kind = "full" => (exit = 0 <=> ran # {})

(* "The report then says what was reviewed and what was not": in a full    *)
(* report every candidate is reviewed or has an entry in errors[], and for *)
(* every reviewed Template every enabled Source completed, or an entry was *)
(* made for that pair, or for the Source's tool.                           *)
NothingSilentlySkipped ==
    report.kind = "full" =>
        /\ \A t \in Candidates : t \in reviewed \/ <<"template", t>> \in errors
        /\ \A t \in reviewed, s \in enabled :
              \/ <<s, t>> \in ran
              \/ <<"source", s, t>> \in errors
              \/ <<"tool", s>> \in errors

(* In a run that confirmed, no Template is reviewed unless cdk synth       *)
(* succeeded for every CDK target, whatever the others hold: a failed      *)
(* synth never falls back to what an earlier one left in cdk.out.          *)
NoStaleReview ==
    confirm /\ reviewed # {} =>
        \A i \in 1..Len(targets) :
            targets[i].dir /\ targets[i].cdk => i \in synthDone

(* "Reaching the report at all means synthesis succeeded": a report says   *)
(* that synthesis ran only when it did, for every CDK target.              *)
RanMeansSynthesized ==
    report.kind # "none" =>
        (report.synthesis = "ran" =>
            \A i \in 1..Len(targets) :
                targets[i].dir /\ targets[i].cdk => i \in synthDone)
=============================================================================
