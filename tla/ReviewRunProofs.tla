-------------------------- MODULE ReviewRunProofs --------------------------
(***************************************************************************)
(* Proofs about ReviewRun, for every set of Templates and Sources, every   *)
(* list of targets and every aggregate limit.                              *)
(***************************************************************************)
EXTENDS ReviewRun, TLAPS

-----------------------------------------------------------------------------
(* The inductive invariant                                                 *)

\* What has not begun yet: there is no outcome before the end, no Template
\* is reviewed before the loop, and no Source is called without a Template.
PhaseInv ==
    /\ pc # "done" => report = NoReport
    /\ pc \in {"validate", "discover", "verify"} => reviewed = {}
    /\ current = Nobody => calls = {}
    /\ current # Nobody => current \in reviewed
    /\ pc = "review" => unverified = {}

\* The loop starts when every target was looked at, and a CDK target that
\* was passed over with confirm set was synthesized.
DiscoverInv ==
    /\ enabled # {}
    /\ pc \in {"verify", "review"} \/ reviewed # {} => next > Len(targets)
    /\ confirm => \A i \in 1..Len(targets) :
          i < next /\ targets[i].dir /\ targets[i].cdk => i \in synthDone

\* Past discovery, in a run that was not stopped.
Working == pc \in {"verify", "review"} \/ report.kind = "full"

\* Where a candidate and an enabled Source can be.
CoverInv ==
    /\ Working => /\ Candidates # {}
                  /\ \A t \in Candidates : \/ t \in todo \cup reviewed
                                           \/ <<"template", t>> \in errors
                  /\ \A s \in enabled : \/ s \in unverified \cup specs
                                        \/ <<"tool", s>> \in errors
    /\ report.kind = "full" =>
          todo = {} /\ unverified = {} /\ current = Nobody
    /\ \A t \in reviewed, s \in specs : \/ t = current /\ s \in calls
                                        \/ <<s, t>> \in ran
                                        \/ <<"source", s, t>> \in errors

\* Every failure that costs a Template, a Source or a tool is recorded with
\* a code that is not 0, and what completed was reviewed.
OutcomeInv ==
    /\ \A t \in Templates : <<"template", t>> \in errors => first # 0
    /\ \A s \in Sources : <<"tool", s>> \in errors => first # 0
    /\ \A s \in Sources, t \in Templates :
          <<"source", s, t>> \in errors => first # 0
    /\ ran = {} <=> succeeded = {}
    /\ ran # {} => reviewed # {}
    /\ ZeroMeansReviewed

IInv == TypeOK /\ PhaseInv /\ DiscoverInv /\ CoverInv /\ OutcomeInv

-----------------------------------------------------------------------------
(* Facts used in several steps                                             *)

LEMMA SynthesisKinds ==
    \A b : Report("partial", b).kind = "partial"
           /\ Report("full", b).kind = "full" /\ NoReport.kind = "none"
BY DEF Report, NoReport

\* What Record() does to errors and to first.
LEMMA Recorded ==
    ASSUME NEW what, NEW code \in Codes, Record(what, code), first \in Codes
    PROVE  /\ errors \subseteq errors' /\ what \in errors'
           /\ \A e : e \in errors' => e \in errors \/ e = what
           /\ first' \in Codes
           /\ first # 0 => first' # 0
           /\ code # 0 => first' # 0
BY DEF Record, Codes

LEMMA InitHolds == ASSUME RunAssumption, Init PROVE IInv
<1> USE DEF Init
<1>1. targets \in Seq(Targets)
  BY DEF RunAssumption
<1>2. Len(targets) \in Nat
  BY <1>1
<1>3. next \in 1..(Len(targets) + 1) /\ charged \in 0..MaxTemplates
  BY <1>2 DEF RunAssumption
<1>4. exit \in {-1} \cup Codes /\ first \in Codes /\ (exit = -1 <=> pc # "done")
  BY DEF Codes
<1>5. TypeOK
  BY <1>3, <1>4 DEF TypeOK
<1>6. PhaseInv /\ DiscoverInv
  BY <1>2 DEF PhaseInv, DiscoverInv
<1>7. CoverInv /\ OutcomeInv
  BY DEF CoverInv, Working, OutcomeInv, ZeroMeansReviewed, NoReport
<1> QED
  BY <1>5, <1>6, <1>7 DEF IInv

\* A run that stops without a report of its own keeps everything.
LEMMA Stopped ==
    ASSUME RunAssumption, IInv, NEW code \in Codes \ {0}, Raise(code),
           pc # "done", UNCHANGED <<input, found, tools, loop>>
    PROVE  IInv'
<1> USE DEF Raise, input, found, tools, loop, record, IInv, NoReport
<1>1. TypeOK'
  BY DEF TypeOK, Codes
<1>2. PhaseInv' /\ DiscoverInv'
  BY DEF PhaseInv, DiscoverInv
<1>3. report' = NoReport
  BY DEF PhaseInv
<1>4. CoverInv'
  BY <1>3 DEF CoverInv, Working
<1>5. OutcomeInv'
  BY <1>3 DEF OutcomeInv, ZeroMeansReviewed, Codes
<1> QED
  BY <1>1, <1>2, <1>4, <1>5

\* A run that stops with a partial report: its code is not 0.
LEMMA StoppedPartial ==
    ASSUME RunAssumption, IInv, NEW what, NEW code \in Codes \ {0}, NEW b,
           RaisePartial(what, code, b), pc # "done", detected' \in BOOLEAN,
           UNCHANGED <<input, next, standalone, synthesized, synthDone,
                       tools, loop>>
    PROVE  IInv'
<1> USE DEF input, tools, loop, IInv
<1>0. first \in Codes
  BY DEF TypeOK
<1>1. /\ errors \subseteq errors' /\ first' \in Codes /\ first' # 0
      /\ pc' = "done" /\ exit' = code /\ report'.kind = "partial"
  BY <1>0, Recorded, SynthesisKinds DEF RaisePartial
<1>2. TypeOK'
  BY <1>1 DEF TypeOK, Codes
<1>3. PhaseInv' /\ DiscoverInv'
  BY <1>1 DEF PhaseInv, DiscoverInv
<1>4. ~ Working'
  BY <1>1 DEF Working
<1>5. CoverInv'
  BY <1>1, <1>4 DEF CoverInv
<1>6. OutcomeInv'
  BY <1>1 DEF OutcomeInv, ZeroMeansReviewed
<1> QED
  BY <1>2, <1>3, <1>5, <1>6

-----------------------------------------------------------------------------
(* Discovery                                                               *)

LEMMA TargetIsTyped ==
    ASSUME RunAssumption, TypeOK, next <= Len(targets)
    PROVE  /\ Len(targets) \in Nat /\ next \in 1..Len(targets)
           /\ Target.dir \in BOOLEAN /\ Target.cdk \in BOOLEAN
           /\ Target.plain \subseteq Templates /\ Target.out \subseteq Templates
           /\ Target.fresh \subseteq Templates
<1>1. targets \in Seq(Targets) /\ next \in 1..(Len(targets) + 1)
  BY DEF RunAssumption, TypeOK
<1>2. Len(targets) \in Nat /\ next \in 1..Len(targets)
  BY <1>1
<1>3. Target \in Targets
  BY <1>1, <1>2 DEF Target
<1> QED
  BY <1>2, <1>3 DEF Targets

LEMMA ScanStep == ASSUME RunAssumption, IInv, Scan PROVE IInv'
<1> USE DEF IInv
<1>2. /\ pc = "discover" /\ next <= Len(targets) /\ ~ Synth
      /\ next' = next + 1
      /\ standalone' = standalone \cup Target.plain
      /\ synthesized' = synthesized \cup Target.out
      /\ detected' = (detected \/ Target.cdk)
      /\ UNCHANGED <<targets, enabled, confirm, pc, synthDone, unverified,
                     specs, todo, current, calls, charged, reviewed,
                     succeeded, ran, exit, report>>
  BY DEF Scan, Discovering, input, tools, loop, outcome
<1>1. /\ Len(targets) \in Nat /\ next \in 1..Len(targets)
      /\ Target.dir \in BOOLEAN /\ Target.cdk \in BOOLEAN
      /\ Target.plain \subseteq Templates /\ Target.out \subseteq Templates
  BY <1>2, TargetIsTyped
<1>3. /\ errors \subseteq errors' /\ first' \in Codes
      /\ \A e : e \in errors' => e \in errors \/ e = <<"synthesis skipped">>
      /\ first # 0 => first' # 0
  <2>1. 0 \in Codes /\ first \in Codes
    BY DEF TypeOK, Codes
  <2>2. CASE Target.cdk
    BY <2>1, <2>2, Recorded DEF Scan
  <2>3. CASE ~ Target.cdk
    <3>1. errors' = errors /\ first' = first
      BY <2>3 DEF Scan, record
    <3> QED
      BY <2>1, <3>1
  <2> QED
    BY <2>2, <2>3
<1>4. TypeOK'
  <2>1. detected' \in BOOLEAN
    BY <1>1, <1>2 DEF TypeOK
  <2>2. next' \in 1..(Len(targets) + 1)
    BY <1>1, <1>2
  <2> QED
    BY <1>1, <1>2, <1>3, <2>1, <2>2 DEF TypeOK
<1>5. PhaseInv'
  BY <1>2 DEF PhaseInv
<1>6. DiscoverInv'
  <2>1. ASSUME confirm, NEW i \in 1..Len(targets), i < next + 1,
               targets[i].dir, targets[i].cdk
        PROVE  i \in synthDone
    <3>1. i # next
      BY <1>2, <2>1 DEF Synth, Target
    <3>2. i < next
      BY <1>1, <2>1, <3>1
    <3> QED
      BY <2>1, <3>2 DEF DiscoverInv
  <2> QED
    BY <1>1, <1>2, <2>1 DEF DiscoverInv, PhaseInv
<1>7. ~ Working'
  BY <1>2 DEF Working, PhaseInv, NoReport
<1>8. CoverInv'
  BY <1>2, <1>3, <1>7 DEF CoverInv, Working
<1>9. OutcomeInv'
  BY <1>2, <1>3 DEF OutcomeInv, ZeroMeansReviewed
<1> QED
  BY <1>4, <1>5, <1>6, <1>8, <1>9

LEMMA SynthRunsStep == ASSUME RunAssumption, IInv, SynthRuns PROVE IInv'
<1> USE DEF IInv
<1>1. /\ pc = "discover" /\ next <= Len(targets)
      /\ next' = next + 1
      /\ standalone' = standalone \cup Target.plain
      /\ synthesized' = synthesized \cup Target.fresh
      /\ detected' = TRUE
      /\ synthDone' = synthDone \cup {next}
      /\ UNCHANGED <<targets, enabled, confirm, pc, unverified, specs, todo,
                     current, calls, charged, reviewed, succeeded, ran,
                     errors, first, exit, report>>
  BY DEF SynthRuns, Discovering, input, tools, loop, record, outcome
<1>2. /\ Len(targets) \in Nat /\ next \in 1..Len(targets)
      /\ Target.plain \subseteq Templates /\ Target.fresh \subseteq Templates
  BY <1>1, TargetIsTyped
<1>3. TypeOK'
  <2>1. next' \in 1..(Len(targets) + 1)
    BY <1>1, <1>2
  <2> QED
    BY <1>1, <1>2, <2>1 DEF TypeOK
<1>4. PhaseInv'
  BY <1>1 DEF PhaseInv
<1>5. DiscoverInv'
  BY <1>1, <1>2 DEF DiscoverInv, PhaseInv
<1>6. ~ Working'
  BY <1>1 DEF Working, PhaseInv, NoReport
<1>7. CoverInv' /\ OutcomeInv'
  BY <1>1, <1>6 DEF CoverInv, Working, OutcomeInv, ZeroMeansReviewed
<1> QED
  BY <1>3, <1>4, <1>5, <1>7

LEMMA DiscoveredStep == ASSUME RunAssumption, IInv, Discovered PROVE IInv'
<1> USE DEF Discovered, input, found, IInv
<1>1. CASE Candidates = {}
  <2>1. UNCHANGED <<tools, loop>> /\ detected' \in BOOLEAN
    BY <1>1 DEF tools, loop, TypeOK
  <2>2. RaisePartial(<<"targets">>, 8, detected) /\ 8 \in Codes \ {0}
    BY <1>1 DEF Codes
  <2> QED
    BY <2>1, <2>2, StoppedPartial DEF IInv
<1>2. CASE Candidates # {}
  <2>1. Candidates \subseteq Templates
    BY DEF Candidates, Files, TypeOK
  <2>2. reviewed = {} /\ report.kind # "full"
    BY DEF PhaseInv, NoReport
  <2>3. TypeOK'
    <3>1. /\ pc' = "verify" /\ pc = "discover" /\ todo' \subseteq Templates
          /\ unverified' \subseteq ToolSources /\ specs' \subseteq Sources
          /\ succeeded = {} /\ calls = {}
          /\ UNCHANGED <<targets, enabled, confirm, next, standalone,
                         synthesized, detected, synthDone, current, calls,
                         charged, reviewed, succeeded, ran, errors, first,
                         exit, report>>
      BY <1>2, <2>1, <2>2 DEF Sources, record, outcome, OutcomeInv, PhaseInv
    <3> QED
      BY <3>1 DEF TypeOK
  <2>4. PhaseInv' /\ DiscoverInv'
    BY <1>2 DEF PhaseInv, DiscoverInv, outcome
  <2>5. CoverInv'
    BY <1>2, <2>2 DEF CoverInv, Working, Candidates, Files, Sources, TypeOK,
                      record, outcome
  <2>6. OutcomeInv'
    BY <1>2 DEF OutcomeInv, ZeroMeansReviewed, record, outcome
  <2> QED
    BY <2>3, <2>4, <2>5, <2>6
<1> QED
  BY <1>1, <1>2

-----------------------------------------------------------------------------
(* The tools                                                               *)

LEMMA ToolUsableStep ==
    ASSUME RunAssumption, IInv, NEW s \in ToolSources, ToolUsable(s)
    PROVE  IInv'
<1> USE DEF IInv
<1>1. /\ pc = "verify" /\ s \in unverified /\ s \in Sources
      /\ unverified' = unverified \ {s}
      /\ specs' = specs \cup {s}
      /\ UNCHANGED <<targets, enabled, confirm, pc, next, standalone,
                     synthesized, detected, synthDone, todo, current, calls,
                     charged, reviewed, succeeded, ran, errors, first, exit,
                     report>>
  BY DEF ToolUsable, input, found, loop, record, outcome, Sources
<1>2. TypeOK'
  BY <1>1 DEF TypeOK
<1>3. PhaseInv' /\ DiscoverInv'
  BY <1>1 DEF PhaseInv, DiscoverInv
<1>4. CoverInv'
  BY <1>1 DEF CoverInv, Working, PhaseInv, NoReport, Candidates, Files
<1>5. OutcomeInv'
  BY <1>1 DEF OutcomeInv, ZeroMeansReviewed
<1> QED
  BY <1>2, <1>3, <1>4, <1>5

LEMMA ToolUnusableStep ==
    ASSUME RunAssumption, IInv, NEW s \in ToolSources, NEW code \in {5, 6},
           ToolUnusable(s, code)
    PROVE  IInv'
<1> USE DEF IInv
<1>1. /\ pc = "verify" /\ s \in unverified /\ s \in Sources
      /\ unverified' = unverified \ {s}
      /\ UNCHANGED <<targets, enabled, confirm, pc, next, standalone,
                     synthesized, detected, synthDone, specs, todo, current,
                     calls, charged, reviewed, succeeded, ran, exit, report>>
  BY DEF ToolUnusable, input, found, loop, outcome, Sources
<1>2. /\ errors \subseteq errors' /\ <<"tool", s>> \in errors'
      /\ first' \in Codes /\ first' # 0
  BY Recorded DEF ToolUnusable, TypeOK, Codes
<1>3. TypeOK'
  BY <1>1, <1>2 DEF TypeOK
<1>4. PhaseInv' /\ DiscoverInv'
  BY <1>1 DEF PhaseInv, DiscoverInv
<1>5. CoverInv'
  BY <1>1, <1>2 DEF CoverInv, Working, PhaseInv, NoReport, Candidates, Files
<1>6. OutcomeInv'
  BY <1>1, <1>2 DEF OutcomeInv, ZeroMeansReviewed, PhaseInv, NoReport, TypeOK, Codes
<1> QED
  BY <1>3, <1>4, <1>5, <1>6

LEMMA BuiltStep == ASSUME RunAssumption, IInv, Built PROVE IInv'
<1> USE DEF IInv
<1>1. /\ pc = "verify" /\ unverified = {} /\ pc' = "review"
      /\ UNCHANGED <<targets, enabled, confirm, next, standalone, synthesized,
                     detected, synthDone, unverified, specs, todo, current,
                     calls, charged, reviewed, succeeded, ran, errors, first,
                     exit, report>>
  BY DEF Built, input, found, tools, loop, record, outcome
<1>2. TypeOK'
  BY <1>1 DEF TypeOK
<1>3. PhaseInv' /\ DiscoverInv'
  BY <1>1 DEF PhaseInv, DiscoverInv
<1>4. CoverInv' /\ OutcomeInv'
  BY <1>1 DEF CoverInv, Working, Candidates, Files, OutcomeInv, ZeroMeansReviewed
<1> QED
  BY <1>2, <1>3, <1>4

-----------------------------------------------------------------------------
(* The loop                                                                *)

LEMMA Charged ==
    ASSUME RunAssumption, TypeOK, NEW size \in {0, 1}, Charge(size)
    PROVE  charged' \in 0..MaxTemplates
BY DEF RunAssumption, TypeOK, Charge

LEMMA LoadFailsStep ==
    ASSUME RunAssumption, IInv, NEW t \in Templates, NEW size \in {0, 1},
           NEW code \in {3, 4, 5, 8}, LoadFails(t, size, code)
    PROVE  IInv'
<1> USE DEF IInv
<1>1. /\ pc = "review" /\ current = Nobody /\ todo' = todo \ {t}
      /\ UNCHANGED <<targets, enabled, confirm, pc, next, standalone,
                     synthesized, detected, synthDone, unverified, specs,
                     current, calls, reviewed, succeeded, ran, exit, report>>
  BY DEF LoadFails, NextUp, input, found, tools, outcome
<1>2. /\ errors \subseteq errors' /\ <<"template", t>> \in errors'
      /\ first' \in Codes /\ first' # 0
  BY Recorded DEF LoadFails, TypeOK, Codes
<1>3. charged' \in 0..MaxTemplates
  BY Charged DEF LoadFails
<1>4. TypeOK'
  BY <1>1, <1>2, <1>3 DEF TypeOK
<1>5. PhaseInv' /\ DiscoverInv'
  BY <1>1 DEF PhaseInv, DiscoverInv
<1>6. CoverInv'
  BY <1>1, <1>2 DEF CoverInv, Working, PhaseInv, NoReport, Candidates, Files
<1>7. OutcomeInv'
  BY <1>1, <1>2 DEF OutcomeInv, ZeroMeansReviewed, PhaseInv, NoReport
<1> QED
  BY <1>4, <1>5, <1>6, <1>7

LEMMA LoadStep ==
    ASSUME RunAssumption, IInv, NEW t \in Templates, NEW size \in {0, 1},
           Load(t, size)
    PROVE  IInv'
<1> USE DEF IInv
<1>1. /\ pc = "review" /\ current = Nobody /\ todo' = todo \ {t}
      /\ current' = t /\ calls' = specs /\ reviewed' = reviewed \cup {t}
      /\ UNCHANGED <<targets, enabled, confirm, pc, next, standalone,
                     synthesized, detected, synthDone, unverified, specs,
                     succeeded, ran, errors, first, exit, report>>
  BY DEF Load, NextUp, input, found, tools, record, outcome
<1>2. charged' \in 0..MaxTemplates /\ t # Nobody
  BY Charged DEF Load, RunAssumption
<1>3. TypeOK'
  BY <1>1, <1>2 DEF TypeOK
<1>4. PhaseInv' /\ DiscoverInv'
  BY <1>1, <1>2 DEF PhaseInv, DiscoverInv
<1>5. CoverInv'
  BY <1>1, <1>2 DEF CoverInv, Working, PhaseInv, NoReport, Candidates, Files
<1>6. OutcomeInv'
  BY <1>1 DEF OutcomeInv, ZeroMeansReviewed
<1> QED
  BY <1>3, <1>4, <1>5, <1>6

LEMMA SourceRunsStep ==
    ASSUME RunAssumption, IInv, NEW s \in Sources, NEW complains \in BOOLEAN,
           SourceRuns(s, complains)
    PROVE  IInv'
<1> USE DEF IInv
<1>1. /\ pc = "review" /\ s \in calls /\ calls' = calls \ {s}
      /\ succeeded' = succeeded \cup {s} /\ ran' = ran \cup {<<s, current>>}
      /\ UNCHANGED <<targets, enabled, confirm, pc, next, standalone,
                     synthesized, detected, synthDone, unverified, specs,
                     todo, current, charged, reviewed, exit, report>>
  BY DEF SourceRuns, input, found, tools, outcome
<1>2. /\ errors \subseteq errors' /\ first' \in Codes
      /\ first # 0 => first' # 0
      /\ \A e : e \in errors' => e \in errors \/ first' # 0
  <2>1. CASE complains
    <3>1. PICK code \in {1, 5, 6} : Record(<<"source", s, current>>, code)
      BY <2>1 DEF SourceRuns
    <3> QED
      BY <3>1, Recorded DEF TypeOK, Codes
  <2>2. CASE ~ complains
    <3>1. errors' = errors /\ first' = first
      BY <2>2 DEF SourceRuns, record
    <3> QED
      BY <3>1 DEF TypeOK
  <2> QED
    BY <2>1, <2>2
<1>3. current \in reviewed /\ current \in Templates /\ current # Nobody
  BY <1>1 DEF PhaseInv, TypeOK
<1>4. TypeOK'
  BY <1>1, <1>2, <1>3 DEF TypeOK
<1>5. PhaseInv' /\ DiscoverInv'
  BY <1>1, <1>3 DEF PhaseInv, DiscoverInv
<1>6. CoverInv'
  BY <1>1, <1>2 DEF CoverInv, Working, PhaseInv, NoReport, Candidates, Files
<1>7. OutcomeInv'
  <2>1. report'.kind = "none" /\ exit' = -1
    BY <1>1 DEF PhaseInv, NoReport, TypeOK
  <2>2. ZeroMeansReviewed'
    BY <2>1 DEF ZeroMeansReviewed
  <2>3. ran' # {} /\ succeeded' # {} /\ reviewed' # {}
    BY <1>1, <1>3
  <2> QED
    BY <1>2, <2>2, <2>3 DEF OutcomeInv
<1> QED
  BY <1>4, <1>5, <1>6, <1>7

LEMMA SourceFailsStep ==
    ASSUME RunAssumption, IInv, NEW s \in Sources, NEW code \in {1, 5, 6},
           SourceFails(s, code)
    PROVE  IInv'
<1> USE DEF IInv
<1>1. /\ pc = "review" /\ s \in calls /\ calls' = calls \ {s}
      /\ UNCHANGED <<targets, enabled, confirm, pc, next, standalone,
                     synthesized, detected, synthDone, unverified, specs,
                     todo, current, charged, reviewed, succeeded, ran, exit,
                     report>>
  BY DEF SourceFails, input, found, tools, outcome
<1>2. /\ errors \subseteq errors' /\ <<"source", s, current>> \in errors'
      /\ first' \in Codes /\ first' # 0
  BY Recorded DEF SourceFails, TypeOK, Codes
<1>3. TypeOK'
  BY <1>1, <1>2 DEF TypeOK
<1>4. PhaseInv' /\ DiscoverInv'
  BY <1>1 DEF PhaseInv, DiscoverInv
<1>5. CoverInv'
  BY <1>1, <1>2 DEF CoverInv, Working, PhaseInv, NoReport, Candidates, Files
<1>6. OutcomeInv'
  BY <1>1, <1>2 DEF OutcomeInv, ZeroMeansReviewed, PhaseInv, NoReport
<1> QED
  BY <1>3, <1>4, <1>5, <1>6

LEMMA CollectedStep == ASSUME RunAssumption, IInv, Collected PROVE IInv'
<1> USE DEF IInv
<1>1. /\ pc = "review" /\ calls = {} /\ current' = Nobody
      /\ UNCHANGED <<targets, enabled, confirm, pc, next, standalone,
                     synthesized, detected, synthDone, unverified, specs,
                     todo, calls, charged, reviewed, succeeded, ran, errors,
                     first, exit, report>>
  BY DEF Collected, input, found, tools, record, outcome
<1>2. TypeOK'
  BY <1>1 DEF TypeOK
<1>3. PhaseInv' /\ DiscoverInv'
  BY <1>1 DEF PhaseInv, DiscoverInv
<1>4. CoverInv' /\ OutcomeInv'
  BY <1>1 DEF CoverInv, Working, PhaseInv, NoReport, Candidates, Files,
              OutcomeInv, ZeroMeansReviewed
<1> QED
  BY <1>2, <1>3, <1>4

\* When the loop ends and no Source completed any Template, some failure
\* with a code was recorded: every candidate that could not be loaded, every
\* tool and every Source that failed left one.
LEMMA FailureHasCode ==
    ASSUME IInv, pc = "review", todo = {}, current = Nobody, ran = {}
    PROVE  first # 0
<1> USE DEF IInv
<1>1. PICK t \in Candidates : TRUE
  BY DEF CoverInv, Working
<1>2. t \in Templates
  BY DEF Candidates, Files, TypeOK
<1>3. PICK s \in enabled : TRUE
  BY DEF DiscoverInv
<1>4. s \in Sources /\ unverified = {}
  BY DEF TypeOK, PhaseInv
<1>5. CASE <<"template", t>> \in errors
  BY <1>2, <1>5 DEF OutcomeInv
<1>6. CASE <<"tool", s>> \in errors
  BY <1>4, <1>6 DEF OutcomeInv
<1>7. CASE t \in reviewed /\ s \in specs
  <2>1. <<"source", s, t>> \in errors
    BY <1>7 DEF CoverInv, PhaseInv
  <2> QED
    BY <1>2, <1>4, <2>1 DEF OutcomeInv
<1> QED
  BY <1>4, <1>5, <1>6, <1>7 DEF CoverInv, Working

LEMMA FinishStep ==
    ASSUME RunAssumption, IInv, NEW b \in BOOLEAN, Finish(b) PROVE IInv'
<1> USE DEF IInv
<1>1. /\ pc = "review" /\ todo = {} /\ current = Nobody /\ pc' = "done"
      /\ exit' = ExitCode /\ report' = Report("full", detected)
      /\ UNCHANGED <<targets, enabled, confirm, next, standalone,
                     synthesized, detected, synthDone, unverified, specs,
                     todo, current, calls, charged, reviewed, succeeded, ran>>
  BY DEF Finish, input, found, tools, loop
<1>2. /\ errors \subseteq errors' /\ first' = first
      /\ \A e : e \in errors' => e \in errors \/ e = <<"agent">>
  BY DEF Finish, Record, record
<1>3. report'.kind = "full"
  BY <1>1, SynthesisKinds
<1>4. exit' \in Codes /\ (exit' = 0 <=> ran # {})
  <2>1. first \in Codes /\ (ran = {} <=> succeeded = {})
    BY DEF TypeOK, OutcomeInv
  <2>2. CASE ran = {}
    <3>1. exit' = first
      BY <1>1, <1>2, <2>1, <2>2 DEF ExitCode
    <3> QED
      BY <1>1, <2>1, <2>2, <3>1, FailureHasCode
  <2>3. CASE ran # {}
    <3>1. exit' = 0
      BY <1>1, <2>1, <2>3 DEF ExitCode, OutcomeInv
    <3> QED
      BY <2>3, <3>1 DEF Codes
  <2> QED
    BY <2>2, <2>3
<1>5. TypeOK'
  BY <1>1, <1>2, <1>4 DEF TypeOK, Codes
<1>6. PhaseInv' /\ DiscoverInv'
  BY <1>1 DEF PhaseInv, DiscoverInv
<1>7. CoverInv'
  BY <1>1, <1>2, <1>3 DEF CoverInv, Working, PhaseInv, Candidates, Files
<1>8. OutcomeInv'
  BY <1>1, <1>2, <1>3, <1>4 DEF OutcomeInv, ZeroMeansReviewed
<1> QED
  BY <1>5, <1>6, <1>7, <1>8

-----------------------------------------------------------------------------
(* The theorems                                                            *)

LEMMA NextHolds == ASSUME RunAssumption, IInv, [Next]_vars PROVE IInv'
<1>1. ASSUME NEW code \in {1, 2, 3, 7}, Refuse(code) PROVE IInv'
  <2>1. code \in Codes \ {0}
    BY DEF Codes
  <2> QED
    BY <1>1, <2>1, Stopped DEF Refuse
<1>2. CASE Validate
  <2>1. UNCHANGED <<targets, enabled, confirm, next, standalone, synthesized,
                    detected, synthDone, unverified, specs, todo, current,
                    calls, charged, reviewed, succeeded, ran, errors, first,
                    exit, report>>
        /\ pc = "validate" /\ pc' = "discover"
    BY <1>2 DEF Validate, input, found, tools, loop, record, outcome
  <2>2. TypeOK'
    BY <2>1 DEF TypeOK, IInv
  <2>3. PhaseInv' /\ DiscoverInv'
    BY <2>1 DEF PhaseInv, DiscoverInv, IInv
  <2>4. CoverInv' /\ OutcomeInv'
    BY <2>1 DEF CoverInv, Working, Candidates, Files, OutcomeInv,
                ZeroMeansReviewed, IInv
  <2> QED
    BY <2>2, <2>3, <2>4 DEF IInv
<1>3. CASE Crash
  <2>1. 1 \in Codes \ {0}
    BY DEF Codes
  <2> QED
    BY <1>3, <2>1, Stopped DEF Crash
<1>4. CASE TargetGone
  <2>1. 3 \in Codes \ {0}
    BY DEF Codes
  <2> QED
    BY <1>4, <2>1, Stopped DEF TargetGone, Discovering
<1>5. ASSUME NEW code \in {5, 6}, SynthFails(code) PROVE IInv'
  <2>1. code \in Codes \ {0}
    BY DEF Codes
  <2> QED
    BY <1>5, <2>1, StoppedPartial DEF SynthFails, Discovering
<1>6. ASSUME NEW t \in Templates, TooLarge(t) PROVE IInv'
  <2>1. 3 \in Codes \ {0}
    BY DEF Codes
  <2>2. UNCHANGED <<input, next, standalone, synthesized, synthDone, tools, loop>>
        /\ detected' \in BOOLEAN /\ pc # "done"
    BY <1>6 DEF TooLarge, NextUp, found, IInv, TypeOK
  <2> QED
    BY <1>6, <2>1, <2>2, StoppedPartial DEF TooLarge
<1>11. CASE ReportRefused
  <2>1. 4 \in Codes \ {0}
    BY DEF Codes
  <2> QED
    BY <1>11, <2>1, Stopped DEF ReportRefused
<1>7. CASE Discover
  BY <1>4, <1>5, <1>7, ScanStep, SynthRunsStep, DiscoveredStep DEF Discover
<1>8. CASE Verify
  BY <1>8, ToolUsableStep, ToolUnusableStep, BuiltStep DEF Verify
<1>9. CASE Review
  BY <1>6, <1>9, <1>11, LoadStep, LoadFailsStep, SourceRunsStep, SourceFailsStep,
     CollectedStep, FinishStep DEF Review
<1>10. CASE UNCHANGED vars
  <2>1. UNCHANGED <<targets, enabled, confirm, pc, next, standalone,
                    synthesized, detected, synthDone, unverified, specs,
                    todo, current, calls, charged, reviewed, succeeded, ran,
                    errors, first, exit, report>>
    BY <1>10 DEF vars, input, found, tools, loop, record, outcome
  <2>2. TypeOK'
    BY <2>1 DEF TypeOK, IInv
  <2>3. PhaseInv' /\ DiscoverInv'
    BY <2>1 DEF PhaseInv, DiscoverInv, IInv
  <2>4. CoverInv' /\ OutcomeInv'
    BY <2>1 DEF CoverInv, Working, Candidates, Files, OutcomeInv,
                ZeroMeansReviewed, IInv
  <2> QED
    BY <2>2, <2>3, <2>4 DEF IInv
<1> QED
  BY <1>1, <1>2, <1>3, <1>7, <1>8, <1>9, <1>10 DEF Next

\* The inductive invariant holds in every state of every run.
THEOREM InvHolds == Spec => []IInv
<1>1. Init => IInv
  BY InitHolds, RunAssumption
<1>2. IInv /\ [Next]_vars => IInv'
  BY NextHolds, RunAssumption
<1> QED
  BY <1>1, <1>2, PTL DEF Spec

\* Types, and an exit code exactly at the end (run_entry_point).
THEOREM TypeCorrect == Spec => []TypeOK
<1>1. IInv => TypeOK
  BY DEF IInv
<1> QED
  BY <1>1, InvHolds, PTL

\* exit_code(): 0 exactly when some Source completed some Template.
THEOREM ZeroIsEarned == Spec => []ZeroMeansReviewed
<1>1. IInv => ZeroMeansReviewed
  BY DEF IInv, OutcomeInv
<1> QED
  BY <1>1, InvHolds, PTL

\* run(): every candidate and every enabled Source of a full report is
\* accounted for.
THEOREM NothingIsSkipped == Spec => []NothingSilentlySkipped
<1>1. ASSUME IInv, report.kind = "full"
      PROVE  /\ \A t \in Candidates :
                   t \in reviewed \/ <<"template", t>> \in errors
             /\ \A t \in reviewed, s \in enabled : \/ <<s, t>> \in ran
                                                   \/ <<"source", s, t>> \in errors
                                                   \/ <<"tool", s>> \in errors
  <2>1. Working /\ todo = {} /\ unverified = {} /\ calls = {}
    BY <1>1 DEF IInv, CoverInv, PhaseInv, Working
  <2> QED
    BY <1>1, <2>1 DEF IInv, CoverInv
<1>2. IInv => NothingSilentlySkipped
  BY <1>1 DEF NothingSilentlySkipped
<1> QED
  BY <1>2, InvHolds, PTL

\* _discover(): no Template is reviewed unless every confirmed synth succeeded.
THEOREM NothingStale == Spec => []NoStaleReview
<1>1. ASSUME IInv, confirm, reviewed # {}, NEW i \in 1..Len(targets),
             targets[i].dir, targets[i].cdk
      PROVE  i \in synthDone
  <2>1. next > Len(targets) /\ targets \in Seq(Targets)
    BY <1>1, RunAssumption DEF IInv, DiscoverInv, TypeOK, RunAssumption
  <2>2. Len(targets) \in Nat /\ next \in 1..(Len(targets) + 1)
    BY <1>1, <2>1 DEF IInv, TypeOK
  <2>3. i < next
    BY <2>1, <2>2
  <2> QED
    BY <1>1, <2>3 DEF IInv, DiscoverInv
<1>2. IInv => NoStaleReview
  BY <1>1 DEF NoStaleReview
<1> QED
  BY <1>2, InvHolds, PTL
=============================================================================
