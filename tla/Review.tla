-------------------------------- MODULE Review --------------------------------
\* The reviews of both revisions of a Template, whatever their Sources are: each
\* Source adds what it finds, then the Findings of each file are merged and the
\* report is made (skills/iac-review/scripts/review.py). A Source promises sound
\* Findings, errors of a known class, and to list a tool once; ReviewSpec allows
\* any that keep this promise, in any order.
EXTENDS ReportCheck

CONSTANTS FileName   \* the path both reviews know the Template by

ASSUME FileAssumption == FileName \in Texts \cap DOMAIN PathOf /\ PathOf[FileName] = FileName

VARIABLES
  payload,     \* the agent's file of both reviews, or None
  enabled,     \* side -> the Sources its review is asked for, in their order
  side, stage, \* the review that runs, and the Source or the step it is at
  collected,   \* side -> the findings of its Sources, before they are merged
  failures,    \* side -> errors[] of its report
  tools,       \* side -> the external tools, as its report lists them
  reports      \* side -> the report, or None

reviewVars == <<payload, enabled, side, stage, collected, failures, tools, reports>>

ReviewInit ==
  /\ enabled \in [SIDES -> Seq(DOMAIN SOURCE_ORDER)]
  /\ side = "base" /\ stage \in DOMAIN SOURCE_ORDER
  /\ collected = [s \in SIDES |-> <<>>]
  /\ failures = [s \in SIDES |-> <<>>]
  /\ tools = [s \in SIDES |-> <<>>]
  /\ reports = [s \in SIDES |-> None]

\* The list of this review grows by elements of S; that of the other stays.
Grows(now, then, S) ==
  /\ then = [now EXCEPT ![side] = then[side]]
  /\ then[side] \in Seq(S) /\ IsPrefix(now[side], then[side])

SourceReports ==
  /\ stage \in DOMAIN SOURCE_ORDER
  /\ Grows(collected, collected', SoundFindings)
  /\ Grows(failures, failures', Errors)
  /\ Grows(tools, tools', Tools) /\ DistinctTools(tools'[side])
  /\ stage' \in DOMAIN SOURCE_ORDER \cup {"report"}
  /\ UNCHANGED <<payload, enabled, side, reports>>

-----------------------------------------------------------------------------
\* The report: the findings of each file are merged, the files in their order.

Buckets(found) == SortedSet({f.File : f \in Range(found)}, LAMBDA a, b : Lex(a) < Lex(b))
Bucket(found, file) == Chosen(found, LAMBDA f : f.File = file)
Merged(found) ==
  LET of(names) == FlattenSeq([i \in DOMAIN names |-> deduplicate(Bucket(found, names[i]))])
  IN  of(Buckets(found))

Meta(s) == [files |-> <<FileName>>, synthesized |-> <<>>, synthesis |-> "not_applicable", tools |-> tools[s],
            sources |-> IF payload = None THEN enabled[s] ELSE Append(enabled[s], AGENT_SOURCE)]
Printed(s) ==
  IF Buildable(Merged(collected[s]), Meta(s)) THEN build_report(Merged(collected[s]), failures[s], Meta(s)) ELSE None

\* A report that is not valid is lost as a whole, with everything in it. The
\* review of the head begins with its first Source.
MakeReport(first) ==
  /\ stage = "report"
  /\ reports' = [reports EXCEPT ![side] = Printed(side)]
  /\ IF side = "base" THEN side' = "head" /\ stage' = first ELSE side' = side /\ stage' = "publish"
  /\ UNCHANGED <<payload, enabled, collected, failures, tools>>

\* The reports are written, and what reads them runs.
Proceed(step, next) ==
  /\ stage = step /\ stage' = next
  /\ UNCHANGED <<payload, enabled, side, collected, failures, tools, reports>>

ReviewNext ==
  \/ SourceReports
  \/ \E first \in DOMAIN SOURCE_ORDER : MakeReport(first)
  \/ Proceed("publish", "compare") \/ Proceed("compare", "done")

ReviewSpec == ReviewInit /\ [][ReviewNext]_reviewVars

-----------------------------------------------------------------------------
\* The inductive invariant: what a Source promises holds of all that was
\* collected, and a report that is made is the one of its review, whose lists no
\* longer change.
Collected ==
  /\ enabled \in [SIDES -> Seq(DOMAIN SOURCE_ORDER)] /\ side \in SIDES
  /\ stage \in DOMAIN SOURCE_ORDER \cup {"report", "publish", "compare", "done"}
  /\ collected \in [SIDES -> Seq(SoundFindings)]
  /\ failures \in [SIDES -> Seq(Errors)]
  /\ tools \in [SIDES -> Seq(Tools)] /\ \A s \in SIDES : DistinctTools(tools[s])
  /\ DOMAIN reports = SIDES
ReportsMade ==
  /\ side = "head" => reports["base"] = Printed("base")
  /\ stage \in {"publish", "compare", "done"} => side = "head" /\ reports["head"] = Printed("head")
ReviewInv == Collected /\ ReportsMade

-----------------------------------------------------------------------------
\* An agent that spells the path of the Template in its own way has a bucket of
\* its own, and the paths are normalised only after each bucket was merged.
Respelled(s) == \E f \in Range(collected[s]) : f.File # FileName

\* A report the review printed is one that the delta tool accepts: its shape,
\* its own reconstruction, and one Finding a key, unless an agent respelled the
\* path; and one it refuses for its size only, as nothing limits what a review
\* prints (reportcheck.py reads what report.py writes).
PublishedIsAccepted ==
  stage = "publish" => \A s \in SIDES : reports[s] # None =>
    /\ Rejection(reports[s]) = IF Len(reports[s].findings) > MAX_REPORT_FINDINGS
                               THEN "report_finding_limit_exceeded" ELSE None
    /\ IntegrityFailures(reports[s]) \subseteq {c \in {"dedup_invariant_violated"} : Respelled(s)}

Facts(f) == [i \in DOMAIN f.Evidence |-> <<f.Evidence[i].Source, f.Evidence[i].RuleId, f.Evidence[i].Detail>>]
AllFacts(fs) == FlattenSeq([i \in DOMAIN fs |-> Facts(fs[i])])
Body(f) == [f EXCEPT !.ID = UNASSIGNED_ID, !.File = PathOf[@]]

\* Why a merged finding can be refused although each of its parts is valid.
CriticalWithoutRule(fs) ==
  /\ \A f \in Range(fs) : f.FindingType # "Security"
  /\ \E f \in Range(fs) : f.FindingType = "Validity"
  /\ \E f \in Range(fs) : f.Severity = "CRITICAL"
  /\ \A f \in Range(fs) : \A e \in Range(f.Evidence) : e.RuleId = None

\* A Finding g of the report stands for those of its key in one bucket.
StandsFor(members, g) ==
  /\ members # <<>>
  /\ \A m \in Range(members) : /\ Range(m.Source) \subseteq Range(g.Source)
                               /\ SEVERITY_ORDER[m.Severity] <= SEVERITY_ORDER[g.Severity]
  /\ \E m \in Range(members) : CONFIDENCE_ORDER[g.Confidence] <= CONFIDENCE_ORDER[m.Confidence]
  /\ AGENT_SOURCE \in Range(g.Source) => g.Confidence # "Confirmed"

\* The findings that are merged with f.
MergedWith(raw, f) == Chosen(raw, LAMBDA h : h.File = f.File /\ dedup_key(h) = dedup_key(f))

FaithfulMerge(raw, g) ==
  IF dedup_key(g) = NoKey THEN \E f \in Range(raw) : Body(f) = Body(g)
  ELSE \E f \in Range(raw) :
         PathOf[f.File] = g.File /\ dedup_key(f) = dedup_key(g) /\ StandsFor(MergedWith(raw, f), g)

\* A merge loses nothing and invents nothing: the report holds the evidence of
\* every Source as often as it was found, no finding milder than one it stands
\* for, and none more certain than all of them. A report is lost only to a path
\* that leaves the workspace, or to a merged finding that is Validity and
\* CRITICAL without a RuleId (dedup.py, report.py; agentin.py: "One bad entry
\* never costs another").
MergeIsFaithful ==
  stage = "publish" => \A s \in SIDES :
    LET raw == collected[s]
    IN  IF reports[s] = None
        THEN \E f \in Range(raw) :
               \/ PathOf[f.File] = None
               \/ dedup_key(f) # NoKey /\ CriticalWithoutRule(MergedWith(raw, f))
        ELSE /\ \A g \in Range(reports[s].findings) : FaithfulMerge(raw, g)
             /\ ToBag(AllFacts(raw)) = ToBag(AllFacts(reports[s].findings))
=============================================================================
