------------------------------ MODULE ReviewDelta ------------------------------
\* Two reviews of one Template, of its base and of its head revision, and the
\* delta tool that compares them (skills/iac-review, iacreview/deltacli.py).
\* Each review collects what its Sources find, in their order, and assembles one
\* report; both are separate runs, and the tools, the agent's file, the reports
\* and the templates may differ from what they are taken for.
\*
\* What a tool finds of a Template is LintChecks and GuardChecks of its document:
\* the tools are external, and what they find is the truth a run may fall short
\* of. At most MaxOdd things do not go as they should.
EXTENDS Review, DeltaTool, IamReference, AgentInput, LintSource, GuardSource, SecretSource, QualitySource

CONSTANTS
  Cases,             \* what is reviewed: [templates, payload], templates of both revisions
  LintChecks(_),     \* a document -> the results of cfn-lint
  GuardChecks(_),    \* a document -> the violations of cfn-guard
  CustomRules,       \* a root of rule files whose metadata cannot be read
  Arguments,         \* the arguments of the delta tool
  Omitted,           \* the Sources a review may be asked to leave out
  MaxOdd

VARIABLES
  templates,   \* side -> the file that is reviewed
  files,       \* path -> what the delta tool reads there
  odd,         \* how many things went wrong
  blind,       \* the sides whose cfn-lint found something and wrote nothing
  forged,      \* whether a report was rewritten, or a template exchanged
  args, request, result

vars == <<templates, payload, enabled, side, stage, collected, failures, tools, reports, files, odd, blind,
          forged, args, request, result>>
inputs == <<templates, payload, enabled>>
history == <<blind, forged>>
outputs == <<args, request, result>>

TemplateName == [base |-> "base.yaml", head |-> "head.yaml"]
ReportName == [base |-> "base.json", head |-> "head.json"]
DocumentOf(s) == Parsed(templates[s].source)
Document == DocumentOf(side)
SOURCE_ORDER_FOR_COLLECTION == SelectSeq(SOURCES, LAMBDA s : s # AGENT_SOURCE)
AllBut(source) == SelectSeq(SOURCE_ORDER_FOR_COLLECTION, LAMBDA s : s # source)

Init ==
  /\ \E c \in Cases : templates = c.templates /\ payload = c.payload
  /\ enabled \in [SIDES -> {SOURCE_ORDER_FOR_COLLECTION} \cup {AllBut(s) : s \in Omitted}]
  /\ odd = Cardinality({s \in SIDES : enabled[s] # SOURCE_ORDER_FOR_COLLECTION}) /\ odd <= MaxOdd
  /\ side = "base" /\ stage = enabled["base"][1]
  /\ collected = [s \in SIDES |-> <<>>]
  /\ failures = [s \in SIDES |-> <<>>]
  /\ tools = [s \in SIDES |-> <<>>]
  /\ reports = [s \in SIDES |-> None]
  /\ files = <<>>
  /\ blind = {} /\ forged = FALSE
  /\ args = None /\ request = None /\ result = None

-----------------------------------------------------------------------------
\* The Source after one, in the order of the review; the agent's file is last.
Steps(s) == Append(enabled[s], AGENT_SOURCE)
After(source) ==
  IF source = AGENT_SOURCE THEN "report"
  ELSE LET all == Steps(side)
       IN  all[1 + CHOOSE i \in DOMAIN all : all[i] = source]

\* What a Source finds takes the place of what the ones before it found.
Collect_LastOnly(found) ==
  /\ collected' = [collected EXCEPT ![side] = found.findings]
  /\ failures' = [failures EXCEPT ![side] = @ \o found.errors]

Collect(found) ==
  /\ collected' = [collected EXCEPT ![side] = @ \o found.findings]
  /\ failures' = [failures EXCEPT ![side] = @ \o found.errors]

Tool(name, available, version) == [name |-> name, available |-> available, version |-> version]
UseTool(tool) == tools' = [tools EXCEPT ![side] = Append(@, tool)]
Strange(n) == odd' = odd + n /\ odd' <= MaxOdd

\* cfn-lint: a run that says everything it found, and runs that do not.
LintOutput(results) == [kind |-> "array", results |-> results]
WholeLint(results) == [exit |-> IF results = <<>> THEN 0 ELSE 4, stdout |-> LintOutput(results)]
LintRuns(results) ==
  {[exit |-> 1, stdout |-> LintOutput(results)],
   [exit |-> 1, stdout |-> [kind |-> "not_json"]],
   [exit |-> 0, stdout |-> [kind |-> "scalar"]],
   [exit |-> 4, stdout |-> LintOutput(Append(results, Odd))],
   [failure |-> "tool_timeout"]}
SilentLint == [exit |-> 4, stdout |-> [kind |-> "blank"]]

LintStep(run, tool) ==
  /\ Collect(LintResult(run, FileName))
  /\ UseTool(tool)
  /\ stage' = After(LINT_SOURCE)
  /\ UNCHANGED <<inputs, side, reports, files, forged, outputs>>

Lint ==
  /\ stage = LINT_SOURCE
  /\ LintStep(WholeLint(LintChecks(Document)), Tool("cfn-lint", TRUE, "1"))
  /\ UNCHANGED <<odd, blind>>

LintFails ==
  /\ stage = LINT_SOURCE /\ Strange(1)
  /\ \/ \E run \in LintRuns(LintChecks(Document)) : LintStep(run, Tool("cfn-lint", TRUE, "1"))
     \/ LintStep([failure |-> "tool_unavailable"], Tool("cfn-lint", FALSE, None))
     \/ LintStep(WholeLint(LintChecks(Document)), Tool("cfn-lint", TRUE, "2"))
  /\ UNCHANGED blind

LintSaysNothing ==
  /\ stage = LINT_SOURCE /\ Strange(1)
  /\ LintChecks(Document) # <<>>
  /\ LintStep(SilentLint, Tool("cfn-lint", TRUE, "1"))
  /\ blind' = blind \cup {side}

\* cfn-guard: one record for the bundled rules.
GuardOutput(violations) == [kind |-> "values", records |-> <<[not_compliant |-> violations]>>]
WholeGuard(violations) == [exit |-> IF violations = <<>> THEN 0 ELSE 19, stdout |-> GuardOutput(violations)]
Mute == [exit |-> 0, stdout |-> [kind |-> "blank"]]
GuardRuns(violations) ==
  {[exit |-> 5, stdout |-> [kind |-> "blank"]],
   [exit |-> 19, stdout |-> GuardOutput(Append(violations, Odd))],
   [failure |-> "tool_timeout"]}

GuardStep(run, extra, available) ==
  /\ Collect(GuardResult(run, load_rule_metadata(resolve_rules_dirs(extra)), FileName))
  /\ UseTool(Tool("cfn-guard", available, IF available THEN "3" ELSE None))
  /\ stage' = After(GUARD_SOURCE)
  /\ UNCHANGED <<inputs, side, reports, files, blind, forged, outputs>>

\* When all rules passed, what was written is not read.
Guard ==
  /\ stage = GUARD_SOURCE
  /\ \E run \in {WholeGuard(GuardChecks(Document))} \cup {m \in {Mute} : GuardChecks(Document) = <<>>} :
       GuardStep(run, {}, TRUE)
  /\ UNCHANGED odd

GuardFails ==
  /\ stage = GUARD_SOURCE /\ Strange(1)
  /\ \/ \E run \in GuardRuns(GuardChecks(Document)) : GuardStep(run, {}, TRUE)
     \/ GuardStep([failure |-> "tool_unavailable"], {}, FALSE)
     \/ GuardStep(WholeGuard(GuardChecks(Document)), {CustomRules}, TRUE)

\* The Sources that read the document themselves never fail on one.
OwnSource(source, found) ==
  /\ stage = source
  /\ Collect([findings |-> found, errors |-> <<>>])
  /\ stage' = After(source)
  /\ UNCHANGED <<inputs, side, tools, reports, files, odd, history, outputs>>
Iam == OwnSource(IAM_SOURCE, IamFindings(Document, FileName))
Network == OwnSource(NETWORK_SOURCE, NetworkFindings(Document, FileName))
Secrets == OwnSource(SECRET_SOURCE, SecretFindings(Document, FileName))
Quality == OwnSource(QUALITY_SOURCE, QualityFindings(Document, FileName))

\* The agent's file: refused as a whole, or entry by entry.
AgentError == [error_class |-> "schema_violation", source |-> AGENT_SOURCE]
_load_agent_findings(given) ==
  IF given = None THEN [findings |-> <<>>, errors |-> <<>>]
  ELSE IF FileError(given) # None
  THEN [findings |-> <<>>, errors |-> <<[AgentError EXCEPT !.error_class = FileError(given)]>>]
  ELSE LET read == findings_from_payload(given, noecho_parameter_names(Document))
       IN  [findings |-> read.findings, errors |-> [i \in 1..read.dropped |-> AgentError]]

AgentStep(given) ==
  /\ stage = AGENT_SOURCE
  /\ Collect(_load_agent_findings(given))
  /\ stage' = After(AGENT_SOURCE)
  /\ UNCHANGED <<inputs, side, tools, reports, files, history, outputs>>
Agent == AgentStep(payload) /\ UNCHANGED odd
AgentFails == payload # None /\ Strange(1) /\ AgentStep([kind |-> "unreadable"])

-----------------------------------------------------------------------------
\* The reports, and the files they are written to.
Report ==
  /\ MakeReport(Steps("head")[1])
  /\ UNCHANGED <<templates, files, odd, history, outputs>>

FileOf(report) == IF report = None THEN [kind |-> "missing"] ELSE [kind |-> "report", report |-> report]
Publish ==
  /\ Proceed("publish", "compare")
  /\ files' = [path \in Range(TemplateName) \cup Range(ReportName) |->
                 LET s == IF path \in {"base.yaml", "base.json"} THEN "base" ELSE "head"
                 IN  IF path \in Range(TemplateName) THEN templates[s] ELSE FileOf(reports[s])]
  /\ UNCHANGED <<templates, odd, history, outputs>>

-----------------------------------------------------------------------------
\* What happens to the files before they are compared.

Without(r, n) == [r EXCEPT !.findings = RemoveAt(@, n)]

\* A report made again, without a finding: nobody can tell.
Rewritten(r, n) ==
  build_report(Without(r, n).findings, r.errors,
               [files |-> r.target.files, synthesized |-> <<>>, synthesis |-> r.target.synthesis,
                sources |-> r.sources_enabled, tools |-> r.tools])

Replace(path, file) == files' = [files EXCEPT ![path] = file]
TamperFrame == UNCHANGED <<inputs, side, stage, collected, failures, tools, reports, blind, outputs>>

EditReport ==
  /\ stage = "compare" /\ Strange(1)
  /\ \E s \in SIDES :
       /\ reports[s] # None
       /\ \E n \in DOMAIN reports[s].findings :
            Replace(ReportName[s], FileOf(Without(reports[s], n)))
  /\ UNCHANGED forged /\ TamperFrame

ForgeReport ==
  /\ stage = "compare" /\ Strange(1)
  /\ \E s \in SIDES :
       /\ reports[s] # None
       /\ \E n \in DOMAIN reports[s].findings :
            Replace(ReportName[s], FileOf(Rewritten(reports[s], n)))
  /\ forged' = TRUE /\ TamperFrame

DamageReport ==
  /\ stage = "compare" /\ Strange(1)
  /\ \E s \in SIDES, kind \in {"missing", "unparsable", "repeated_key", "too_large", "non_finite"} :
       Replace(ReportName[s], [kind |-> kind])
  /\ UNCHANGED forged /\ TamperFrame

DamageTemplate ==
  /\ stage = "compare" /\ Strange(1)
  /\ \E s \in SIDES, kind \in {"missing", "outside", "not_utf8", "unparsable", "divergent", "cyclic"} :
       Replace(TemplateName[s], [kind |-> kind])
  /\ UNCHANGED forged /\ TamperFrame

ExchangeTemplate ==
  /\ stage = "compare" /\ Strange(1)
  /\ files' = [files EXCEPT !["head.yaml"] = files["base.yaml"]]
  /\ forged' = TRUE /\ TamperFrame

-----------------------------------------------------------------------------
\* The delta tool.

Compare ==
  /\ Proceed("compare", "done")
  /\ \E a \in Arguments :
       /\ args' = a
       /\ request' = IF Refused(a) THEN None ELSE _request(files, a)
  /\ result' = IF request' = None THEN [exit |-> EXIT_CODES["invalid_arguments"], report |-> None]
               ELSE render_delta_report(request', args'.plain)
  /\ UNCHANGED <<templates, files, odd, history>>

Next ==
  \/ Lint \/ LintFails \/ LintSaysNothing \/ Guard \/ GuardFails
  \/ Iam \/ Network \/ Secrets \/ Quality
  \/ Agent \/ AgentFails \/ Report \/ Publish
  \/ EditReport \/ ForgeReport \/ DamageReport \/ DamageTemplate \/ ExchangeTemplate \/ Compare

Spec == Init /\ [][Next]_vars

-----------------------------------------------------------------------------
Covers(path, longer) == Len(path) <= Len(longer) /\ SubSeq(longer, 1, Len(path)) = path

\* A finding, or a disclosure of what a rule looks at, within one policy.
Answers(f, policy, rules, elements) ==
  /\ Covers(canonical_template_path(policy.path), f.Path)
  /\ f.Text \in rules \/ (f.Text = UNRESOLVABLE /\ f.Evidence[1].Detail \in elements)
PolicyAnswered ==
  \A id \in KeysOf(Resources(Document)) : LET resource == Resources(Document).map[id] IN
    \A p \in PoliciesOf(id, resource) :
      /\ ~IsMap(p.document) => \E f \in Range(collected[side]) : Answers(f, p, {MALFORMED_DOCUMENT}, {})
      /\ \A rule \in ReferenceRules : EvidentOf(p, resource, rule, Get(Document, "Parameters")) =>
           \E f \in Range(collected[side]) : Answers(f, p, {rule}, RuleElements(rule))

\* A resource lies on a cycle when whatever holds its references, and theirs,
\* holds it too.
OnCycle(graph) ==
  {n \in DOMAIN graph : \A S \in SUBSET DOMAIN graph :
     graph[n] \cup UNION {graph[m] : m \in S} \subseteq S => n \in S}
CycleAnswered ==
  LET cyclic == OnCycle(build_graph(Document))
      told == {f.Resource : f \in {g \in Range(collected[side]) : g.Text = "circular_dependency"}}
  IN  told \subseteq cyclic /\ (told = {} => cyclic = {})
UnusedIsUnused ==
  \A f \in Range(collected[side]) : f.Text = "unused_condition" =>
    \A r \in Children(Resources(Document)) :
      Deployed(Get(r, "Properties"), {f.Path[2]}) = Deployed(Get(r, "Properties"), {})

\* No silence about a policy or a cycle. If some choice of the conditions gives a
\* policy statements that a rule may hold of, the review reports, within that
\* policy, the rule or that an element it looks at was not evaluated; a policy
\* that is no mapping is disclosed (iam/__init__.py). If resources depend on each
\* other in a circle, it names one of them, and none that is on no circle; and a
\* condition it calls unused changes no property of a resource (quality.py).
\* The exceptions are what EvidentOf leaves out, of which the review says nothing
\* although Layer 1 of docs/architecture.md (310-315) discloses what it could not
\* resolve: a list of policies, an entry of one, a document or a statement that a
\* function gives, but for statements by Fn::If down to MAX_NESTING_DEPTH; and,
\* for the rules about a missing Condition, a Condition that has an Fn::If, whose
\* keys count whichever branch has them. A combination that is split between two
\* policies is no rule of the code either (detectors.py:1551).
NothingSilent ==
  stage = AGENT_SOURCE =>
    /\ IAM_SOURCE \in Range(enabled[side]) => PolicyAnswered
    /\ QUALITY_SOURCE \in Range(enabled[side]) => CycleAnswered /\ UnusedIsUnused

-----------------------------------------------------------------------------
\* Whether the evidence of a Finding is true of a revision. Of several cycles
\* only one is reported, and what else is on a cycle does not count.
OwnFindings(doc) ==
  IamFindings(doc, FileName) \o NetworkFindings(doc, FileName) \o SecretFindings(doc, FileName) \o QualityFindings(doc, FileName)
FoundBy(s, evidence, p) ==
  LET doc == DocumentOf(s)
      rule == evidence[2]
  IN  CASE evidence[1] = LINT_SOURCE ->
             \E r \in Range(LintChecks(doc)) :
               r.Id = rule /\ lint_resource_from_path(r.Path) = p.Resource
                 /\ (p.Resource = None => canonical_template_path(r.Path) = p.TemplatePath)
        [] evidence[1] = GUARD_SOURCE ->
             \E v \in Range(GuardChecks(doc)) : v.rule = rule /\ \E r \in Range(_parse_checks(v.rule, v.checks)) :
               guard_resource_from_path(r.template_path) = p.Resource
        [] evidence[1] = IAM_SOURCE /\ rule \in ReferenceRules -> MayHold(doc, p.Resource, rule)
        [] evidence[1] \in {IAM_SOURCE, NETWORK_SOURCE, SECRET_SOURCE, QUALITY_SOURCE} ->
             \E f \in Range(OwnFindings(doc)) :
               f.Text = rule /\ f.Resource = p.Resource /\ (p.Resource = None => f.Path = p.TemplatePath)
        [] OTHER -> FALSE

\* What a review that went well does not see: anything of cfn-lint, when it
\* exits with findings and writes none; and a rule that may hold of a policy only
\* where the IAM review does not look.
Unseen(s, evidence, p) ==
  \/ evidence[1] = LINT_SOURCE /\ s \in blind
  \/ evidence[1] = IAM_SOURCE /\ evidence[2] \in ReferenceRules /\ ~Evident(DocumentOf(s), p.Resource, evidence[2])
StillThere(s, p) == \E evidence \in Range(p.Evidence) : FoundBy(s, evidence, p) /\ ~Unseen(s, evidence, p)

\* What a file can be read as, when each repeated key may have any of its values.
RECURSIVE Readings(_)
Selections(f) == {g \in [DOMAIN f -> UNION Range(f)] : \A k \in DOMAIN f : g[k] \in f[k]}
Readings(s) ==
  IF IsSource(s)
  THEN LET own == [k \in OwnKeys(s) |-> UNION {Readings(s.pairs[i].node) :
                                            i \in {j \in DOMAIN s.pairs : s.pairs[j].key = k}}]
           inherited(k) == LET first == CHOOSE i \in DOMAIN s.merge :
                                 k \in AllKeys(s.merge[i]) /\ \A j \in 1..(i - 1) : k \notin AllKeys(s.merge[j])
                           IN  {m.map[k] : m \in Readings(s.merge[first])}
       IN  {Map(f) : f \in Selections([k \in AllKeys(s) |-> IF k \in OwnKeys(s) THEN own[k] ELSE inherited(k)])}
  ELSE IF IsList(s)
       THEN {List(f) : f \in Selections([i \in DOMAIN s.list |-> Readings(s.list[i])])}
  ELSE {s}

\* A resource of one revision that is of the other under another name.
RenamedFrom(s, id) ==
  LET other == IF s = "base" THEN "head" ELSE "base"
      typed(file, n) == {ResourceType(Resources(d).map[n]) :
                           d \in {e \in Readings(files[file].source) : n \in KeysOf(Resources(e))}}
      names(file) == UNION {KeysOf(Resources(d)) : d \in Readings(files[file].source)}
  IN  /\ id \in names(TemplateName[s]) \ names(TemplateName[other])
      /\ \E n \in names(TemplateName[other]) \ names(TemplateName[s]) :
           typed(TemplateName[s], id) \cap typed(TemplateName[other], n) # {}

\* "Resolved" and "New" are true of the revisions: no evidence of a Resolved
\* finding holds of the head, no evidence of a New one held of the base, and no
\* renamed resource is either, when the templates were compared (delta.py,
\* reportcheck.py). The exceptions: what a review does not see (Unseen): a
\* policy that is put under an Fn::If the IAM review does not follow is called
\* Resolved although it grants what it granted; a cycle that is reported at
\* another of its resources; and inputs that were rewritten so that they agree
\* with themselves.
OneSidedIsReal ==
  stage = "done" /\ request # None /\ ~forged =>
    (request.delta # None => \A e \in request.delta.entries :
       /\ e.classification = "Resolved" => ~StillThere("head", e.base)
       /\ e.classification = "New" => ~StillThere("base", e.head)
       /\ request.diff # None =>
            /\ e.classification = "Resolved" => ~RenamedFrom("base", e.base.Resource)
            /\ e.classification = "New" => ~RenamedFrom("head", e.head.Resource))

\* The scalars of a tree with their paths; an empty container is one.
RECURSIVE Leaves(_, _)
Leaves(t, path) ==
  IF Children(t) = {} THEN {<<canonical_path(path), t>>}
  ELSE IF IsMap(t) THEN UNION {Leaves(t.map[k], Append(path, k)) : k \in KeysOf(t)}
  ELSE UNION {Leaves(t.list[i], Append(path, Index(i))) : i \in DOMAIN t.list}
LeavesOf(file) == UNION {Leaves(d, <<>>) : d \in Readings(files[file].source)}

\* Whatever the two files can be read as, a place where they differ lies within
\* a change or within a part that is said not to be compared; a complete diff
\* without changes is of equal files (semdiff.py, deltaio.py).
DifferencesAreCovered ==
  stage = "done" /\ request # None =>
    (request.diff # None =>
       LET told == {c.path : c \in request.diff.changes} \cup {u.path : u \in request.diff.uncompared}
           base == LeavesOf("base.yaml")  head == LeavesOf("head.yaml")
       IN  \A leaf \in (base \ head) \cup (head \ base) : \E path \in told :
             \/ Covers(path, leaf[1])
             \/ (IsMap(leaf[2]) \/ IsList(leaf[2])) /\ Covers(leaf[1], path))

\* Exit 0 means that every part that was asked for has a result; a part fails
\* only for its own inputs, whatever becomes of the other, and the exit code is
\* the one of the failure that is named first (deltareport.py, deltacli.py).
TemplatesCompare ==
  /\ \A s \in SIDES : read_template(files[TemplateName[s]]) = "ok"
  /\ "change_entry_limit_exceeded" \notin Range(result.report.errors)
ReportsCompare ==
  \A s \in SIDES : LET file == files[ReportName[s]]
                   IN  file.kind = "report" /\ Len(file.report.findings) <= MAX_REPORT_FINDINGS
ZeroMeansCompared ==
  stage = "done" /\ request # None =>
    LET asked == [diff |-> args.base_template # None, delta |-> args.base_report # None]
        tooLarge == "output_size_limit_exceeded" \in Range(result.report.errors)
    IN  /\ (asked.diff => (Analyzed(result.report.semantic_diff) <=> TemplatesCompare /\ ~tooLarge))
        /\ (asked.delta => (Analyzed(result.report.finding_delta) <=> ReportsCompare /\ ~tooLarge))
        /\ result.exit = 0 <=> /\ asked.diff => Analyzed(result.report.semantic_diff)
                               /\ asked.delta => Analyzed(result.report.finding_delta)
        /\ result.exit # 0 => result.exit = EXIT_CODES[result.report.errors[1]]
=============================================================================
