------------------------------- MODULE DeltaTool -------------------------------
\* One invocation of the delta tool (iacreview/deltacli.py): its arguments, the
\* templates and reports it reads, and what it finds of them.
\*
\* The workspace maps the path of an argument to a file; args is [base_template,
\* head_template, base_report, head_report, declare, reviewed_path, plain].
EXTENDS DeltaResult, SemanticDiff

CONSTANTS
  UnusablePaths,       \* spellings that are empty, hold NUL or a metacharacter
  LeavingPaths         \* relative paths that a link takes out of the workspace

TemplateArg(args) == [base |-> args.base_template, head |-> args.head_template]
ReportArg(args) == [base |-> args.base_report, head |-> args.head_report]
Given(pair) == \A side \in SIDES : pair[side] # None

-----------------------------------------------------------------------------
\* The arguments.

_argument_problem(args) ==
  LET templates == TemplateArg(args)
      reports == ReportArg(args)
      paths == {templates[s] : s \in SIDES} \cup {reports[s] : s \in SIDES} \cup {args.reviewed_path}
  IN  \/ (templates["base"] = None) # (templates["head"] = None)
      \/ (reports["base"] = None) # (reports["head"] = None)
      \/ templates["base"] = None /\ reports["base"] = None
      \/ args.declare # {} /\ reports["base"] = None
      \/ TEMPLATE_DECLARATION \in args.declare /\ templates["base"] = None
      \/ args.reviewed_path # None /\ (templates["base"] = None \/ reports["base"] = None)
      \/ paths \cap UnusablePaths # {}

\* The declared path need not exist, and may not leave the workspace.
_declared_path(spelling) ==
  IF PathOf[spelling] = None \/ PathOf[spelling] \in LeavingPaths THEN None ELSE PathOf[spelling]

Refused(args) ==
  \/ _argument_problem(args)
  \/ args.reviewed_path # None /\ _declared_path(args.reviewed_path) = None

\* The path of an input as reports spell it, when it resolves to one.
_workspace_path(workspace, arg) ==
  IF workspace[arg].kind \in {"missing", "outside"} THEN None ELSE PathOf[arg]

-----------------------------------------------------------------------------
\* The reading. An input is [path, value], with value None when it failed.

TemplateFailures(workspace, templates) ==
  {Failure(read_template(workspace[templates[s]]), s, "template")
     : s \in {x \in SIDES : read_template(workspace[templates[x]]) # "ok"}}

_read_templates(workspace, templates) ==
  [s \in SIDES |-> [path |-> _workspace_path(workspace, templates[s]),
                    value |-> IF read_template(workspace[templates[s]]) # "ok" THEN None
                              ELSE ParsedTemplate(workspace[templates[s]])]]

\* A report is read, and then checked.
check_report(file) ==
  CASE read_report(file) # "ok" -> read_report(file)
    [] Rejection(file.report) # None -> Rejection(file.report)
    [] OTHER -> "ok"

ReportFailures(workspace, reports) ==
  {Failure(check_report(workspace[reports[s]]), s, "report")
     : s \in {x \in SIDES : check_report(workspace[reports[x]]) # "ok"}}

_read_reports(workspace, reports) ==
  [s \in SIDES |-> [path |-> _workspace_path(workspace, reports[s]),
                    value |-> IF check_report(workspace[reports[s]]) # "ok" THEN None
                              ELSE workspace[reports[s]].report]]

\* What correspondence() is given of a template.
ComparedAs(input) ==
  IF input.value = None THEN [kind |-> "failed"]
  ELSE [kind |-> "parsed", names |-> KeysOf(Resources(input.value.doc))]
FailedPair == [s \in SIDES |-> [kind |-> "failed"]]
AbsentPair == [s \in SIDES |-> [kind |-> "absent"]]

\* An input that has no path in the workspace is reviewed by no report.
NoPath == ""
ReviewedPaths(args, templates) ==
  [s \in SIDES |-> IF args.reviewed_path # None THEN _declared_path(args.reviewed_path)
                   ELSE IF templates[s].path = None THEN NoPath ELSE templates[s].path]

\* What is found of two checked reports.
FindingDeltaOf(checked, declared, corr, hints) ==
  [entries |-> match_and_classify(checked["base"], checked["head"], declared, corr, hints),
   correspondence |-> corr,
   integrity |-> [s \in SIDES |-> IntegrityFailures(checked[s])],
   comparable |-> summary_comparable(checked["base"], checked["head"])]

\* Inputs that were not given or not read are None, and so is a diff of them.
\* One with too many changes is dropped, and with it what the templates say
\* about the reports.
Request(args, templates, reports, compared, failures) ==
  LET tooMany == compared # None /\ TooManyChanges(compared)
      used == IF tooMany THEN None ELSE compared
      pair == IF templates = None THEN AbsentPair
              ELSE IF tooMany THEN FailedPair ELSE [s \in SIDES |-> ComparedAs(templates[s])]
      delta(checked) ==
        FindingDeltaOf(checked, args.declare,
                       correspondence(pair, checked, IF templates = None THEN [s \in SIDES |-> NoPath]
                                                     ELSE ReviewedPaths(args, templates)),
                       IF used = None THEN {} ELSE rename_hints(used))
  IN  [templates |-> templates, reports |-> reports, diff |-> used,
       delta |-> IF reports = None \/ \E s \in SIDES : reports[s].value = None THEN None
                 ELSE delta([s \in SIDES |-> reports[s].value]),
       failures |-> failures \cup {f \in {Failure("change_entry_limit_exceeded", None, "template")} : tooMany},
       declared |-> args.declare,
       reviewed_path |-> IF args.reviewed_path = None THEN None ELSE _declared_path(args.reviewed_path)]

_request(workspace, args) ==
  LET all(templates, reports) ==
        Request(args, templates, reports,
                IF templates = None \/ \E s \in SIDES : templates[s].value = None THEN None
                ELSE diff(templates["base"].value, templates["head"].value),
                (IF templates = None THEN {} ELSE TemplateFailures(workspace, TemplateArg(args)))
                  \cup (IF reports = None THEN {} ELSE ReportFailures(workspace, ReportArg(args))))
  IN  all(IF Given(TemplateArg(args)) THEN _read_templates(workspace, TemplateArg(args)) ELSE None,
          IF Given(ReportArg(args)) THEN _read_reports(workspace, ReportArg(args)) ELSE None)
=============================================================================
