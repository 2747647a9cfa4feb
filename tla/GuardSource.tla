------------------------------- MODULE GuardSource -------------------------------
\* The cfn-guard Source of a review (iacreview/cfnguard.py): the rule files it
\* hands to the tool, what a run says of a Template, and how a violation becomes
\* a Finding.
\*
\* A run is a failure before there is an exit code, or [exit, stdout]. Stdout is
\* [kind, ...]: blank, not JSON, a sequence of JSON values, or one array of them.
EXTENDS Finding

CONSTANTS
  MAX_CHECK_DEPTH,
  GuardCategories,    \* a rule, or a rule category -> the category of the category map
  GuardOverrides,     \* a rule -> the entry of the category map that is its own
  RuleFiles,          \* root -> [rule -> directory] of the rule files under it
  Sidecars,           \* directory -> its metadata, or Odd when it cannot be used
  BUNDLED             \* the root that always comes first

GUARD_SOURCE == "cfn-guard"
FALLBACK_FINDING_TYPE == "BestPractice"
FALLBACK_SEVERITY == "MEDIUM"
GUARD_FALLBACK_CATEGORY == OTHER_CATEGORY

-----------------------------------------------------------------------------
\* Checks: a clause [clause, context], a nested rule [nested], or Odd. A clause
\* is "Resolved", "UnResolved" (with what is left of the query) or
\* "UnResolvedContext", which has no path.

RECURSIVE ChecksParse(_, _), _parse_checks(_, _)
ClauseParses(c) ==
  \/ c.clause = "Resolved" /\ c.path \notin {Odd, <<>>}
  \/ c.clause = "UnResolved" /\ c.path \notin {Odd, <<>>} /\ c.remaining # Odd
  \/ c.clause = "UnResolvedContext"
ChecksParse(checks, depth) ==
  /\ depth <= MAX_CHECK_DEPTH
  /\ \A c \in Range(checks) :
       /\ c # Odd
       /\ IF "clause" \in DOMAIN c THEN ClauseParses(c) ELSE ChecksParse(c.nested, depth + 1)

_parse_clause(rule, c) ==
  LET path == CASE c.clause = "Resolved" -> c.path
                [] c.clause = "UnResolved" -> IF c.remaining = None THEN c.path ELSE c.path \o c.remaining
                [] c.clause = "UnResolvedContext" -> <<>>
  IN  [rule_name |-> rule, template_path |-> canonical_template_path(path), message |-> c.message]
_parse_checks(rule, checks) ==
  FlattenSeq([i \in DOMAIN checks |->
    IF "clause" \in DOMAIN checks[i] THEN <<_parse_clause(rule, checks[i])>>
    ELSE _parse_checks(rule, checks[i].nested)])

guard_resource_from_path(path) ==
  IF Len(path) < 2 THEN None
  ELSE IF path[1] = "Resources" THEN path[2] ELSE None

\* A record is [not_compliant], a sequence of [rule, checks], or Odd.
RecordParses(r) ==
  r # Odd /\ \A v \in Range(r.not_compliant) : v # Odd /\ IsText(v.rule) /\ ChecksParse(v.checks, 0)
RecordsParse(stdout) ==
  stdout.kind \in {"values", "array"} /\ \A r \in Range(stdout.records) : RecordParses(r)
_parse_record(r) ==
  FlattenSeq([i \in DOMAIN r.not_compliant |->
    _parse_checks(r.not_compliant[i].rule, r.not_compliant[i].checks)])
parse_records(stdout) ==
  FlattenSeq([i \in DOMAIN stdout.records |-> _parse_record(stdout.records[i])])

\* Exit code 0 is believed whatever was written; any other is a violation only
\* if what was written is a result.
interpret_guard_result(run) ==
  IF run.exit = 0 THEN "all_passed" ELSE IF RecordsParse(run.stdout) THEN "violations" ELSE "tool_error"

-----------------------------------------------------------------------------
\* Rule files and their metadata. The roots are the bundled one and those that
\* were asked for, in order; the first file of a name is the one that counts.

resolve_rules_dirs(extra) ==
  <<BUNDLED>> \o SortedSet(extra \ {BUNDLED}, LAMBDA a, b : Lex(a) < Lex(b))

\* Among the roots, the rule's directory that sorts first.
_directory_of_rule(roots) ==
  [rule \in UNION {DOMAIN RuleFiles[r] : r \in Range(roots)} |->
     SortedSet({RuleFiles[r][rule] : r \in {x \in Range(roots) : rule \in DOMAIN RuleFiles[x]}},
               LAMBDA a, b : Lex(a) < Lex(b))[1]]

\* A sidecar that cannot be used is replaced, and the error goes with every
\* result of this run.
_fallback_category_meta == [category |-> None, default |-> [type |-> FALLBACK_FINDING_TYPE,
                            severity |-> FALLBACK_SEVERITY], normalized |-> None, rules |-> <<>>]
_load_category_meta(directory) ==
  IF Sidecars[directory] = Odd THEN _fallback_category_meta ELSE Sidecars[directory]
load_rule_metadata(roots) ==
  LET directories == _directory_of_rule(roots)
  IN  [directories |-> directories,
       errors |-> Cardinality({d \in Range(directories) : Sidecars[d] = Odd})]

NoRuleEntry == [type |-> None, severity |-> None, normalized |-> None, fix |-> None]
for_guard_rule(rule, directory) ==
  LET entry == IF rule \in DOMAIN GuardOverrides THEN GuardOverrides[rule] ELSE None
      known == {n \in {directory, rule} : n \in DOMAIN GuardCategories}
  IN  IF entry # None THEN entry
      ELSE IF known = {} THEN GUARD_FALLBACK_CATEGORY
      ELSE GuardCategories[IF directory \in known THEN directory ELSE rule]

for_rule(rule, metadata) ==
  LET known == rule \in DOMAIN metadata.directories
      directory == IF known THEN metadata.directories[rule] ELSE None
      meta == IF known THEN _load_category_meta(directory) ELSE _fallback_category_meta
      entry == IF rule \in DOMAIN meta.rules THEN meta.rules[rule] ELSE NoRuleEntry
      first(a, b) == IF a = None THEN b ELSE a
  IN  [type |-> first(entry.type, meta.default.type),
       severity |-> first(entry.severity, meta.default.severity),
       fix |-> entry.fix,
       category |-> first(first(entry.normalized, meta.normalized), for_guard_rule(rule, directory))]

-----------------------------------------------------------------------------
\* Findings, in the order of their rule, resource and path.

guard_finding(result, metadata, file) ==
  LET meta == for_rule(result.rule_name, metadata)
  IN  [ID |-> UNASSIGNED_ID, Normalized_Category |-> meta.category, FindingType |-> meta.type,
       Severity |-> meta.severity, Confidence |-> "Confirmed", Source |-> <<GUARD_SOURCE>>,
       Resource |-> guard_resource_from_path(result.template_path), File |-> file, Line |-> None,
       Path |-> IF result.template_path = <<>> THEN None ELSE result.template_path,
       Text |-> result.rule_name,
       Evidence |-> <<[Source |-> GUARD_SOURCE, Detail |-> result.rule_name, RuleId |-> result.rule_name,
                       Excerpt |-> None, Notices |-> {}]>>,
       Fix |-> IF result.message # None THEN result.message ELSE meta.fix]

sort_results(results) ==
  StableSort(results, LAMBDA a, b :
    LexLess(<<Lex(a.rule_name), Lex(guard_resource_from_path(a.template_path))>>
              \o [i \in DOMAIN a.template_path |-> Lex(a.template_path[i])],
            <<Lex(b.rule_name), Lex(guard_resource_from_path(b.template_path))>>
              \o [i \in DOMAIN b.template_path |-> Lex(b.template_path[i])]))

GuardFindings(results, metadata, file) ==
  LET sorted == sort_results(results)
  IN  [i \in DOMAIN sorted |-> guard_finding(sorted[i], metadata, file)]

-----------------------------------------------------------------------------
\* run_and_normalize(): [findings, errors]. Output that cannot be read is an
\* error only where the exit code does not say that all rules passed.

GuardError(class) == [error_class |-> class, source |-> GUARD_SOURCE]
SidecarErrors(metadata) == [i \in 1..metadata.errors |-> GuardError("parse_failure")]

GuardResult(run, metadata, file) ==
  LET finish(findings, errors) == [findings |-> findings, errors |-> errors \o SidecarErrors(metadata)]
  IN  IF "failure" \in DOMAIN run THEN finish(<<>>, <<GuardError(run.failure)>>)
      ELSE IF interpret_guard_result(run) = "tool_error" THEN finish(<<>>, <<GuardError("tool_execution")>>)
      ELSE IF RecordsParse(run.stdout) THEN finish(GuardFindings(parse_records(run.stdout), metadata, file), <<>>)
      ELSE finish(<<>>, <<>>)
=============================================================================
