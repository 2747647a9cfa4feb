------------------------------- MODULE LintSource -------------------------------
\* The cfn-lint Source of a review (iacreview/cfnlint.py): what a run of the
\* tool says of a Template, and how each result is classified
\* (iacreview/categories.py).
\*
\* A run is a failure before there is an exit code, or [exit, stdout]. Stdout
\* is [kind, ...]: blank, not JSON, a JSON value that is no array, or an array.
EXTENDS Finding

CONSTANTS
  LevelDefaults,     \* level -> [type, severity]
  LintOverrides,     \* rule -> the entry of the category map that is its own
  LintPrefixes       \* rule -> [category, blocks] of the first prefix that matches

LINT_SOURCE == "cfn-lint"
FALLBACK_LEVEL == "Informational"
DEFAULT_CATEGORY == "TemplateQuality"
NoOverride == [category |-> None, security_relevant |-> FALSE, severity |-> None,
               blocks_deployment |-> None]
NO_PREFIX_MATCH == [category |-> None, blocks |-> FALSE]
At(f, key, default) == IF key \in DOMAIN f THEN f[key] ELSE default
Either(value, default) == IF value = None THEN default ELSE value

-----------------------------------------------------------------------------
\* The exit code is a sum of 2, 4 and 8 when there are findings.

FINDING_EXITS == {2, 4, 6, 8, 10, 12, 14}
decode_cfnlint_exit(code) == [ok |-> code = 0 \/ code \in FINDING_EXITS,
                              has_findings |-> code \in FINDING_EXITS]

\* A result that is not [Id, Level, Line, Path, Filename] is Odd, and one of
\* them refuses the whole output. A position that is not positive is none.
Position(line) == IF line = None THEN None ELSE IF line <= 0 THEN None ELSE line
_result_from_object(r) == [r EXCEPT !.Line = Position(@)]

ResultParses(r) == r # Odd /\ IsText(r.Id) /\ IsText(r.Level) /\ r.Line # Odd /\ r.Path # Odd

Parses(stdout) ==
  \/ stdout.kind = "blank"
  \/ stdout.kind = "array" /\ \A r \in Range(stdout.results) : ResultParses(r)
parse_output(stdout) ==
  IF stdout.kind = "blank" THEN <<>>
  ELSE [i \in DOMAIN stdout.results |-> _result_from_object(stdout.results[i])]

-----------------------------------------------------------------------------
\* The category map.

classify_cfnlint(rule, level) ==
  LET base == At(LevelDefaults, level, LevelDefaults[FALLBACK_LEVEL])
      entry == At(LintOverrides, rule, NoOverride)
      prefix == At(LintPrefixes, rule, NO_PREFIX_MATCH)
      blocks == Either(entry.blocks_deployment, prefix.blocks)
  IN  [category |-> Either(entry.category, Either(prefix.category, DEFAULT_CATEGORY)),
       type |-> IF entry.security_relevant THEN "Security" ELSE base.type,
       severity |-> IF level = "Error" /\ blocks THEN "CRITICAL"
                    ELSE Either(entry.severity, base.severity)]

\* Only a path into Resources names one, and only with a string.
lint_resource_from_path(path) ==
  IF path = None THEN None
  ELSE IF Len(path) < 2 THEN None
  ELSE IF path[1] = "Resources" /\ path[2] \notin Range(Digits) THEN path[2] ELSE None

\* The file the tool names, unless it lies outside the workspace.
workspace_relative(spelling) == IF spelling = None THEN None ELSE PathOf[spelling]

lint_finding(r, file) ==
  LET class == classify_cfnlint(r.Id, r.Level)
  IN  redact_finding(
        [ID |-> UNASSIGNED_ID, Normalized_Category |-> class.category, FindingType |-> class.type,
         Severity |-> class.severity, Confidence |-> "Confirmed", Source |-> <<LINT_SOURCE>>,
         Resource |-> lint_resource_from_path(r.Path), File |-> Either(workspace_relative(r.Filename), file),
         Line |-> r.Line, Path |-> r.Path, Text |-> r.Id,
         Evidence |-> <<[Source |-> LINT_SOURCE, Detail |-> r.Id, RuleId |-> r.Id, Excerpt |-> None,
                         Notices |-> {}]>>,
         Fix |-> None], {})

-----------------------------------------------------------------------------
\* run_and_normalize(): [findings, errors]. A failed run keeps what it wrote, if
\* that can be read. A run that ends with findings and writes nothing reports
\* nothing: has_findings is not used.

LintError(class) == [error_class |-> class, source |-> LINT_SOURCE]
LintFindings(stdout, file) ==
  LET results == parse_output(stdout) IN [i \in DOMAIN results |-> lint_finding(results[i], file)]

LintResult(run, file) ==
  IF "failure" \in DOMAIN run THEN [findings |-> <<>>, errors |-> <<LintError(run.failure)>>]
  ELSE IF Parses(run.stdout)
  THEN [findings |-> LintFindings(run.stdout, file),
        errors |-> IF decode_cfnlint_exit(run.exit).ok THEN <<>> ELSE <<LintError("tool_execution")>>]
  ELSE [findings |-> <<>>,
        errors |-> <<LintError(IF decode_cfnlint_exit(run.exit).ok THEN "parse_failure"
                               ELSE "tool_execution")>>]
=============================================================================
