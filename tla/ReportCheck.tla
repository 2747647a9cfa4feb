------------------------------ MODULE ReportCheck ------------------------------
\* What the delta tool asks of a report before it believes it
\* (iacreview/reportcheck.py): its shape, that build_report() would make the
\* same report of its parts, that deduplication left one Finding a key; and
\* whether two reports can be compared for one Source and one file.
EXTENDS ReviewReport

CONSTANTS MAX_REPORT_FINDINGS, ERROR_CLASSES

SOURCE_TOOL_DEPENDENCIES ==
  [s \in DOMAIN SOURCE_ORDER |-> IF s \in {"cfn-lint", "cfn-guard"} THEN {s} ELSE {}]
CDK_TOOL == "cdk"
SIDES == {"base", "head"}
Errors == [error_class : ERROR_CLASSES, source : DOMAIN SOURCE_ORDER \cup {None}]

AMBIGUOUS_REASONS ==
  <<"identity_undetermined", "duplicate_fingerprint", "source_not_comparable",
    "tool_version_mismatch", "template_not_reviewed", "non_deterministic_source",
    "possible_logical_id_rename", "report_integrity_failed", "template_report_mismatch">>

-----------------------------------------------------------------------------
\* The shape. A report is the object a file holds: its keys and their values.

RelativePaths(paths) == paths # Odd /\ \A p \in Range(paths) : p # Odd /\ PathOf[p] # None

GoodTarget(t) ==
  /\ HasKeys(t, {"files", "synthesis", "synthesized"}, {"files", "synthesis", "synthesized"})
  /\ RelativePaths(t.files) /\ RelativePaths(t.synthesized)
  /\ t.synthesis \in CDK_SYNTHESIS_OUTCOMES

GoodSources(s) == s # Odd /\ Range(s) \subseteq DOMAIN SOURCE_ORDER /\ IsInjective(s)

GoodTools(ts) ==
  /\ ts # Odd
  /\ \A i \in DOMAIN ts : /\ HasKeys(ts[i], {"name", "available", "version"},
                                     {"name", "available", "version"})
                          /\ IsText(ts[i].name) /\ ts[i].available # Odd /\ ts[i].version # Odd
  /\ DistinctTools(ts)

GoodErrors(es) ==
  es # Odd /\ \A i \in DOMAIN es : /\ HasKeys(es[i], {"error_class", "source"}, {"error_class", "source"})
                                   /\ es[i].error_class \in ERROR_CLASSES /\ es[i].source # Odd

\* from_dict() on every entry; Odd is an object from_dict() does not take.
GoodFindings(fs) ==
  fs # Odd /\ \A i \in DOMAIN fs : /\ fs[i] # Odd /\ Valid(fs[i])
                                   /\ PathOf[fs[i].File] # None

\* Why a report is rejected, or None. More findings than the limit is a
\* failure of its own, seen before any of them is read.
Rejection(r) ==
  IF \/ ~HasKeys(r, REPORT_KEYS, REPORT_KEYS)
     \/ r.schema_version # "1"
     \/ ~GoodTarget(r.target) \/ ~GoodSources(r.sources_enabled)
     \/ ~GoodTools(r.tools) \/ ~GoodErrors(r.errors) \/ r.findings = Odd
  THEN "report_schema_violation"
  ELSE IF Len(r.findings) > MAX_REPORT_FINDINGS THEN "report_finding_limit_exceeded"
  ELSE IF ~GoodFindings(r.findings) \/ r.summary = Odd THEN "report_schema_violation"
  ELSE None

-----------------------------------------------------------------------------
\* The integrity.

_rebuild_matches(r) ==
  LET meta == [files |-> r.target.files, synthesized |-> r.target.synthesized,
               synthesis |-> r.target.synthesis, sources |-> r.sources_enabled, tools |-> r.tools]
  IN  Buildable(r.findings, meta) /\ build_report(r.findings, r.errors, meta) = r

IdentityOf(f) == <<f.File, f.Resource, f.Normalized_Category>>

_dedup_invariant_holds(fs) ==
  \A i, j \in DOMAIN fs :
    is_dedup_eligible(fs[i]) /\ is_dedup_eligible(fs[j]) /\ IdentityOf(fs[i]) = IdentityOf(fs[j])
      => i = j

IntegrityFailures(r) ==
  {c \in {"rebuild_mismatch"} : ~_rebuild_matches(r)}
    \cup {c \in {"dedup_invariant_violated"} : ~_dedup_invariant_holds(r.findings)}

-----------------------------------------------------------------------------
\* Comparability of two checked reports.

ToolOf(r, name) == {t \in Range(r.tools) : t.name = name}
_usable(r, name) == \E t \in ToolOf(r, name) : t.available
Reviewed(r, path) == path \in Range(r.target.files) \cup Range(r.target.synthesized)

comparable_reasons(source, file, base, head) ==
  LET sides == {base, head}
      synthesized == \E r \in sides : file \in Range(r.target.synthesized)
      tools == SOURCE_TOOL_DEPENDENCIES[source]
                 \cup {t \in {CDK_TOOL} : synthesized /\ \E r \in sides : ToolOf(r, t) # {}}
      unreviewed == \E r \in sides : ~Reviewed(r, file)
      changed == \E name \in tools :
                   /\ _usable(base, name) /\ _usable(head, name)
                   /\ {t.version : t \in ToolOf(base, name)} # {t.version : t \in ToolOf(head, name)}
      apart == \/ synthesized /\ base.target.synthesis # head.target.synthesis
               \/ \E r \in sides : \/ source \notin Range(r.sources_enabled)
                                   \/ \E name \in tools : ~_usable(r, name)
                                   \/ \E e \in Range(r.errors) : e.source \in {None, source}
  IN  {c \in {"source_not_comparable"} : unreviewed \/ changed \/ apart}
        \cup {c \in {"tool_version_mismatch"} : changed}
        \cup {c \in {"template_not_reviewed"} : unreviewed}

summary_comparable(base, head) ==
  LET versions(r) == {<<t.name, t.version>> : t \in Range(r.tools)}
  IN  /\ base.errors = <<>> /\ head.errors = <<>>
      /\ \A t \in Range(base.tools) \cup Range(head.tools) : t.available
      /\ versions(base) = versions(head)

-----------------------------------------------------------------------------
\* Whether the declared templates can be the reviewed ones, by name only.

_side_consistent(names, path, r) ==
  /\ PathOf[path] # None /\ Reviewed(r, PathOf[path])
  /\ \A f \in Range(r.findings) : f.File = PathOf[path] /\ f.Resource # None => f.Resource \in names

\* A template is the set of its resource names, a failure, or None when none was
\* asked for.
correspondence(templates, reports, paths) ==
  IF \E side \in DOMAIN templates : templates[side].kind = "absent" THEN "not_applicable"
  ELSE IF \E side \in DOMAIN templates : templates[side].kind = "failed" THEN "unknown"
  ELSE IF \A side \in DOMAIN templates :
            _side_consistent(templates[side].names, paths[side], reports[side])
       THEN "consistent_by_name_only" ELSE "inconsistent"
=============================================================================
