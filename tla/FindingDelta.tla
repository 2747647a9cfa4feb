----------------------------- MODULE FindingDelta -----------------------------
\* How the Findings of two checked reports are matched and classified
\* (iacreview/delta.py).
EXTENDS ReportCheck, Bags

DECLARATION_CODES ==
  <<"reports_unmodified", "same_plugin_version", "same_rule_set", "same_tool_configuration",
    "same_agent_findings_input", "reports_match_templates">>
TEMPLATE_DECLARATION == "reports_match_templates"

EvidenceKeys(f) == [i \in DOMAIN f.Evidence |-> <<f.Evidence[i].Source, f.Evidence[i].RuleId>>]
Keys(p) == ToBag(p.Evidence)

\* What of a Finding takes part in the comparison; its wording, its excerpts and
\* its line do not. n is its place in the report.
project(f, n) ==
  [n |-> n, ID |-> f.ID, File |-> f.File, Resource |-> f.Resource,
   Normalized_Category |-> f.Normalized_Category, FindingType |-> f.FindingType,
   Severity |-> f.Severity, Confidence |-> f.Confidence, Source |-> f.Source,
   TemplatePath |-> IF f.Path = None THEN None ELSE canonical_template_path(f.Path),
   Evidence |-> EvidenceKeys(f)]

Fingerprint(p) == <<IdentityOf(p), p.FindingType, p.TemplatePath, Keys(p)>>

required_declarations(corr) ==
  {d \in Range(DECLARATION_CODES) : d = TEMPLATE_DECLARATION => corr # "not_applicable"}

_evidence_deltas(present, other, base, head) ==
  LET missing == Keys(present) (-) Keys(other)
  IN  {[Source |-> key[1], RuleId |-> key[2], times |-> missing[key],
        comparable |-> comparable_reasons(key[1], present.File, base, head) = {}]
         : key \in BagToSet(missing)}

Changes(left, right) ==
  {c \in {"Severity", "FindingType", "Confidence", "Source"} : left[c] # right[c]}
    \cup {c \in {"Location.TemplatePath"} : left.TemplatePath # right.TemplatePath}
    \cup {c \in {"Evidence"} : Keys(left) # Keys(right)}

Entry(observation, classification, reasons, missing, base, head) ==
  [observation |-> observation, classification |-> classification, reasons |-> reasons,
   missing |-> missing, base |-> base, head |-> head, stage |-> 0, changes |-> {},
   absent_in_head |-> {}, absent_in_base |-> {}]

_matched(stage, left, right, base, head) ==
  [Entry("matched", "Unchanged", {}, {}, left, right) EXCEPT
     !.stage = stage, !.changes = Changes(left, right),
     !.absent_in_head = _evidence_deltas(left, right, base, head),
     !.absent_in_base = _evidence_deltas(right, left, base, head)]

_one_sided(observation, classification, reasons, missing, p, isHead) ==
  Entry(observation, classification, reasons, missing,
        IF isHead THEN None ELSE p, IF isHead THEN p ELSE None)

\* What a classification needs to know besides the Finding: c is
\* [base, head, missing, integrity, mismatch, hints].
Classifier(base, head, declared, corr, hints) ==
  [base |-> base, head |-> head, missing |-> required_declarations(corr) \ declared,
   integrity |-> IntegrityFailures(base) \cup IntegrityFailures(head),
   mismatch |-> corr \in {"inconsistent", "unknown"}, hints |-> hints]

\* The rename hints and the integrity of the reports are forgotten.
ambiguous_reasons_SourcesOnly(c, p) ==
  UNION {comparable_reasons(s, p.File, c.base, c.head) : s \in Range(p.Source)}

ambiguous_reasons(c, p) ==
  (UNION {comparable_reasons(s, p.File, c.base, c.head) : s \in Range(p.Source)})
    \cup {r \in {"non_deterministic_source"} : Range(p.Source) = {AGENT_SOURCE}}
    \cup {r \in {"possible_logical_id_rename"} : p.Resource \in c.hints}
    \cup {r \in {"report_integrity_failed"} : c.integrity # {}}
    \cup {r \in {"template_report_mismatch"} : c.mismatch}

classify(c, p, isHead) ==
  LET reasons == ambiguous_reasons(c, p)
      side == IF isHead THEN "head_only" ELSE "base_only"
  IN  IF reasons # {} THEN _one_sided(side, "Ambiguous", reasons, {}, p, isHead)
      ELSE IF c.missing # {}
           THEN _one_sided(side, "Unconfirmed", {"input_declaration_absent"}, c.missing, p, isHead)
      ELSE _one_sided(side, IF isHead THEN "New" ELSE "Resolved", {}, {}, p, isHead)

-----------------------------------------------------------------------------
\* Matching within one (File, Resource, Normalized_Category).

Occurrences(ps, p) == Cardinality({q \in ps : Fingerprint(q) = Fingerprint(p)})
Singles(ps) == {p \in ps : Occurrences(ps, p) = 1}

\* The Findings that occur once on their side, with their one counterpart.
Counterparts(left, right) ==
  {pair \in Singles(left) \X Singles(right) : Fingerprint(pair[1]) = Fingerprint(pair[2])}
Unpaired(ps, side, pairs) == ps \ {pair[side] : pair \in pairs}

\* What is left of one side, p of it, when rest is what is left of the other: a
\* Finding that could be any of several is not classified.
Unmatched(ps, p, isHead, rest, c) ==
  LET reasons == {r \in {"identity_undetermined"} : rest # {}}
                   \cup {r \in {"duplicate_fingerprint"} : Occurrences(ps, p) > 1}
  IN  IF reasons # {} THEN _one_sided("unmatched", "Ambiguous", reasons, {}, p, isHead)
      ELSE classify(c, p, isHead)

\* What is matched by Fingerprint, and what is left of each side.
ByFingerprint(left, right, c) ==
  LET pairs == Counterparts(left, right)
      restLeft == Unpaired(left, 1, pairs)
      restRight == Unpaired(right, 2, pairs)
  IN  {_matched(2, pair[1], pair[2], c.base, c.head) : pair \in pairs}
        \cup {Unmatched(left, p, FALSE, restRight, c) : p \in restLeft}
        \cup {Unmatched(right, p, TRUE, restLeft, c) : p \in restRight}

_match_group(left, right, eligible, c) ==
  IF eligible /\ Cardinality(left) = 1 /\ Cardinality(right) = 1
  THEN {_matched(1, CHOOSE p \in left : TRUE, CHOOSE p \in right : TRUE, c.base, c.head)}
  ELSE ByFingerprint(left, right, c)

Projections(r) == {project(r.findings[n], n) : n \in DOMAIN r.findings}
OfKey(ps, key) == {p \in ps : IdentityOf(p) = key}

match_and_classify(base, head, declared, corr, hints) ==
  LET c == Classifier(base, head, declared, corr, hints)
      left == Projections(base)
      right == Projections(head)
  IN  UNION {_match_group(OfKey(left, key), OfKey(right, key),
                          key[2] # None /\ key[3] # OTHER_CATEGORY, c)
               : key \in {IdentityOf(p) : p \in left \cup right}}
=============================================================================
