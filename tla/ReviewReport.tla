----------------------------- MODULE ReviewReport -----------------------------
\* How a review makes its report. Deterministic deduplication of the Findings of
\* one Template (iacreview/dedup.py): one Finding for each resource and category,
\* made from all that share them, whatever the order they come in. Then the
\* report (iacreview/report.py): the Findings are normalised, sorted, numbered
\* and validated, and counted in the summary. A Finding that is not valid fails
\* the whole report.
EXTENDS Finding

-----------------------------------------------------------------------------
\* Deduplication.

NoKey == <<>>
dedup_key(f) == IF is_dedup_eligible(f) THEN <<Lex(f.Resource), Lex(f.Normalized_Category)>>
                ELSE NoKey

OrderKey(f) == <<SOURCE_ORDER[f.Source[1]], Lex(f.Text)>> \o CanonicalForm(f, f.ID)
Ordered(fs) == StableSort(fs, LAMBDA f, g : LexLess(OrderKey(f), OrderKey(g)))

\* max(..., key=...): the first of the largest.
Highest(values, order) ==
  values[CHOOSE i \in DOMAIN values :
           /\ \A j \in DOMAIN values : order[values[j]] <= order[values[i]]
           /\ \A j \in 1..(i - 1) : order[values[j]] < order[values[i]]]

FirstWhere(fs, Test(_), otherwise) ==
  LET found == Chosen(fs, Test) IN IF found = <<>> THEN otherwise ELSE found[1]

location_primary(ordered) == FirstWhere(ordered, LAMBDA f : f.Line # None, ordered[1])

\* A merge that keeps the evidence of one Source only once.
merged_evidence_PerSource(ordered) ==
  StableSort(ordered[1].Evidence,
             LAMBDA e, g : SOURCE_ORDER[e.Source] < SOURCE_ORDER[g.Source])

merged_evidence(ordered) ==
  StableSort(FlattenSeq([i \in DOMAIN ordered |-> ordered[i].Evidence]),
             LAMBDA e, g : SOURCE_ORDER[e.Source] < SOURCE_ORDER[g.Source])

merged_confidence(ordered, sources) ==
  LET highest == Highest([i \in DOMAIN ordered |-> ordered[i].Confidence], CONFIDENCE_ORDER)
  IN  IF AGENT_SOURCE \in Range(sources) /\ CONFIDENCE_ORDER[highest] > CONFIDENCE_ORDER["Likely"]
      THEN "Likely" ELSE highest

MergeOf(ordered, sources, primary) ==
  [ordered[1] EXCEPT
    !.ID = UNASSIGNED_ID,
    !.FindingType = Highest([i \in DOMAIN ordered |-> ordered[i].FindingType], FINDING_TYPE_ORDER),
    !.Severity = Highest([i \in DOMAIN ordered |-> ordered[i].Severity], SEVERITY_ORDER),
    !.Confidence = merged_confidence(ordered, sources),
    !.Source = sources,
    !.File = primary.File, !.Line = primary.Line, !.Path = primary.Path,
    !.Evidence = merged_evidence(ordered),
    !.Fix = FirstWhere(ordered, LAMBDA f : f.Fix # None, [Fix |-> None]).Fix]
merge_group(group) ==
  LET merged(ordered) == MergeOf(ordered, sorted_sources(UNION {Range(f.Source) : f \in Range(ordered)}),
                                 location_primary(ordered))
  IN  IF Len(group) = 1 THEN group[1] ELSE merged(Ordered(group))

deduplicate(findings) ==
  LET group(key) == Chosen(findings, LAMBDA f : dedup_key(f) = key)
      merged(keys) == [i \in DOMAIN keys |-> merge_group(group(keys[i]))]
  IN  merged(SortedSet({dedup_key(f) : f \in Range(findings)} \ {NoKey}, LexLess)) \o Ordered(group(NoKey))

-----------------------------------------------------------------------------
\* The report.

CDK_SYNTHESIS_OUTCOMES == {"not_applicable", "skipped_unconfirmed", "ran"}
REPORT_KEYS == {"schema_version", "target", "sources_enabled", "tools", "findings",
                "errors", "summary"}

Tools == [name : Texts \ {""}, available : BOOLEAN, version : OptionalTexts]
Metas == [files : Seq(DOMAIN PathOf), synthesized : Seq(DOMAIN PathOf), synthesis : CDK_SYNTHESIS_OUTCOMES,
          sources : Seq(DOMAIN SOURCE_ORDER), tools : Seq(Tools)]

normalize_output_path(spelling) == PathOf[spelling]
_normalize_path_list(spellings) ==
  SortedSet({PathOf[s] : s \in Range(spellings)}, LAMBDA a, b : Lex(a) < Lex(b))
_with_normalized_location(f) == [f EXCEPT !.File = PathOf[@]]

SortKey(f) == <<-SEVERITY_ORDER[f.Severity], Lex(f.Resource), Lex(f.Normalized_Category),
                Lex(f.Text)>> \o CanonicalForm(f, UNASSIGNED_ID)
sort_findings(fs) == StableSort(fs, LAMBDA f, g : LexLess(SortKey(f), SortKey(g)))
assign_ids(fs) == [i \in DOMAIN fs |-> [fs[i] EXCEPT !.ID = i]]

\* Numbers given before the order is made.
Numbered_IdsFirst(fs) ==
  sort_findings(assign_ids([i \in DOMAIN fs |-> _with_normalized_location(fs[i])]))

Numbered(fs) ==
  assign_ids(sort_findings([i \in DOMAIN fs |-> _with_normalized_location(fs[i])]))

_summary(fs, synthesized) ==
  LET n == DOMAIN fs
  IN  [total |-> Len(fs),
       by_finding_type |-> [t \in DOMAIN FINDING_TYPE_ORDER |-> Cardinality({i \in n : fs[i].FindingType = t})],
       by_severity |-> [s \in DOMAIN SEVERITY_ORDER |-> Cardinality({i \in n : fs[i].Severity = s})],
       by_source |-> [s \in DOMAIN SOURCE_ORDER |-> Cardinality({i \in n : s \in Range(fs[i].Source)})],
       synthesized |-> Cardinality({i \in n : fs[i].File \in Range(synthesized)}),
       passed_all_checks |-> fs = <<>>]

_tool_entries(tools) == StableSort(tools, LAMBDA a, b : Lex(a.name) < Lex(b.name))
DistinctTools(tools) == \A i, j \in DOMAIN tools : tools[i].name = tools[j].name => i = j

\* meta is [files, synthesized, synthesis, sources, tools], as ReportMeta.
Buildable(findings, meta) ==
  /\ \A f \in Range(findings) : f.Severity \in DOMAIN SEVERITY_ORDER /\ PathOf[f.File] # None
  /\ \A f \in Range(Numbered(findings)) : Valid(f)
  /\ \A p \in Range(meta.files) \cup Range(meta.synthesized) : PathOf[p] # None
  /\ meta.synthesis \in CDK_SYNTHESIS_OUTCOMES
  /\ Range(meta.sources) \subseteq DOMAIN SOURCE_ORDER
  /\ DistinctTools(meta.tools)

\* build_report() raises unless Buildable.
build_report(findings, errors, meta) ==
  LET synthesized == _normalize_path_list(meta.synthesized)
  IN  [schema_version |-> "1",
       target |-> [files |-> _normalize_path_list(meta.files), synthesis |-> meta.synthesis,
                   synthesized |-> synthesized],
       sources_enabled |-> sorted_sources(Range(meta.sources)),
       tools |-> _tool_entries(meta.tools),
       findings |-> Numbered(findings),
       errors |-> errors,
       summary |-> _summary(Numbered(findings), synthesized)]
=============================================================================
