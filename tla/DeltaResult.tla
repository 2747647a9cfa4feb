------------------------------ MODULE DeltaResult ------------------------------
\* What the delta tool prints (iacreview/deltareport.py): the result of each
\* part, or "unanalyzable" with the failure that kept it from one, and the exit
\* code of the first failure. In the anonymized form every identifier of a
\* template becomes a token; closed vocabularies stay.
\*
\* A request is what one invocation read and found (DeltaTool!Request).
EXTENDS FindingDelta

CONSTANTS
  MAX_OUTPUT,     \* the size limit of a result, in entries
  PlainTypes,     \* resource types that are spelled like those of AWS
  PlainRules,     \* Source -> the rule IDs of its closed set
  PlainTools,     \* cfn-lint, cfn-guard and cdk
  TopLevel,       \* the sections of a template
  Intrinsics,     \* Ref, Condition and the Fn:: functions
  Position2Plain  \* section -> the keys its entries may have

\* Two changes that render alike are one here: the result is a set of them.

-----------------------------------------------------------------------------
\* Failures, their order, and the exit code each maps to.

EXIT_CODES == [invalid_arguments |-> 2, input_not_found |-> 3, path_violation |-> 7,
  template_too_large |-> 3, report_too_large |-> 3, report_finding_limit_exceeded |-> 3,
  template_node_limit_exceeded |-> 3, template_depth_limit_exceeded |-> 3,
  change_entry_limit_exceeded |-> 3, output_size_limit_exceeded |-> 3,
  template_parse_failure |-> 4, template_encoding_failure |-> 4, template_alias_cycle |-> 4,
  template_not_reviewable |-> 8, report_parse_failure |-> 4, report_duplicate_json_key |-> 4,
  report_schema_violation |-> 4, parser_divergence |-> 1, unexpected |-> 1]

Failure(code, side, input) == [code |-> code, side |-> side, input |-> input]

_INPUT_RANK == [template |-> 0, report |-> 1, output |-> 2]
_SIDE_RANK(side) == CASE side = "base" -> 0 [] side = "head" -> 1 [] OTHER -> 2
FailureBefore(f, g) == LexLess(<<_INPUT_RANK[f.input], _SIDE_RANK(f.side)>>,
                               <<_INPUT_RANK[g.input], _SIDE_RANK(g.side)>>)
_ordered_failures(failures) == SortedSet(failures, FailureBefore)

\* A part that fails for whatever failed.
_first_failure_Any(failures, inputs) == IF failures = <<>> THEN None ELSE failures[1]

_first_failure(failures, inputs) ==
  FirstWhere(failures, LAMBDA f : f.input \in inputs, None)

exit_code(failures) == IF failures = <<>> THEN 0 ELSE EXIT_CODES[failures[1].code]

-----------------------------------------------------------------------------
\* Names. Every rendered text is <<kind, value>>. A token numbers the identifiers
\* of a result in their order; here it is the place in the order of all texts.

Plain(text) == <<"text", text>>
Token(text) == <<"id", Lex(text)>>
identifier(plain, text) == IF plain THEN Plain(text) ELSE Token(text)
_optional_identifier(plain, text) == IF text = None THEN None ELSE identifier(plain, text)

\* str(index), and the key of digits that an index of a path stands for when no
\* document has a list there.
Decimal(index) == CHOOSE d \in {"0", "1", "2", "3"} : Digits[d] = index
_digit_key(index, nodes) ==
  LET keys == {k \in UNION {KeysOf(n) : n \in nodes} : k \in DOMAIN Digits /\ Digits[k] = index}
  IN  IF Decimal(index) \in keys \/ keys = {} THEN Decimal(index)
      ELSE CHOOSE k \in keys : \A l \in keys : Lex(k) <= Lex(l)

ElementAt(node, index) ==
  LET i == {j \in DOMAIN node.list : Index(j) = index}
  IN  IF i = {} THEN Missing ELSE node.list[CHOOSE j \in i : TRUE]
InList(node, index) == IsList(node) /\ ElementAt(node, index) # Missing

\* The key each segment of digits had, or "".
_original_keys(path, docs) ==
  LET one(state, segment) ==
        LET key == IF segment \in Range(Digits) /\ \A n \in state.nodes : ~InList(n, segment)
                   THEN _digit_key(segment, state.nodes) ELSE ""
            step(n) == IF IsMap(n) THEN Get(n, IF key # "" THEN key ELSE segment)
                       ELSE IF IsList(n) THEN ElementAt(n, segment) ELSE Missing
        IN  [keys |-> Append(state.keys, key), nodes |-> {step(n) : n \in state.nodes}]
  IN  FoldLeft(one, [keys |-> <<>>, nodes |-> docs], path).keys

_path_item(position, section, text, plain) ==
  IF \/ position = 1 /\ text \in TopLevel
     \/ position = 3 /\ section \in DOMAIN Position2Plain /\ text \in Position2Plain[section]
     \/ position > 2 /\ text \in Intrinsics
  THEN Plain(text) ELSE identifier(plain, text)

_path(path, docs, plain) ==
  LET originals == _original_keys(path, docs)
      isIndex(i) == path[i] \in Range(Digits)
      text(i) == IF ~isIndex(i) THEN path[i]
                 ELSE IF docs = {} THEN Decimal(path[i]) ELSE originals[i]
  IN  [i \in DOMAIN path |-> IF isIndex(i) /\ docs # {} /\ originals[i] = ""
                             THEN <<"index", path[i]>> ELSE _path_item(i, path[1], text(i), plain)]

\* "" is the type of a resource that has none.
_resource_type(type, plain) ==
  IF type \in PlainTypes \cup {""} THEN Plain(type) ELSE identifier(plain, type)
_category(c) == IF c \in Categories THEN Plain(c) ELSE Token(c)
_rule_id(source, rule) ==
  IF rule = None THEN None
  ELSE IF source \in DOMAIN PlainRules /\ rule \in PlainRules[source] THEN Plain(rule) ELSE Token(rule)
_tool_name(name) == IF name \in PlainTools THEN Plain(name) ELSE Token(name)

-----------------------------------------------------------------------------
\* The parts of the result.

DocOf(request, side) ==
  IF request.templates = None THEN {}
  ELSE {t.value.doc : t \in {x \in {request.templates[side]} : x.value # None}}

\* The documents a finding's path may be read in: those of its own side, when
\* it is about the compared template.
DocsOf(request, side, file) ==
  LET path == IF request.templates = None THEN None
              ELSE IF request.reviewed_path # None THEN request.reviewed_path
              ELSE request.templates[side].path
  IN  IF file = path THEN DocOf(request, side) ELSE {}

_change(request, c, plain) ==
  [section |-> _path_item(1, c.section, c.section, plain),
   path |-> _path(c.path, DocOf(request, "base") \cup DocOf(request, "head"), plain),
   change |-> c.change, type_changed |-> c.type_changed, qualifiers |-> c.qualifiers, hint |-> c.hint,
   types |-> [s \in SIDES |-> _resource_type(c.types[s], plain)]]

_uncompared(request, u, plain) ==
  [path |-> _path(u.path, DocOf(request, "base") \cup DocOf(request, "head"), plain), reason |-> u.reason]

_evidence(keys) == [i \in DOMAIN keys |-> <<keys[i][1], _rule_id(keys[i][1], keys[i][2])>>]
_missing_evidence(deltas) == {[d EXCEPT !.RuleId = _rule_id(d.Source, @)] : d \in deltas}

_projection(request, p, side, plain) ==
  [p EXCEPT !.Resource = _optional_identifier(plain, @),
            !.Normalized_Category = _category(@),
            !.TemplatePath = IF @ = None THEN None ELSE _path(@, DocsOf(request, side, p.File), plain),
            !.Evidence = _evidence(@)]

_entry(request, e, plain) ==
  [e EXCEPT !.base = IF @ = None THEN None ELSE _projection(request, @, "base", plain),
            !.head = IF @ = None THEN None ELSE _projection(request, @, "head", plain),
            !.absent_in_head = _missing_evidence(@),
            !.absent_in_base = _missing_evidence(@)]

_report_input(r) ==
  [path |-> r.path,
   tools |-> IF r.value = None THEN None
             ELSE [i \in DOMAIN r.value.tools |-> _tool_name(r.value.tools[i].name)]]

Analyzed(part) == part # None /\ part.state = "analyzed"
Unanalyzable(failure) == [state |-> "unanalyzable", failure |-> failure]

_semantic_diff(request, failure, plain) ==
  LET d == request.diff
  IN  IF request.templates = None THEN None
      ELSE IF failure # None THEN Unanalyzable(failure)
      ELSE [state |-> "analyzed",
            observation |-> IF d.changes = {} THEN "no_changes_observed" ELSE "changes_observed",
            completeness |-> IF d.uncompared = {} THEN "complete" ELSE "partial",
            limitations |-> d.limitations,
            uncompared |-> {_uncompared(request, u, plain) : u \in d.uncompared},
            changes |-> {_change(request, c, plain) : c \in d.changes}]

DECIDED == {"New", "Resolved", "Unchanged"}
_finding_delta(request, failure, plain) ==
  LET d == request.delta
  IN  IF request.reports = None THEN None
      ELSE IF failure # None THEN Unanalyzable(failure)
      ELSE [state |-> "analyzed",
            observation |-> IF \E e \in d.entries : e.observation # "matched" \/ e.changes # {}
                            THEN "changes_observed" ELSE "no_changes_observed",
            completeness |-> IF \A e \in d.entries : e.classification \in DECIDED
                             THEN "complete" ELSE "partial",
            integrity |-> d.integrity, correspondence |-> d.correspondence, comparable |-> d.comparable,
            declared |-> request.declared,
            undeclared |-> {c \in Range(DECLARATION_CODES) \ request.declared :
                              c = TEMPLATE_DECLARATION => request.templates # None},
            entries |-> {_entry(request, e, plain) : e \in d.entries}]

_render(request, plain, failures, outputFailed) ==
  LET blocked(input) == _first_failure(failures, {input} \cup {o \in {"output"} : outputFailed})
  IN  [inputs |-> IF request.reports = None THEN None
                  ELSE [s \in SIDES |-> _report_input(request.reports[s])],
       semantic_diff |-> _semantic_diff(request, blocked("template"), plain),
       finding_delta |-> _finding_delta(request, blocked("report"), plain),
       errors |-> [i \in DOMAIN failures |-> failures[i].code]]

\* The size of a result, of which only the diff is bounded before it is built.
_output_lower_bound(request) ==
  IF request.diff = None THEN 0
  ELSE Cardinality(request.diff.changes) + Cardinality(request.diff.uncompared)
OutputSize(request) ==
  _output_lower_bound(request) + (IF request.delta = None THEN 0 ELSE Cardinality(request.delta.entries))

render_delta_report(request, plain) ==
  LET failures == _ordered_failures(request.failures)
      tooLarge == OutputSize(request) > MAX_OUTPUT
      all == IF tooLarge THEN Append(failures, Failure("output_size_limit_exceeded", None, "output"))
             ELSE failures
  IN  [exit |-> exit_code(all), report |-> _render(request, plain, all, tooLarge)]
=============================================================================
