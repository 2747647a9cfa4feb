----------------------------- MODULE QualitySource -----------------------------
\* The quality review of one Template (iacreview/quality.py): conditions whose
\* name contradicts their test, parameters and conditions nothing uses, a cycle
\* of references, and lists of allowed values of mixed types.
EXTENDS ResourceGraph, IamIntrinsics

CONSTANTS
  EnvironmentOfName,  \* a name that asserts an environment -> that environment
  EnvironmentsIn      \* a text -> the environments it names

QUALITY_SOURCE == "Quality Review"

-----------------------------------------------------------------------------
\* Conditions.

\* The first operand of a comparison of two that is a text, or None.
_equals_literal(definition) ==
  LET equals == Get(definition, "Fn::Equals")
      operands == IF IsList(equals) /\ Len(equals.list) = 2 THEN SelectSeq(equals.list, LAMBDA o : IsStr(o)) ELSE <<>>
  IN  IF operands = <<>> THEN None ELSE operands[1].text

Contradicts(name, literal) ==
  /\ name \in DOMAIN EnvironmentOfName /\ literal # None
  /\ EnvironmentsIn[literal] # {} /\ EnvironmentOfName[name] \notin EnvironmentsIn[literal]
detect_condition_name_logic_mismatch(doc) ==
  LET conditions == Get(doc, "Conditions")
  IN  {name \in KeysOf(conditions) : Contradicts(name, _equals_literal(conditions.map[name]))}

RECURSIVE ConditionsNamed(_)
NamedByKey(key, inner) ==
  IF key = "Fn::If" /\ IsList(inner) /\ inner.list # <<>>
  THEN {c.text : c \in {x \in {inner.list[1]} : IsStr(x)}} \cup UNION {ConditionsNamed(c) : c \in Range(Tail(inner.list))}
  ELSE IF key = "Condition" /\ IsStr(inner) THEN {inner.text}
  ELSE ConditionsNamed(inner)
ConditionsNamed(t) ==
  IF IsMap(t) THEN UNION {NamedByKey(k, t.map[k]) : k \in KeysOf(t)} ELSE UNION {ConditionsNamed(c) : c \in Children(t)}

\* Of a resource, its Condition and its Properties are looked at and nothing else.
_condition_names_used(doc) ==
  LET bodies == Children(Resources(doc))
  IN  {Get(b, "Condition").text : b \in {x \in bodies : IsStr(Get(x, "Condition"))}}
        \cup UNION {ConditionsNamed(Get(b, "Properties")) : b \in bodies}
        \cup ConditionsNamed(Get(doc, "Conditions")) \cup ConditionsNamed(Get(doc, "Outputs"))
detect_unused_condition(doc) == KeysOf(Get(doc, "Conditions")) \ _condition_names_used(doc)

-----------------------------------------------------------------------------
\* Parameters.

RECURSIVE _sub_referenced_names(_)
NamesOfSub(inner) ==
  LET body == _sub_template_string(inner)
  IN  (IF body = Missing THEN {} ELSE {FirstPart(n) : n \in SubVariables[body.text]})
        \cup (IF IsList(inner) /\ inner.list # <<>>
              THEN UNION {_sub_referenced_names(c) : c \in Range(Tail(inner.list))} ELSE {})
_sub_referenced_names(t) ==
  IF IsMap(t) THEN UNION {IF k = "Fn::Sub" THEN NamesOfSub(t.map[k]) ELSE _sub_referenced_names(t.map[k]) : k \in KeysOf(t)}
  ELSE UNION {_sub_referenced_names(c) : c \in Children(t)}

detect_unused_parameter(doc) ==
  LET sections == {Get(doc, s) : s \in {"Resources", "Conditions", "Outputs"}}
  IN  KeysOf(Get(doc, "Parameters")) \ (UNION {_iter_refs(s) : s \in {x \in sections : IsMap(x)}}
                                          \cup _sub_referenced_names(doc))

MixesTypes(allowed) ==
  IsList(allowed) /\ Len(allowed.list) >= 2 /\ {IsStr(v) : v \in Range(allowed.list)} = BOOLEAN
detect_allowed_values_mixed_types(doc) ==
  LET parameters == Get(doc, "Parameters")
  IN  {name \in KeysOf(parameters) : MixesTypes(Get(parameters.map[name], "AllowedValues"))}

-----------------------------------------------------------------------------
\* Cycles: a search in depth, of every resource, that ends with the first cycle.
\* Its state is [color, stack, cycle].

RECURSIVE Visit(_, _, _)
SearchOn(graph, state, node) ==
  IF state.cycle # <<>> THEN state
  ELSE IF state.color[node] = "grey"
       THEN LET first == CHOOSE i \in DOMAIN state.stack : state.stack[i] = node
            IN  [state EXCEPT !.cycle = SubSeq(state.stack, first, Len(state.stack)) \o <<node>>]
  ELSE IF state.color[node] = "white" THEN Visit(graph, state, node) ELSE state
Visit(graph, state, node) ==
  LET entered == [state EXCEPT !.color[node] = "grey", !.stack = Append(@, node)]
      left(reached) == IF reached.cycle # <<>> THEN reached
                       ELSE [reached EXCEPT !.color[node] = "black", !.stack = Front(@)]
  IN  left(FoldLeft(LAMBDA s, n : SearchOn(graph, s, n), entered, InOrder(graph[node])))

NotVisited(graph) == [color |-> [n \in DOMAIN graph |-> "white"], stack |-> <<>>, cycle |-> <<>>]
SearchFrom(graph, nodes) ==
  FoldLeft(LAMBDA s, n : IF s.cycle = <<>> /\ s.color[n] = "white" THEN Visit(graph, s, n) ELSE s,
           NotVisited(graph), InOrder(nodes)).cycle

\* A search that begins only at resources nothing refers to.
_find_cycle_FromRoots(graph) == SearchFrom(graph, {n \in DOMAIN graph : references_to(graph, n) = {}})

_find_cycle(graph) == SearchFrom(graph, DOMAIN graph)

-----------------------------------------------------------------------------
\* The findings. All but a cycle are about no resource.

QualityFinding(file, id, path, rule, type, severity) ==
  OwnFinding(QUALITY_SOURCE, "TemplateQuality", type, severity, file, id, path, rule, rule)
QualityFindings(doc, file) ==
  LET each(names, Path(_), rule, type, severity) ==
        LET found == InOrder(names)
        IN  [i \in DOMAIN found |-> QualityFinding(file, None, Path(found[i]), rule, type, severity)]
      condition(name) == <<"Conditions", name>>
      parameter(name) == <<"Parameters", name>>
      allowed(name) == <<"Parameters", name, "AllowedValues">>
      cycle(nodes) == IF nodes = <<>> THEN <<>>
                      ELSE <<QualityFinding(file, nodes[1], <<"Resources", nodes[1]>>, "circular_dependency", "Validity", "HIGH")>>
  IN  each(detect_condition_name_logic_mismatch(doc), condition, "condition_name_logic_mismatch", "BestPractice", "MEDIUM")
        \o each(detect_unused_parameter(doc), parameter, "unused_parameter", "Informational", "LOW")
        \o each(detect_unused_condition(doc), condition, "unused_condition", "Informational", "LOW")
        \o cycle(_find_cycle(build_graph(doc)))
        \o each(detect_allowed_values_mixed_types(doc), allowed, "allowed_values_mixed_types", "BestPractice", "LOW")
=============================================================================
