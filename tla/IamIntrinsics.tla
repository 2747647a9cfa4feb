----------------------------- MODULE IamIntrinsics -----------------------------
\* The intrinsic functions of a policy (iacreview/iam/intrinsics.py): which
\* branches of Fn::If a value has, what it resolves to, and what kind of
\* principal it names. Nothing is evaluated: both branches of a condition count,
\* and a Default can be overridden.
EXTENDS TemplateTree, IamVerdict

CONSTANTS
  MAX_NESTING_DEPTH,
  SubVariables,       \* a template string of Fn::Sub -> the names it substitutes
  SubFixed,           \* a template string of Fn::Sub -> its text, unescaped
  PrincipalTexts      \* a text -> the class of principal it names

NO_VALUE == "AWS::NoValue"
ACCOUNT_ID == "AWS::AccountId"

-----------------------------------------------------------------------------
\* The branches of Fn::If, each with the choices that lead to it.

_conditional_parts(value) ==
  /\ Has(value, "Fn::If") /\ IsList(value.map["Fn::If"])
  /\ Len(value.map["Fn::If"].list) = 3 /\ IsStr(value.map["Fn::If"].list[1])

RECURSIVE _expand_into(_, _, _)
_expand_into(value, branch, depth) ==
  IF ~_conditional_parts(value) \/ depth >= MAX_NESTING_DEPTH
  THEN <<[value |-> value, branch |-> branch]>>
  ELSE LET parts == value.map["Fn::If"].list
       IN  _expand_into(parts[2], Append(branch, <<parts[1].text, TRUE>>), depth + 1)
             \o _expand_into(parts[3], Append(branch, <<parts[1].text, FALSE>>), depth + 1)
expand_conditionals(value) == _expand_into(value, <<>>, 0)

-----------------------------------------------------------------------------
\* What a value resolves to.

Nothing == [groups |-> {}, unresolved |-> {}]
Group(texts, all, branch, blocker) ==
  [groups |-> {[texts |-> texts, all |-> all, branch |-> branch, blocker |-> blocker]}, unresolved |-> {}]
Unresolved(intrinsic, branch) ==
  [groups |-> {}, unresolved |-> {[intrinsic |-> intrinsic, branch |-> branch]}]
\* A union that keeps what the parts resolve to and forgets what they do not.
Together_GroupsOnly(resolutions) == [groups |-> UNION {r.groups : r \in resolutions}, unresolved |-> {}]
Together(resolutions) == [groups |-> UNION {r.groups : r \in resolutions},
                          unresolved |-> UNION {r.unresolved : r \in resolutions}]

_function_key(value) == KeysOf(value) \cap Functions_

_allowed_values(parameters, name) ==
  LET allowed == Get(Get(parameters, name), "AllowedValues")
  IN  IF IsList(allowed) THEN allowed.list ELSE <<>>

_resolve_allowed_values(allowed, branch) ==
  LET texts == {v.text : v \in {w \in Range(allowed) : IsStr(w)}}
  IN  Together({Group(texts, TRUE, branch, [intrinsic |-> "Ref", branch |-> branch]) : x \in {y \in {1} : texts # {}}}
                 \cup {Unresolved("Ref", branch) : v \in {w \in Range(allowed) : ~IsStr(w)}})

_resolve_ref(name, branch, parameters) ==
  IF ~IsStr(name) THEN Unresolved("Ref", branch)
  ELSE IF name.text = NO_VALUE THEN Nothing
  ELSE IF name.text \in DOMAIN PseudoParameters
       THEN Group({PseudoParameters[name.text]}, FALSE, branch, NoBlocker)
  ELSE IF _allowed_values(parameters, name.text) # <<>>
       THEN _resolve_allowed_values(_allowed_values(parameters, name.text), branch)
  ELSE Unresolved("Ref", branch)

\* The template string of Fn::Sub, or Missing.
_sub_template_string(value) ==
  IF IsStr(value) THEN value
  ELSE IF IsList(value) /\ value.list # <<>> /\ IsStr(value.list[1]) THEN value.list[1] ELSE Missing
Undetermined(text) == SubVariables[text] \ DOMAIN PseudoParameters

_resolve_sub(value, branch) ==
  LET string == _sub_template_string(value)
  IN  IF string = Missing THEN Unresolved("Fn::Sub", branch)
      ELSE Group({SubFixed[string.text]}, FALSE, branch,
                 IF Undetermined(string.text) = {} THEN NoBlocker
                 ELSE [intrinsic |-> "Fn::Sub", branch |-> branch])

_resolve_mapping(value, branch, parameters) ==
  IF Has(value, "Ref") THEN _resolve_ref(value.map["Ref"], branch, parameters)
  ELSE IF Has(value, "Fn::Sub") THEN _resolve_sub(value.map["Fn::Sub"], branch)
  ELSE IF _function_key(value) # {}
       THEN Unresolved(CHOOSE f \in _function_key(value) : TRUE, branch)
  ELSE Unresolved("mapping", branch)

RECURSIVE _resolve_into(_, _, _, _)
_resolve_branch(value, branch, depth, parameters) ==
  IF IsStr(value) THEN Group({value.text}, FALSE, branch, NoBlocker)
  ELSE IF IsList(value)
       THEN Together({_resolve_into(e, branch, depth, parameters) : e \in Range(value.list)})
  ELSE IF IsMap(value) THEN _resolve_mapping(value, branch, parameters)
  ELSE Nothing

_resolve_into(value, branch, depth, parameters) ==
  IF depth >= MAX_NESTING_DEPTH THEN Unresolved("too deep", branch)
  ELSE Together({_resolve_branch(b.value, branch \o b.branch, depth + 1, parameters)
                   : b \in Range(expand_conditionals(value))})
resolve(value, parameters) == _resolve_into(value, <<>>, 0, parameters)

\* The texts that match are left out: nothing but the wording names them.
TextsOf(resolution) == UNION {g.texts : g \in resolution.groups}
Evaluation(resolution, accepted) ==
  [verdict |-> verdict_for(resolution, accepted), blockers |-> Blockers(resolution, accepted)]

-----------------------------------------------------------------------------
\* The class of a principal.

_classify_principal_string(text) ==
  IF text \in DOMAIN PrincipalTexts THEN PrincipalTexts[text] ELSE "unresolvable"

_classify_sub(value) ==
  LET string == _sub_template_string(value)
  IN  IF string = Missing THEN "unresolvable"
      ELSE IF SubVariables[string.text] \ {ACCOUNT_ID} # {} THEN "unresolvable"
      ELSE IF SubVariables[string.text] # {} THEN "same_account"
      ELSE _classify_principal_string(SubFixed[string.text])

\* "*", or exactly the mapping {AWS: "*"}.
IsStarPrincipal(value) ==
  IsStrOf(value, "*") \/ (KeysOf(value) = {"AWS"} /\ IsStrOf(value.map["AWS"], "*"))

classify_principal(value) ==
  IF IsStarPrincipal(value) THEN "star"
  ELSE IF Has(value, "Ref") /\ IsStrOf(value.map["Ref"], ACCOUNT_ID) THEN "same_account"
  ELSE IF Has(value, "Fn::Sub") THEN _classify_sub(value.map["Fn::Sub"])
  ELSE IF IsStr(value) THEN _classify_principal_string(value.text)
  ELSE "unresolvable"
=============================================================================
