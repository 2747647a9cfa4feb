------------------------------ MODULE IamReference ------------------------------
\* What an IAM check is about, without the way it is made: a choice of the
\* conditions of a Template deploys certain policies, and a rule may hold of one
\* of them unless its text rules that out. Nothing here is translated from the
\* code; IamDetectors is compared with it.
EXTENDS IamDetectors

RECURSIVE ConditionNames(_), Deployed(_, _), Possible(_, _, _), PossiblePrincipal(_, _)
ConditionNames(t) ==
  {t.map["Fn::If"].list[1].text : x \in {y \in {t} : _conditional_parts(y)}}
    \cup UNION {ConditionNames(c) : c \in Children(t)}

\* The tree when exactly the conditions of holds are true.
Deployed(t, holds) ==
  IF _conditional_parts(t)
  THEN LET parts == t.map["Fn::If"].list
       IN  Deployed(parts[IF parts[1].text \in holds THEN 2 ELSE 3], holds)
  ELSE IF Has(t, "Ref") /\ IsStrOf(t.map["Ref"], NO_VALUE) THEN Missing
  ELSE IF IsMap(t)
       THEN Map([k \in {j \in KeysOf(t) : Deployed(t.map[j], holds) # Missing} |-> Deployed(t.map[k], holds)])
  ELSE IF IsList(t)
       THEN List(SelectSeq([i \in DOMAIN t.list |-> Deployed(t.list[i], holds)], LAMBDA c : c # Missing))
  ELSE t

\* Whether a deployed element may satisfy a test.
Possible(value, test, parameters) ==
  IF IsStr(value) THEN Satisfies(test, value.text)
  ELSE IF IsList(value) THEN \E v \in Range(value.list) : Possible(v, test, parameters)
  ELSE IF Has(value, "Ref")
       THEN LET name == value.map["Ref"].text
            IN  IF name \in DOMAIN PseudoParameters THEN Satisfies(test, PseudoParameters[name])
                ELSE LET allowed == _allowed_values(parameters, name)
                     IN  allowed # <<>> => \E v \in Range(allowed) : IsStr(v) => Satisfies(test, v.text)
  ELSE IF Has(value, "Fn::Sub")
       THEN LET string == value.map["Fn::Sub"].text
            IN  Undetermined(string) # {} \/ Satisfies(test, SubFixed[string])
  ELSE KeysOf(value) \cap Functions_ # {}

\* Whether a deployed principal may be of one of the classes.
PossiblePrincipal(value, classes) ==
  IF IsStarPrincipal(value) THEN "star" \in classes
  ELSE IF IsStr(value) THEN value.text \in DOMAIN PrincipalTexts => PrincipalTexts[value.text] \in classes
  ELSE IF IsList(value) THEN \E v \in Range(value.list) : PossiblePrincipal(v, classes)
  ELSE IF Has(value, "Ref") THEN value.map["Ref"].text \notin DOMAIN PseudoParameters
  ELSE IF Has(value, "Fn::Sub")
       THEN LET string == value.map["Fn::Sub"].text
            IN  IF SubVariables[string] = {} THEN PossiblePrincipal(Text(SubFixed[string]), classes)
                ELSE Undetermined(string) # {}
  ELSE _is_intrinsic(value) \/ \E k \in KeysOf(value) : PossiblePrincipal(value.map[k], classes)

-----------------------------------------------------------------------------
\* The policies of a resource, each in its place: the value of a property that
\* holds one, and what a Lambda permission says. Where a function gives a list
\* of policies, or an entry of it, the function stands for them.

PermissionDocument(properties) ==
  LET bounds == {LAMBDA_PERMISSION_CONDITION_PROPERTIES[p]
                   : p \in KeysOf(properties) \cap DOMAIN LAMBDA_PERMISSION_CONDITION_PROPERTIES}
  IN  Map([Statement |-> Map([Effect |-> Text("Allow"), Principal |-> Get(properties, "Principal"),
                              Condition |-> Map([StringEquals |-> Map([b \in bounds |-> Text(b)])])])])

PoliciesOf(id, resource) ==
  LET type == ResourceType(resource)
      properties == Get(resource, "Properties")
      at == <<"Resources", id, "Properties">>
      policy(kind, path, document) == [kind |-> kind, path |-> path, document |-> document]
      under(kind, path, holder, key) ==
        {policy(kind, Append(path, k), holder.map[k]) : k \in {key} \cap KeysOf(holder)}
      policies == Get(properties, "Policies")
      entry(i) == IF _is_intrinsic(policies.list[i]) THEN {policy("inline", at \o <<"Policies", Index(i)>>, policies.list[i])}
                  ELSE under("inline", at \o <<"Policies", Index(i)>>, policies.list[i], "PolicyDocument")
  IN  UNION {under("trust", at, properties, "AssumeRolePolicyDocument") : t \in {type} \cap TRUST_POLICY_TYPES}
        \cup UNION {under("single", at, properties, SINGLE_DOCUMENT_PROPERTIES[t])
                      : t \in {type} \cap DOMAIN SINGLE_DOCUMENT_PROPERTIES}
        \cup UNION {IF IsList(policies) THEN UNION {entry(i) : i \in DOMAIN policies.list}
                    ELSE {policy("inline", Append(at, "Policies"), p) : p \in {q \in {policies} : _is_intrinsic(q)}}
                      : t \in {type} \cap INLINE_POLICY_TYPES}
        \cup {policy("permission", at, PermissionDocument(properties)) : t \in {type} \cap {LAMBDA_PERMISSION_TYPE}}

\* The statements of a deployed document. A function in place of a document, a
\* statement or an element of one may give anything.
StatementsOf(document) ==
  LET statement == Get(document, "Statement")
  IN  IF _is_intrinsic(document) THEN {document}
      ELSE {s \in IF IsList(statement) THEN Range(statement.list) ELSE {statement} : IsMap(s)}
Element(statement, key) == IF _is_intrinsic(statement) THEN statement ELSE Get(statement, key)

-----------------------------------------------------------------------------
\* The rules. Most ask something of the elements of one statement; a combination
\* asks for several actions, each granted by some statement of one document; and
\* some ask for a class of principal.
ElementRules ==
  [star_action_star_resource |-> {<<"Action", Star>>, <<"Resource", Star>>},
   wildcard_action |-> {<<"Action", Wildcard>>},
   wildcard_resource |-> {<<"Resource", Wildcard>>},
   passrole_unrestricted |-> {<<"Action", {"iam:PassRole"}>>, <<"Resource", AnyRole>>},
   assumerole_unrestricted |-> {<<"Action", {"sts:AssumeRole"}>>, <<"Resource", Star>>},
   privesc_policy_mutation |-> {<<"Action", POLICY_MUTATION_ACTIONS>>},
   sensitive_prefix_without_condition |-> {<<"Action", SensitivePrefix>>}]
CombinationRules ==
  [privesc_lambda_passrole |-> [actions |-> {"lambda:CreateFunction", "iam:PassRole"}, on |-> {}],
   dangerous_ec2_passrole |-> [actions |-> {"ec2:RunInstances", "iam:PassRole"}, on |-> {}],
   dangerous_lambda_combo |-> [actions |-> {"lambda:UpdateFunctionCode", "lambda:InvokeFunction"}, on |-> {}],
   dangerous_s3_combo |-> [actions |-> {"s3:GetObject", "s3:PutObject", "s3:DeleteObject"},
                           on |-> {<<"Resource", Star>>}]]
PrincipalRules ==
  [principal_star |-> {"star"}, cross_account_principal |-> {"cross_account"},
   cross_service_missing_condition |-> {"service", "cross_account"}]
BareRules == {"sensitive_prefix_without_condition", "privesc_broad_trust", "cross_service_missing_condition"}
ReferenceRules ==
  DOMAIN ElementRules \cup DOMAIN CombinationRules \cup DOMAIN PrincipalRules \cup {"privesc_broad_trust"}

RuleElements(rule) ==
  {"Effect"} \cup (IF rule \in DOMAIN ElementRules THEN {t[1] : t \in ElementRules[rule]}
                   ELSE IF rule \in DOMAIN CombinationRules
                        THEN {"Action"} \cup {t[1] : t \in CombinationRules[rule].on}
                   ELSE IF rule \in DOMAIN PrincipalRules THEN {"Principal"} ELSE {"Action", "Principal"})

\* Whether a statement may hold without a condition on one of the keys; on any
\* key, when there are none.
Bare(statement, keys) ==
  LET condition == Element(statement, "Condition")
      bound == UNION {KeysOf(condition.map[k]) : k \in KeysOf(condition)}
  IN  _is_intrinsic(condition) \/ IF keys = {} THEN bound = {} ELSE bound \cap keys = {}

\* Whether a rule may hold of the statements of one deployed document.
MayHoldOf(kind, statements, rule, parameters) ==
  LET meets(s, tests) == \A t \in tests \cup {<<"Effect", Allow>>} : Possible(Element(s, t[1]), t[2], parameters)
      names(s, classes) == meets(s, {}) /\ PossiblePrincipal(Element(s, "Principal"), classes)
  IN  CASE rule \in DOMAIN PrincipalRules ->
             \E s \in statements :
               /\ names(s, PrincipalRules[rule])
               /\ rule \in BareRules => Bare(s, CONFUSED_DEPUTY_CONDITION_KEYS)
        [] rule = "privesc_broad_trust" ->
             kind = "trust" /\ \E s \in statements :
               /\ meets(s, {<<"Action", {"sts:AssumeRole"}>>})
               /\ names(s, {"star"}) \/ (names(s, {"service"}) /\ Bare(s, {}))
        [] rule \in DOMAIN CombinationRules ->
             kind # "permission" /\ \A a \in CombinationRules[rule].actions : \E s \in statements :
               meets(s, CombinationRules[rule].on \cup {<<"Action", {a}>>})
        [] OTHER ->
             kind # "permission" /\ \E s \in statements :
               meets(s, ElementRules[rule]) /\ (rule \in BareRules => Bare(s, {}))

\* Whether some choice of the conditions deploys a policy of the resource that
\* the rule may hold of.
MayHold(doc, id, rule) ==
  id \in KeysOf(Resources(doc)) /\
    \E holds \in SUBSET ConditionNames(Resources(doc).map[id]) :
      \E p \in PoliciesOf(id, Deployed(Resources(doc).map[id], holds)) :
        MayHoldOf(p.kind, StatementsOf(p.document), rule, Get(doc, "Parameters"))

-----------------------------------------------------------------------------
\* What of it a reader of the Template sees who looks into no function that gives
\* a document or a statement, but into both branches of an Fn::If that gives
\* statements, no deeper than the limit.

RECURSIVE Reached(_, _), HasConditional(_)
Reached(t, depth) ==
  IF _conditional_parts(t)
  THEN depth < MAX_NESTING_DEPTH /\ \A i \in {2, 3} : Reached(t.map["Fn::If"].list[i], depth + 1)
  ELSE IsList(t) => \A s \in Range(t.list) : Reached(s, 0)

\* A Condition, or a property that bounds a permission, that has an Fn::If.
HasConditional(t) == Has(t, "Fn::If") \/ \E c \in Children(t) : HasConditional(c)
RECURSIVE HasConditionalCondition(_)
HasConditionalCondition(t) == HasConditional(Get(t, "Condition")) \/ \E c \in Children(t) : HasConditionalCondition(c)

EvidentOf(p, resource, rule, parameters) ==
  LET seen(holds) == {s \in StatementsOf(Deployed(p.document, holds)) : ~_is_intrinsic(s)}
  IN  /\ ~_is_intrinsic(p.document) /\ Reached(Get(p.document, "Statement"), 0)
      /\ rule \in BareRules =>
           IF p.kind = "permission"
           THEN \A k \in DOMAIN LAMBDA_PERMISSION_CONDITION_PROPERTIES :
                  ~HasConditional(Get(Get(resource, "Properties"), k))
           ELSE ~HasConditionalCondition(p.document)
      /\ \E holds \in SUBSET ConditionNames(p.document) : MayHoldOf(p.kind, seen(holds), rule, parameters)
Evident(doc, id, rule) ==
  id \in KeysOf(Resources(doc)) /\
    \E p \in PoliciesOf(id, Resources(doc).map[id]) :
      EvidentOf(p, Resources(doc).map[id], rule, Get(doc, "Parameters"))
=============================================================================
