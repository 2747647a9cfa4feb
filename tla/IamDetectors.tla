------------------------------ MODULE IamDetectors ------------------------------
\* The deterministic IAM checks: where policies stand in a Template
\* (iacreview/iam/locate.py), the statements of each, and the detectors over
\* them (iacreview/iam/detectors.py); and what the review of a site adds to the
\* report (iacreview/iam/__init__.py): its findings, a disclosure for each
\* location that could not be evaluated and each document that could not be read.
EXTENDS IamIntrinsics, Finding

CONSTANTS
  Wildcards,          \* the texts that hold a "*"
  SensitiveTexts,     \* the texts that begin with iam:, sts:, lambda: or s3:
  WildcardRoles,      \* the role ARNs that hold a "*"
  Granted             \* an action pattern -> the actions it grants

-----------------------------------------------------------------------------
\* Policy sites: [id, type, kind, path, document].

TRUST_POLICY_TYPES == {"AWS::IAM::Role"}
PERMISSIONS_BOUNDARY_TYPES == {"AWS::IAM::Role", "AWS::IAM::User"}
INLINE_POLICY_TYPES == {"AWS::IAM::Role", "AWS::IAM::User", "AWS::IAM::Group"}
SINGLE_DOCUMENT_PROPERTIES ==
  [t \in {"AWS::IAM::ManagedPolicy", "AWS::IAM::Policy", "AWS::S3::BucketPolicy",
          "AWS::SQS::QueuePolicy", "AWS::SNS::TopicPolicy"} |-> "PolicyDocument"]
    @@ ("AWS::KMS::Key" :> "KeyPolicy") @@ ("AWS::ECR::Repository" :> "RepositoryPolicyText")
    @@ ("AWS::SecretsManager::ResourcePolicy" :> "ResourcePolicy")
LAMBDA_PERMISSION_TYPE == "AWS::Lambda::Permission"
POLICY_DOCUMENT_KINDS == {"inline_policy", "trust_policy", "single_policy"}
IAM_RESOURCE_TYPES == INLINE_POLICY_TYPES \cup DOMAIN SINGLE_DOCUMENT_PROPERTIES
                        \cup {LAMBDA_PERMISSION_TYPE}

Site(id, kind, path, document) == [id |-> id, kind |-> kind, path |-> path, document |-> document]

SiteAt(id, kind, properties, key) ==
  IF Has(properties, key)
  THEN {Site(id, kind, <<"Resources", id, "Properties", key>>, properties.map[key])} ELSE {}

_inline_policy_sites(id, properties) ==
  LET policies == Get(properties, "Policies")
  IN  IF ~IsList(policies) THEN {}
      ELSE {Site(id, "inline_policy",
                 <<"Resources", id, "Properties", "Policies", Index(i), "PolicyDocument">>,
                 policies.list[i].map["PolicyDocument"])
              : i \in {j \in DOMAIN policies.list : Has(policies.list[j], "PolicyDocument")}}

_sites_in_resource(id, type, properties) ==
  (IF type \in TRUST_POLICY_TYPES THEN SiteAt(id, "trust_policy", properties, "AssumeRolePolicyDocument") ELSE {})
    \cup (IF type \in INLINE_POLICY_TYPES THEN _inline_policy_sites(id, properties) ELSE {})
    \cup (IF type \in PERMISSIONS_BOUNDARY_TYPES
          THEN SiteAt(id, "permissions_boundary", properties, "PermissionsBoundary") ELSE {})
    \cup (IF type \in DOMAIN SINGLE_DOCUMENT_PROPERTIES
          THEN SiteAt(id, "single_policy", properties, SINGLE_DOCUMENT_PROPERTIES[type]) ELSE {})
    \cup (IF type = LAMBDA_PERMISSION_TYPE
          THEN {Site(id, "lambda_permission", <<"Resources", id, "Properties">>, properties)} ELSE {})

find_policy_documents(doc) ==
  UNION {_sites_in_resource(id, ResourceType(Resources(doc).map[id]), Get(Resources(doc).map[id], "Properties"))
           : id \in {r \in KeysOf(Resources(doc)) : IsMap(Get(Resources(doc).map[r], "Properties"))}}

has_policy_document(site) == site.kind \in POLICY_DOCUMENT_KINDS /\ IsMap(site.document)
Malformed(site) == site.kind \in POLICY_DOCUMENT_KINDS /\ ~IsMap(site.document)

-----------------------------------------------------------------------------
\* Statements: [statement, path, branch, policy], policy FALSE for the one that
\* stands for the properties of a Lambda permission.

View(statement, path, branch) ==
  [statement |-> statement, path |-> path, branch |-> branch, policy |-> TRUE]

\* A list is looked into once; a list in a list is not a statement.
_collect_statement_views(value, branch, path) ==
  IF ~IsList(value) THEN IF IsMap(value) THEN <<View(value, path, branch)>> ELSE <<>>
  ELSE FlattenSeq([i \in DOMAIN value.list |->
         LET entries == SelectSeq(expand_conditionals(value.list[i]), LAMBDA b : IsMap(b.value))
         IN  [j \in DOMAIN entries |->
                View(entries[j].value, Append(path, Index(i)), branch \o entries[j].branch)]])

LAMBDA_PERMISSION_CONDITION_PROPERTIES ==
  [SourceAccount |-> "aws:sourceaccount", SourceArn |-> "aws:sourcearn", PrincipalOrgID |-> "aws:principalorgid"]

_lambda_permission_views(site) ==
  LET given == KeysOf(site.document)
      bounds == {LAMBDA_PERMISSION_CONDITION_PROPERTIES[p]
                   : p \in given \cap DOMAIN LAMBDA_PERMISSION_CONDITION_PROPERTIES}
      keys == {"Effect"} \cup (given \cap {"Action", "Principal"}) \cup {c \in {"Condition"} : bounds # {}}
      statement == Map([k \in keys |->
                     CASE k = "Effect" -> Text("Allow")
                       [] k = "Condition" -> Map([StringEquals |-> Map([b \in bounds |-> Text(b)])])
                       [] OTHER -> site.document.map[k]])
  IN  <<[View(statement, site.path, <<>>) EXCEPT !.policy = FALSE]>>

_statement_views(site) ==
  IF site.kind = "lambda_permission" THEN _lambda_permission_views(site)
  ELSE IF ~has_policy_document(site) THEN <<>>
  ELSE LET branches == expand_conditionals(Get(site.document, "Statement"))
       IN  FlattenSeq([i \in DOMAIN branches |->
             _collect_statement_views(branches[i].value, branches[i].branch, Append(site.path, "Statement"))])

-----------------------------------------------------------------------------
\* Predicates over the texts of an element.

_is_star(text) == text = "*"
_has_wildcard(text) == text \in Wildcards
_is_sensitive_prefix(text) == text \in SensitiveTexts
_is_unrestricted_role_resource(text) == _is_star(text) \/ text \in WildcardRoles
GrantsAny(text, actions) == text \in DOMAIN Granted /\ Granted[text] \cap actions # {}

POLICY_MUTATION_ACTIONS ==
  {"iam:CreatePolicyVersion", "iam:SetDefaultPolicyVersion", "iam:AttachUserPolicy",
   "iam:AttachGroupPolicy", "iam:AttachRolePolicy", "iam:PutUserPolicy", "iam:PutGroupPolicy",
   "iam:PutRolePolicy"}

\* A test is its name, or the set of actions of which one has to be granted.
Star == {"star"}
Wildcard == {"wildcard"}
SensitivePrefix == {"sensitive"}
AnyRole == {"role"}
Allow == {"allow"}
Satisfies(test, text) ==
  CASE test = Star -> _is_star(text)
    [] test = Wildcard -> _has_wildcard(text)
    [] test = SensitivePrefix -> _is_sensitive_prefix(text)
    [] test = AnyRole -> _is_unrestricted_role_resource(text)
    [] test = Allow -> text = "Allow"
    [] OTHER -> GrantsAny(text, test)

-----------------------------------------------------------------------------
\* A target is [site, views, parameters]; a probe looks at one element of one
\* statement, and what it cannot decide is a record to disclose. A result is
\* [detections, unresolved].

Target(site, doc) == [site |-> site, views |-> _statement_views(site), parameters |-> Get(doc, "Parameters")]
policy_statements(target) == SelectSeq(target.views, LAMBDA v : v.policy)

Probed(evaluation, view, key) ==
  [matched |-> evaluation.verdict = "match",
   unresolved |-> {[path |-> Append(view.path, key), kind |-> key, intrinsic |-> b.intrinsic,
                    branch |-> b.branch]
                     : b \in {x \in evaluation.blockers : evaluation.verdict = "unresolvable"}}]
evaluate(resolution, test) == Evaluation(resolution, {t \in TextsOf(resolution) : Satisfies(test, t)})
Probe(target, view, key, test) ==
  Probed(evaluate(resolve(Get(view.statement, key), target.parameters), test), view, key)

NoResult == [detections |-> <<>>, unresolved |-> {}]
Joined(results) ==
  [detections |-> FlattenSeq([i \in DOMAIN results |-> results[i].detections]),
   unresolved |-> UNION {results[i].unresolved : i \in DOMAIN results}]

Detection(rule, severity, view) ==
  [rule |-> rule, severity |-> severity, path |-> view.path, statement |-> view.statement]

\* The probes are made in order and the first that does not match is the last.
Following(state, p) == [matched |-> p.matched, unresolved |-> state.unresolved \cup p.unresolved]
Probes(target, view, tests) ==
  FoldLeft(LAMBDA state, probe : IF ~state.matched THEN state
                                 ELSE Following(state, Probe(target, view, probe[1], probe[2])),
           [matched |-> TRUE, unresolved |-> {}], <<<<"Effect", Allow>>>> \o tests)

_condition_keys(statement) ==
  UNION {UNION {KeysOf(entries) : entries \in {b.value.map[k] : k \in KeysOf(b.value)}}
           : b \in {x \in Range(expand_conditionals(Get(statement, "Condition"))) : IsMap(x.value)}}
_has_condition(statement) == _condition_keys(statement) # {}

\* A detector that reports each statement whose elements all match; when it is
\* about statements without a Condition (bare), it looks at nothing but the
\* Effect of the others.
EachStatement(target, rule, severity, tests, bare) ==
  LET skipped(view) == bare /\ _has_condition(view.statement)
      reported(view, probes) ==
        [detections |-> IF probes.matched /\ ~skipped(view)
                        THEN <<Detection(rule, severity, view)>> ELSE <<>>,
         unresolved |-> probes.unresolved]
      one(view) == reported(view, Probes(target, view, IF skipped(view) THEN <<>> ELSE tests))
      each(views) == Joined([i \in DOMAIN views |-> one(views[i])])
  IN  each(policy_statements(target))

\* Both elements are probed, whether or not the first matches.
star_action_star_resource(target) ==
  [EachStatement(target, "star_action_star_resource", "CRITICAL",
                 <<<<"Action", Star>>, <<"Resource", Star>>>>, FALSE)
     EXCEPT !.unresolved = @ \cup EachStatement(target, "", "", <<<<"Resource", Star>>>>, FALSE).unresolved]
wildcard_action(target) ==
  EachStatement(target, "wildcard_action", "HIGH", <<<<"Action", Wildcard>>>>, FALSE)
wildcard_resource(target) ==
  EachStatement(target, "wildcard_resource", "HIGH", <<<<"Resource", Wildcard>>>>, FALSE)
sensitive_prefix_without_condition(target) ==
  EachStatement(target, "sensitive_prefix_without_condition", "HIGH",
                <<<<"Action", SensitivePrefix>>>>, TRUE)
passrole_unrestricted(target) ==
  EachStatement(target, "passrole_unrestricted", "CRITICAL",
                <<<<"Action", {"iam:PassRole"}>>, <<"Resource", AnyRole>>>>, FALSE)
assumerole_unrestricted(target) ==
  EachStatement(target, "assumerole_unrestricted", "HIGH",
                <<<<"Action", {"sts:AssumeRole"}>>, <<"Resource", Star>>>>, FALSE)
privesc_policy_mutation(target) ==
  EachStatement(target, "privesc_policy_mutation", "CRITICAL", <<<<"Action", POLICY_MUTATION_ACTIONS>>>>, FALSE)

-----------------------------------------------------------------------------
\* Combinations: each action is granted by some statement of the document.

\* The first statement that grants the action, among those that are Open.
FirstMatching(views, probes) ==
  LET matching == {i \in DOMAIN views : probes[i].matched}
      first == IF matching = {} THEN Len(views) ELSE CHOOSE i \in matching : \A j \in matching : i <= j
  IN  [view |-> IF matching = {} THEN <<>> ELSE <<views[first]>>,
       unresolved |-> UNION {probes[i].unresolved : i \in 1..first}]
_first_granting(target, views, action) ==
  FirstMatching(views, [i \in DOMAIN views |-> Probes(target, views[i], <<<<"Action", {action}>>>>)])

AllFound(found, rule, severity) ==
  [detections |-> IF \A i \in DOMAIN found : found[i].view # <<>>
                  THEN <<Detection(rule, severity, found[1].view[1])>> ELSE <<>>,
   unresolved |-> UNION {found[i].unresolved : i \in DOMAIN found}]
Combination(target, views, rule, severity, actions) ==
  AllFound([i \in DOMAIN actions |-> _first_granting(target, views, actions[i])], rule, severity)

privesc_lambda_passrole(target) ==
  Combination(target, policy_statements(target), "privesc_lambda_passrole", "CRITICAL",
              <<"lambda:CreateFunction", "iam:PassRole">>)
dangerous_ec2_passrole(target) ==
  Combination(target, policy_statements(target), "dangerous_ec2_passrole", "HIGH",
              <<"ec2:RunInstances", "iam:PassRole">>)
dangerous_lambda_combo(target) ==
  Combination(target, policy_statements(target), "dangerous_lambda_combo", "HIGH",
              <<"lambda:UpdateFunctionCode", "lambda:InvokeFunction">>)

dangerous_s3_combo(target) ==
  LET probed == [v \in Range(policy_statements(target)) |-> Probes(target, v, <<<<"Resource", Star>>>>)]
      combined(probes) ==
        [Combination(target, SelectSeq(policy_statements(target), LAMBDA v : probes[v].matched),
                     "dangerous_s3_combo", "HIGH", <<"s3:GetObject", "s3:PutObject", "s3:DeleteObject">>)
           EXCEPT !.unresolved = @ \cup UNION {probes[v].unresolved : v \in DOMAIN probes}]
  IN  combined(probed)

-----------------------------------------------------------------------------
\* Principals.

_is_intrinsic(value) == KeysOf(value) \cap ({"Ref"} \cup Functions_) # {}

RECURSIVE _collect_principals(_)
_collect_principals(value) ==
  IF IsStarPrincipal(value) THEN <<value>>
  ELSE IF IsList(value)
       THEN FlattenSeq([i \in DOMAIN value.list |-> _collect_principals(value.list[i])])
  ELSE IF IsMap(value) /\ ~_is_intrinsic(value)
       THEN LET keys == SetToSeq(KeysOf(value))
            IN  FlattenSeq([i \in DOMAIN keys |-> _collect_principals(value.map[keys[i]])])
  ELSE <<value>>

Principals(view) ==
  LET branches == SelectSeq(expand_conditionals(Get(view.statement, "Principal")), LAMBDA b : b.value # Missing)
  IN  FlattenSeq([i \in DOMAIN branches |-> _collect_principals(branches[i].value)])

_unresolvable_principal(view, value) ==
  [path |-> Append(view.path, "Principal"), kind |-> "Principal", branch |-> view.branch,
   intrinsic |-> IF _is_intrinsic(value) THEN CHOOSE k \in KeysOf(value) \cap ({"Ref"} \cup Functions_) : TRUE
                 ELSE IF IsMap(value) THEN "mapping" ELSE "Principal value"]

\* One detection for each principal of one of the classes.
EachPrincipal(view, rule, severity, classes) ==
  LET of(principals, named) ==
        [detections |-> [i \in DOMAIN named |-> Detection(rule, severity, view)],
         unresolved |-> {_unresolvable_principal(view, p)
                           : p \in {q \in Range(principals) : classify_principal(q) = "unresolvable"}}]
      among(principals) == of(principals, SelectSeq(principals, LAMBDA p : classify_principal(p) \in classes))
  IN  among(Principals(view))

\* A detector over the principals of the statements that match the tests: found
\* is what it finds of each.
EachPrincipalOf(target, views, tests, found) ==
  LET one(result, probes) ==
        [(IF probes.matched THEN result ELSE NoResult) EXCEPT !.unresolved = @ \cup probes.unresolved]
  IN  Joined([i \in DOMAIN views |-> one(found[i], Probes(target, views[i], tests))])

privesc_broad_trust(target) ==
  LET found(view) ==
        Joined(<<EachPrincipal(view, "privesc_broad_trust", "CRITICAL", {"star"}),
                 EachPrincipal(view, "privesc_broad_trust", "HIGH",
                               {c \in {"service"} : ~_has_condition(view.statement)})>>)
      of(views) == EachPrincipalOf(target, views, <<<<"Action", {"sts:AssumeRole"}>>>>,
                                   [i \in DOMAIN views |-> found(views[i])])
  IN  IF target.site.kind # "trust_policy" THEN NoResult ELSE of(policy_statements(target))

CONFUSED_DEPUTY_CONDITION_KEYS == {"aws:sourceaccount", "aws:sourcearn", "aws:principalorgid"}
cross_service_missing_condition(target) ==
  LET found(view) ==
        IF _condition_keys(view.statement) \cap CONFUSED_DEPUTY_CONDITION_KEYS # {} THEN NoResult
        ELSE EachPrincipal(view, "cross_service_missing_condition", "HIGH", {"service", "cross_account"})
  IN  EachPrincipalOf(target, target.views, <<>>, [i \in DOMAIN target.views |-> found(target.views[i])])
cross_account_principal(target) ==
  EachPrincipalOf(target, target.views, <<>>,
    [i \in DOMAIN target.views |->
       EachPrincipal(target.views[i], "cross_account_principal", "HIGH", {"cross_account"})])
principal_star(target) ==
  EachPrincipalOf(target, target.views, <<>>,
    [i \in DOMAIN target.views |-> EachPrincipal(target.views[i], "principal_star", "CRITICAL", {"star"})])

-----------------------------------------------------------------------------
\* All detectors over one site, in their order. The four that have no check yet
\* report nothing.

EXTERNAL_ID == "sts:externalid"
lower_one_level(severity) ==
  CASE severity = "CRITICAL" -> "HIGH" [] severity = "HIGH" -> "MEDIUM"
    [] severity = "MEDIUM" -> "LOW" [] OTHER -> "INFO"

apply_external_id_mitigation(detection) ==
  LET mitigated == /\ detection.rule = "cross_account_principal"
                   /\ EXTERNAL_ID \in _condition_keys(detection.statement)
  IN  [rule |-> detection.rule, path |-> detection.path, mitigated |-> mitigated,
       severity |-> IF mitigated THEN lower_one_level(detection.severity) ELSE detection.severity]

Mitigated(all) ==
  [detections |-> [i \in DOMAIN all.detections |-> apply_external_id_mitigation(all.detections[i])],
   unresolved |-> all.unresolved]
scan_target(target) ==
  Mitigated(Joined(<<star_action_star_resource(target), wildcard_action(target),
                      wildcard_resource(target), sensitive_prefix_without_condition(target),
                      passrole_unrestricted(target), assumerole_unrestricted(target),
                      privesc_policy_mutation(target), privesc_lambda_passrole(target),
                      privesc_broad_trust(target), cross_service_missing_condition(target),
                      cross_account_principal(target), principal_star(target),
                      dangerous_s3_combo(target), dangerous_ec2_passrole(target),
                      dangerous_lambda_combo(target)>>))

-----------------------------------------------------------------------------
\* The findings of a site, all redacted in the end.

IAM_SOURCE == "IAM Review"
MALFORMED_DOCUMENT == "malformed_policy_document"
UNRESOLVABLE == "unresolvable_value"
MITIGATION == "external_id_mitigation"

IamEvidence(detail, rule) ==
  [Source |-> IAM_SOURCE, Detail |-> detail, RuleId |-> rule, Excerpt |-> None, Notices |-> {}]

\* The wording of a finding is its rule, and of its evidence what it is about.
IamFinding(type, severity, file, id, path, rule, evidence) ==
  [ID |-> UNASSIGNED_ID, Normalized_Category |-> "IAM", FindingType |-> type, Severity |-> severity,
   Confidence |-> "Confirmed", Source |-> <<IAM_SOURCE>>, Resource |-> id, File |-> file, Line |-> None,
   Path |-> canonical_template_path(path), Text |-> rule, Evidence |-> evidence, Fix |-> None]

_disclosure(file, id, path, detail, rule) ==
  IamFinding("Informational", "INFO", file, id, path, rule, <<IamEvidence(detail, rule)>>)

DetectionFinding(d, file, id) ==
  IamFinding("Security", d.severity, file, id, d.path, d.rule,
             <<IamEvidence(d.rule, d.rule)>>
               \o SelectSeq(<<IamEvidence(MITIGATION, d.rule)>>, LAMBDA e : d.mitigated))

\* What a site that is not a policy document, and a location that was not
\* evaluated, leave in the report.
malformed_document_finding(site, file) == _disclosure(file, site.id, site.path, site.kind, MALFORMED_DOCUMENT)
unresolvable_finding(value, file, id) == _disclosure(file, id, value.path, value.kind, UNRESOLVABLE)

_site_findings(site, doc, file) ==
  LET disclosed(unresolved) == [i \in DOMAIN unresolved |-> unresolvable_finding(unresolved[i], file, site.id)]
      all(scan) ==
        [i \in DOMAIN scan.detections |-> DetectionFinding(scan.detections[i], file, site.id)]
          \o SelectSeq(<<malformed_document_finding(site, file)>>, LAMBDA f : Malformed(site))
          \o disclosed(SetToSeq(scan.unresolved))
  IN  all(scan_target(Target(site, doc)))

\* run_and_normalize(): reads nothing but the document and never fails on one.
IamFindings(doc, file) ==
  LET all(sites) == FlattenSeq([i \in DOMAIN sites |-> _site_findings(sites[i], doc, file)])
      redacted(found) == [i \in DOMAIN found |-> redact_finding(found[i], noecho_parameter_names(doc))]
  IN  redacted(all(SetToSeq(find_policy_documents(doc))))
=============================================================================
