----------------------------- MODULE MCReviewDelta -----------------------------
\* A role or a bucket in two revisions: fixed, renamed, made conditional, hidden
\* behind a repeated key, or written so that it cannot be evaluated.
EXTENDS ReviewDelta

\* A mapping of a template, from <<key, node>> pairs.
Src(pairs) == [pairs |-> [i \in DOMAIN pairs |-> [key |-> pairs[i][1], node |-> pairs[i][2]]],
               merge |-> <<>>, odd |-> FALSE]
Merging(pairs, merged) == [Src(pairs) EXCEPT !.merge = merged]
Fn(name, arg) == Src(<<<<name, arg>>>>)
RefTo(name) == Fn("Ref", Text(name))
SubOf(text) == Fn("Fn::Sub", Text(text))
IfOf(c, a, b) == Fn("Fn::If", List(<<Text(c), a, b>>))
NoValue == RefTo("AWS::NoValue")

File(resources) == [kind |-> "text", source |-> Src(<<<<"Resources", resources>>>>)]
FileWith(parameters, resources) ==
  [kind |-> "text", source |-> Src(<<<<"Parameters", parameters>>, <<"Resources", resources>>>>)]
Resource(type, properties) == Src(<<<<"Type", Text(type)>>, <<"Properties", properties>>>>)

-----------------------------------------------------------------------------
\* Roles.

Statement(action, resource) ==
  Src(<<<<"Effect", Text("Allow")>>, <<"Action", action>>, <<"Resource", resource>>>>)
Document_(statements) == Src(<<<<"Statement", List(statements)>>>>)
Inline(document) == Src(<<<<"Policies", List(<<Src(<<<<"PolicyDocument", document>>>>)>>)>>>>)
Role(document) == Resource("AWS::IAM::Role", Inline(document))
Granting(action, resource) == Role(Document_(<<Statement(action, resource)>>))
Only(name, resource) == File(Src(<<<<name, resource>>>>))

StarRole == Granting(Text("*"), Text("*"))
CleanRole == Granting(Text("s3:GetObject"), Text("bucket"))
Star_ == Only("R", StarRole)
Clean == Only("R", CleanRole)
Renamed == Only("S", StarRole)
Conditional == Only("R", Granting(IfOf("C", Text("*"), Text("s3:GetObject")), List(<<Text("bucket"), Text("*")>>)))
SubResource == Only("R", Granting(List(<<Text("iam:PassRole")>>), SubOf("role/*")))
SubUnknown == Only("R", Granting(Text("iam:PassRole"), SubOf("${Env}")))
Unknown == Only("R", Granting(RefTo("P"), NoValue))
Allowed == FileWith(Src(<<<<"P", Src(<<<<"AllowedValues", List(<<Text("*"), Text("s3:GetObject")>>)>>>>)>>>>),
                    Src(<<<<"R", Granting(RefTo("P"), Text("bucket"))>>>>))
Conditioned == Only("R", Role(Document_(<<IfOf("C", Src(<<<<"Effect", Text("Allow")>>, <<"Action", Text("iam:*")>>,
                  <<"Resource", Text("bucket")>>, <<"Condition", Src(<<<<"StringEquals", Src(<<<<"aws:PrincipalTag", Text("x")>>>>)>>>>)>>>>),
                  Statement(Text("iam:*"), Text("*")))>>)))
Combined == Only("R", Role(Document_(<<Statement(Text("lambda:CreateFunction"), Text("bucket")),
                  Statement(IfOf("C", Text("iam:PassRole"), Fn("Fn::ImportValue", Text("x"))), Text("bucket"))>>)))
Trusting(principal, condition) ==
  Only("R", Resource("AWS::IAM::Role", Src(<<<<"AssumeRolePolicyDocument", Document_(<<Src(<<<<"Effect", Text("Allow")>>,
        <<"Action", Text("sts:AssumeRole")>>, <<"Principal", principal>>, <<"Condition", condition>>>>)>>)>>>>)))
Trust == Trusting(IfOf("C", Text("*"), Src(<<<<"AWS", List(<<Text("arn:other"), SubOf("arn:${AWS::AccountId}")>>)>>,
                                             <<"Service", Text("svc")>>>>)),
                  Src(<<<<"StringEquals", Src(<<<<EXTERNAL_ID, Text("x")>>>>)>>>>))
NoTrust == Trusting(Src(<<<<"AWS", List(<<IfOf("C", Text("*"), Text("arn:other")), Text("arn:other")>>)>>,
                         <<"Service", Text("svc")>>>>), Src(<<>>))
Permission(bound) == Only("L", Resource(LAMBDA_PERMISSION_TYPE, Src(<<<<"Principal", Text("svc")>>>> \o bound)))
Malformed_ == Only("R", Role(Text("x")))
Unread == Only("R", Role(Src(<<<<"Statement", List(<<Fn("Fn::ImportValue", Text("x")),
                                                    Statement(Text("s3:GetObject"), Text("bucket"))>>)>>>>)))
Bounded(condition) == Only("R", Role(Document_(<<Src(<<<<"Effect", Text("Allow")>>, <<"Action", Text("iam:PassRole")>>,
                                      <<"Resource", Text("bucket")>>, <<"Condition", condition>>>>)>>)))
Tagged == Src(<<<<"StringEquals", Src(<<<<"aws:PrincipalTag", Text("x")>>>>)>>>>)
Unbounded == Bounded(IfOf("C", Tagged, NoValue))
\* Nested deeper than the limit.
Nested(depth) ==
  LET branch[n \in 0..depth] == IF n = 0 THEN Statement(Text("*"), Text("*")) ELSE IfOf("C", branch[n - 1], Text("x"))
  IN  Only("R", Role(Src(<<<<"Statement", branch[depth]>>>>)))
\* A combination in one of two policies; and split between the two.
InTwo(first, second) ==
  Only("R", Resource("AWS::IAM::Role", Src(<<<<"Policies", List(<<
    Src(<<<<"PolicyDocument", Document_(first)>>>>), Src(<<<<"PolicyDocument", Document_(second)>>>>)>>)>>>>)))
Creating == Statement(Text("lambda:CreateFunction"), Text("bucket"))
Passing == Statement(Text("iam:PassRole"), Text("bucket"))
SameDocument == InTwo(<<Statement(Text("s3:GetObject"), Text("bucket"))>>, <<Creating, Passing>>)
Split == InTwo(<<Creating>>, <<Passing>>)
KeyPolicy(principal) ==
  Only("R", Resource("AWS::KMS::Key", Src(<<<<"KeyPolicy", Document_(<<Src(<<<<"Effect", Text("Allow")>>,
    <<"Action", Text("*")>>, <<"Principal", principal>>>>)>>)>>>>)))
ConditionalDocument == Only("R", Role(IfOf("C", Document_(<<Statement(Text("*"), Text("*"))>>), Document_(<<>>))))

-----------------------------------------------------------------------------
\* Repeated and merged keys.

Hidden == Only("R", Src(<<<<"Type", Text("AWS::IAM::Role")>>,
                          <<"Properties", Inline(Document_(<<Statement(Text("*"), Text("*"))>>))>>,
                          <<"Properties", Inline(Document_(<<Statement(Text("s3:GetObject"), Text("bucket"))>>))>>>>))
Twice(a, b) == [kind |-> "text", source |-> Src(<<<<"Resources", Src(<<<<"R", a>>>>)>>, <<"Resources", Src(<<<<"R", b>>>>)>>>>)]
TwoSections == Twice(StarRole, CleanRole)
Anchored(first) ==
  Only("R", Merging(<<<<"Type", Text("AWS::IAM::Role")>>>>,
                    <<Src(<<<<"Properties", first>>, <<"Properties", Inline(Document_(<<>>))>>>>)>>))
HiddenByMerge == Anchored(Inline(Document_(<<Statement(Text("*"), Text("*"))>>)))
PlainMerge == Anchored(Inline(Document_(<<>>)))
\* A resource that cannot be compared, under another name.
HiddenRename == Only("S", Src(<<<<"Type", Text("AWS::IAM::Role")>>, <<"Type", Text("AWS::IAM::Role")>>,
                                <<"Properties", Inline(Document_(<<>>))>>>>))

-----------------------------------------------------------------------------
\* Buckets, which both tools find something of.

BucketOf(properties) == Resource("AWS::S3::Bucket", Src(properties))
Bucket_ == Only("B", BucketOf(<<<<"AccessControl", Text("PublicRead")>>>>))
BucketFixed == Only("B", BucketOf(<<<<"BucketEncryption", Text("x")>>>>))
BucketUnused ==
  FileWith(Src(<<<<"P", Src(<<<<"NoEcho", Text("true")>>>>)>>>>),
           Src(<<<<"B", BucketOf(<<<<"AccessControl", Text("Private")>>, <<"BucketEncryption", Text("x")>>>>)>>>>))
Many == File(Src(<<<<"B", BucketOf(<<<<"0", Text("x")>>, <<"AccessControl", Text("Private")>>,
                                     <<"Policies", List(<<Text("x"), Text("*")>>)>>>>)>>,
                   <<"R", Src(<<<<"Type", Text("AWS::IAM::Role")>>, <<"DependsOn", Text("B")>>,
                                <<"Condition", Text("C")>>>>)>>>>))
Fewer == File(Src(<<<<"B", BucketOf(<<<<"0", Text("bucket")>>, <<"BucketEncryption", Text("x")>>,
                                      <<"Policies", List(<<Text("*")>>)>>>>)>>>>))
Typed(type, attribute, output, more) ==
  [kind |-> "text", source |-> Src(<<<<"Resources", Src(<<<<"B", Src(<<<<"Type", Text(type)>>, attribute>>)>>>>)>>,
                                     <<"Outputs", Src(<<<<"O", output>>>>)>>>> \o more)]
Conditioned_ == Typed("AWS::S3::Bucket", <<"Condition", Text("C")>>,
                      Src(<<<<"Condition", Text("C")>>, <<"Value", RefTo("AWS::AccountId")>>>>), <<>>)
Retyped == Typed("AWS::IAM::Role", <<"Properties", Src(<<<<"PermissionsBoundary", Text("x")>>>>)>>,
                 Src(<<<<"Value", Text("x")>>>>), <<<<"Transform", Text("x")>>>>)

-----------------------------------------------------------------------------
\* Networks, secrets, conditions and cycles.

Plain_(resources) == File(Src(resources))
Of(type, properties) == Resource(type, Src(properties))
NetworkOf(public, route, more) ==
  Plain_(<<<<"A", Of(_TYPE_IGW_ATTACHMENT, <<<<"InternetGatewayId", route>>>>)>>,
           <<"D", Of(_TYPE_RDS, <<<<"PubliclyAccessible", Number(public)>>>>)>>,
           <<"G", Of(_TYPE_IGW, <<>>)>>, <<"S", Of(_TYPE_ROUTE_TABLE, <<>>)>>>> \o more)
Disconnected == NetworkOf(TRUE, Text("x"), <<>>)
Connected ==
  NetworkOf(FALSE, RefTo("G"),
    <<<<"T", Of(_TYPE_ROUTE, <<<<"DestinationCidrBlock", Text("0.0.0.0/0")>>,
                               <<"RouteTableId", Fn("Fn::GetAtt", Text("S.Id"))>>>>)>>>>)

Secretive(token, default, script) ==
  FileWith(Src(<<<<"P", Src(<<<<"Default", Text(default)>>>>)>>>>),
           Src(<<<<"F", Of("AWS::Lambda::Function",
                    <<<<"Environment", Src(<<<<"Variables", Src(<<<<"TOKEN", Text(token)>>, <<"URL", Text(default)>>>>)>>>>)>>>>)>>,
                 <<"I", Of("AWS::EC2::Instance", <<<<"UserData", Fn("Fn::Base64", SubOf(script))>>>>)>>>>))
Leaking == Secretive("varied", "credential", "assign ${P}")
Leaked == Secretive("example", "varied", "start ${P}")

Node_(type, refs, depends) ==
  Src(<<<<"DependsOn", List([i \in DOMAIN depends |-> Text(depends[i])])>>,
        <<"Properties", Src(<<<<"Value", List([i \in DOMAIN refs |-> RefTo(refs[i])])>>>>)>>, <<"Type", Text(type)>>>>)
Node(refs, depends) == Node_("T", refs, depends)
\* One cycle, reached from elsewhere; and no cycle, but two ways.
Cycle == Plain_(<<<<"B", Node(<<"C">>, <<>>)>>, <<"C", Node(<<>>, <<"B">>)>>>>)
CycleReached == Plain_(<<<<"A", Node(<<"C">>, <<>>)>>, <<"B", Node(<<"C">>, <<>>)>>, <<"C", Node(<<>>, <<"B">>)>>>>)
Diamond == Plain_(<<<<"A", Node(<<"B", "C">>, <<>>)>>, <<"B", Node(<<"D">>, <<>>)>>, <<"C", Node(<<"D">>, <<>>)>>,
                    <<"D", Node(<<"AWS::AccountId">>, <<>>)>>>>)
DeepCycle == Plain_(<<<<"A", Node(<<"B", "C">>, <<>>)>>, <<"B", Node(<<"D">>, <<>>)>>, <<"C", Node(<<"D">>, <<>>)>>,
                      <<"D", Node(<<>>, <<"C", "D">>)>>>>)

Switched(literal, values, name, gated) ==
  [kind |-> "text", source |-> Src(<<
     <<"Conditions", Src(<<<<"C", Fn("Condition", Text("IsProd"))>>,
                           <<"IsProd", Fn("Fn::Equals", List(<<RefTo("P"), Text(literal)>>))>>>>)>>,
     <<"Parameters", Src(<<<<name, Src(<<>>)>>, <<"P", Src(<<<<"AllowedValues", List(<<Text("prod"), values>>)>>>>)>>>>)>>,
     <<"Resources", Src(<<<<"B", gated>>>>)>>>>)]
Contradicting == Switched("staging", Number(1), "Q", Of("T", <<<<"Value", Text("x")>>>>))
Consistent == Switched("prod", Text("x"), "Env", Of("T", <<<<"Value", IfOf("C", SubOf("${Env}"), Text("x"))>>>>))

LintRule(id, path) == [Id |-> id, Level |-> "Warning", Line |-> 3, Path |-> path, Filename |-> FileName]
MCLintChecks(doc) ==
  LET parameters == Get(doc, "Parameters")
      acl == {id \in KeysOf(Resources(doc)) : Has(Get(Resources(doc).map[id], "Properties"), "AccessControl")}
  IN  SetToSeq({LintRule("W3045", <<"Resources", id, "Properties", "AccessControl">>) : id \in acl}
         \cup {LintRule("W2001", <<"Parameters", p>>) : p \in {q \in KeysOf(parameters) : Has(parameters.map[q], "NoEcho")}})

GuardClause(path, remaining) == [clause |-> "UnResolved", path |-> path, remaining |-> remaining, message |-> None]
GuardDeep(path) == [nested |-> <<[clause |-> "Resolved", path |-> path, message |-> "fix"]>>]
MCGuardChecks(doc) ==
  LET buckets == {id \in KeysOf(Resources(doc)) : ResourceType(Resources(doc).map[id]) = "AWS::S3::Bucket"}
      open == {id \in buckets : ~Has(Get(Resources(doc).map[id], "Properties"), "BucketEncryption")}
      public == {id \in buckets : IsStrOf(Get(Get(Resources(doc).map[id], "Properties"), "AccessControl"), "PublicRead")}
  IN  SetToSeq({[rule |-> "s3_encryption", checks |-> <<GuardClause(<<"Resources", id, "Properties">>, <<"BucketEncryption">>)>>]
                  : id \in open}
         \cup {[rule |-> "s3_public", checks |-> <<GuardDeep(<<"Resources", id, "Properties", "AccessControl">>)>>]
                  : id \in public})

-----------------------------------------------------------------------------
\* The agent's file.

Entry_(resource, category, type, severity, file) ==
  [Normalized_Category |-> category, FindingType |-> type, Severity |-> severity, Confidence |-> "Confirmed",
   Resource |-> resource, Location |-> [File |-> file, Line |-> 2], Text |-> "agent",
   Evidence |-> <<[Detail |-> "agent", Excerpt |-> "quote"]>>]
Good(resource, category) == Entry_(resource, category, "Security", "CRITICAL", FileName)
BadSeverity == Entry_("B", "DataProtection", "Security", "WORST", FileName)
ValidityHigh == Entry_("B", "PublicAccess2", "Validity", "HIGH", FileName)
EntryV == Entry_("B", "Backup", "Validity", "HIGH", FileName)
EntryC == Entry_("B", "Backup", "BestPractice", "CRITICAL", FileName)
File_(entries) == [kind |-> "array", entries |-> entries]
Agreeing == File_(<<Good("R", "IAM"), Good("B", "DataProtection")>>)
OneBad == [kind |-> "object", object |-> [schema_version |-> "1", findings |-> <<BadSeverity, Good("B", "DataProtection"), Odd>>]]
Clashing == File_(<<EntryV, EntryC>>)
OtherSpelling == File_(<<Good("B", "DataProtection"), Entry_("B", "DataProtection", "Security", "LOW", "./t.yaml")>>)
Leaving == File_(<<Good("B", "DataProtection"), Entry_("B", "DataProtection", "Security", "LOW", "../t.yaml")>>)
Uncategorized == File_(<<ValidityHigh, ValidityHigh>>)
Crowded == File_(<<ValidityHigh, ValidityHigh, ValidityHigh>>)

Case(base, head, payload_) == [templates |-> [base |-> base, head |-> head], payload |-> payload_]
MCCases ==
  {Case(Star_, Clean, None), Case(Clean, Star_, None), Case(Star_, Renamed, None), Case(Star_, Unknown, None),
   Case(Conditional, SubResource, None), Case(SubUnknown, Allowed, None), Case(Conditioned, Combined, None),
   Case(Trust, NoTrust, None), Case(Malformed_, ConditionalDocument, None), Case(Star_, Hidden, None),
   Case(Star_, ConditionalDocument, None), Case(Star_, Unread, None), Case(Bounded(Tagged), Unbounded, None),
   Case(Nested(3), Nested(4), None),
   Case(SameDocument, Split, None), Case(KeyPolicy(Text("*")), KeyPolicy(Text("arn:other")), None),
   Case(TwoSections, Clean, None), Case(HiddenByMerge, PlainMerge, None), Case(Star_, HiddenRename, None),
   Case(Bucket_, BucketFixed, None), Case(BucketUnused, Bucket_, None), Case(Many, Fewer, None),
   Case(Star_, Clean, Agreeing), Case(Bucket_, BucketFixed, Agreeing), Case(Bucket_, BucketUnused, OneBad),
   Case(Bucket_, Bucket_, Clashing), Case(Bucket_, BucketFixed, OtherSpelling), Case(BucketFixed, Bucket_, Uncategorized),
   Case(BucketFixed, BucketFixed, Leaving), Case(BucketFixed, Bucket_, Crowded),
   Case(Permission(<<>>), Permission(<<<<"SourceArn", Text("x")>>>>), None), Case(Conditioned_, Retyped, None),
   Case(Disconnected, Connected, None), Case(Leaking, Leaked, None), Case(Cycle, CycleReached, None),
   Case(Diamond, DeepCycle, None), Case(Contradicting, Consistent, None)}

NoArgs == [base_template |-> None, head_template |-> None, base_report |-> None, head_report |-> None,
           declare |-> {}, reviewed_path |-> None, plain |-> FALSE]
Templates_ == [NoArgs EXCEPT !.base_template = "base.yaml", !.head_template = "head.yaml", !.plain = TRUE]
Reports_ == [NoArgs EXCEPT !.base_report = "base.json", !.head_report = "head.json"]
Both_ == [Reports_ EXCEPT !.base_template = "base.yaml", !.head_template = "head.yaml",
                          !.declare = Range(DECLARATION_CODES)]
MCArguments ==
  {Templates_, Reports_, [Reports_ EXCEPT !.declare = Range(DECLARATION_CODES) \ {TEMPLATE_DECLARATION}],
   Both_, [Both_ EXCEPT !.reviewed_path = "t.yaml"], [Both_ EXCEPT !.reviewed_path = "../t.yaml"],
   [NoArgs EXCEPT !.base_template = "base.yaml"]}

-----------------------------------------------------------------------------
\* The vocabulary of the instance.

MCLexical ==
  <<"#0", "#1", "#2", "#3", "../t.yaml", "./t.yaml", "0", "1", "2", "3", "A", "AWS", "AWS::EC2::Instance",
    "AWS::EC2::InternetGateway", "AWS::EC2::Route", "AWS::EC2::RouteTable",
    "AWS::EC2::VPCGatewayAttachment", "AWS::IAM::Role", "AWS::KMS::Key", "AWS::Lambda::Function",
    "AWS::Lambda::Permission", "AWS::RDS::DBInstance", "AWS::S3::Bucket", "AccessControl",
    "Action", "AllowedValues", "AssumeRolePolicyDocument", "Availability", "B", "Backup",
    "BucketEncryption", "C", "Condition", "Conditions", "D", "DataProtection", "Default",
    "DependsOn", "DestinationCidrBlock", "Effect", "Encryption", "Env", "Environment", "F",
    "Fn::Base64", "Fn::Equals", "Fn::GetAtt", "Fn::If", "Fn::ImportValue", "Fn::Sub", "G", "I",
    "IAM", "IAM Review", "InternetGatewayId", "IsProd", "KeyPolicy", "L", "Logging", "NetworkSecurity",
    "NoEcho", "O", "Other", "Outputs", "P", "Parameters", "PermissionsBoundary", "Policies",
    "PolicyDocument", "Principal", "Properties", "PublicAccess", "PublicAccess2",
    "PubliclyAccessible", "Q", "R", "Ref", "Resource", "Resources", "Review", "RouteTableId",
    "S", "Service", "SourceArn", "Statement", "StringEquals", "T", "TOKEN", "Tagging",
    "TemplateQuality", "Transform", "Type", "URL", "UserData", "Value", "Variables", "W2001",
    "W3045", "[redacted]", "agent", "allowed_values_mixed_types", "assumerole_unrestricted",
    "aws:PrincipalTag", "base.json", "base.yaml", "broken", "bundled", "cdk", "cfn-guard",
    "cfn-lint", "circular_dependency", "condition_name_logic_mismatch",
    "cross_account_principal", "cross_service_missing_condition", "custom",
    "dangerous_ec2_passrole", "dangerous_lambda_combo", "dangerous_s3_combo", "encryption",
    "external_id_mitigation", "fix", "head.json", "head.yaml", "igw_not_attached",
    "inline_policy", "lambda_env_plaintext_secret", "lambda_permission",
    "malformed_policy_document", "mapping", "orphaned_route_table", "parameter_default_secret",
    "passrole_unrestricted", "permissions_boundary", "principal_star", "privesc_broad_trust",
    "privesc_lambda_passrole", "privesc_policy_mutation", "public-access", "quote",
    "rds_reachable_from_internet", "route_table_no_default_route", "s3_encryption",
    "s3_public", "sensitive_prefix_without_condition", "single_policy",
    "star_action_star_resource", "sts:externalid", "t.yaml", "trust_policy",
    "unresolvable_value", "unused_condition", "unused_parameter", "userdata_plaintext_secret",
    "wildcard_action", "wildcard_resource", "x">>

MCDigits == [d \in {"0", "1", "2", "3"} |->
               CASE d = "0" -> "#0" [] d = "1" -> "#1" [] d = "2" -> "#2" [] d = "3" -> "#3"]
MCPseudoParameters == [p \in {"AWS::AccountId", "AWS::NoValue"} |-> "pseudo"]
MCFunctions == {"Fn::If", "Fn::Sub", "Fn::ImportValue", "Fn::GetAZs", "Fn::GetAtt", "Fn::Base64", "Fn::Equals"}
MCCategories == {"IAM", "Encryption", "PublicAccess", "Logging", "Tagging", "Availability", "Backup",
                 "NetworkSecurity", "DataProtection", "TemplateQuality", "Other"}
MCWords == [e \in {"quote", REDACTED_EXCERPT} |-> IF e = "quote" THEN {"P"} ELSE {}]
MCPathOf == [p \in {"t.yaml", "./t.yaml", "../t.yaml", "/t.yaml", "", "base.yaml", "head.yaml", "base.json", "head.json"} |->
               CASE p \in {"../t.yaml", "/t.yaml", ""} -> None [] p = "./t.yaml" -> "t.yaml" [] OTHER -> p]
MCErrorClasses == {"parse_failure", "tool_unavailable", "tool_execution", "tool_timeout", "schema_violation", "input_not_found"}
MCSubVariables ==
  [s \in {"role/*", "${Env}", "arn:${AWS::AccountId}", "assign ${P}", "start ${P}"} |->
     CASE s = "role/*" -> {} [] s = "${Env}" -> {"Env"} [] s = "arn:${AWS::AccountId}" -> {"AWS::AccountId"} [] OTHER -> {"P"}]
MCSubFixed == [s \in DOMAIN MCSubVariables |-> IF s = "role/*" THEN s ELSE "arn:"]
MCPrincipalTexts == [t \in {"arn:other", "svc"} |-> IF t = "svc" THEN "service" ELSE "cross_account"]
MCGranted == [t \in {"*", "iam:*", "iam:PassRole", "lambda:CreateFunction", "sts:AssumeRole"} |->
   CASE t = "*" -> {"iam:PassRole", "lambda:CreateFunction", "ec2:RunInstances", "sts:AssumeRole", "s3:GetObject",
                    "s3:PutObject", "s3:DeleteObject", "lambda:UpdateFunctionCode", "lambda:InvokeFunction",
                    "iam:PutRolePolicy"}
     [] t = "iam:*" -> {"iam:PassRole", "iam:PutRolePolicy"} [] OTHER -> {t}]
MCLevelDefaults == [Error |-> [type |-> "Validity", severity |-> "HIGH"],
                    Warning |-> [type |-> "BestPractice", severity |-> "MEDIUM"],
                    Informational |-> [type |-> "Informational", severity |-> "LOW"]]
MCLintOverrides == [W3045 |-> [NoOverride EXCEPT !.category = "DataProtection", !.security_relevant = TRUE]]
MCLintPrefixes == [W3045 |-> [category |-> "TemplateQuality", blocks |-> FALSE]]
MCGuardCategories == [s \in {"encryption"} |-> "Encryption"]
MCGuardOverrides == [r \in {} |-> None]
MCRuleFiles == [bundled |-> [s3_encryption |-> "encryption", s3_public |-> "public-access"],
                custom |-> [s3_public |-> "broken"]]
MCSidecars == [d \in {"encryption", "public-access", "broken"} |->
   CASE d = "broken" -> Odd
     [] d = "encryption" -> [category |-> d, default |-> [type |-> "BestPractice", severity |-> "HIGH"],
                             normalized |-> None, rules |-> <<>>]
     [] OTHER -> [category |-> d, default |-> [type |-> "Security", severity |-> "HIGH"], normalized |-> "PublicAccess",
                  rules |-> [s3_public |-> [NoRuleEntry EXCEPT !.severity = "CRITICAL", !.normalized = "DataProtection"]]]]
MCBeforeDot == [n \in {"S.Id"} |-> "S"]
MCEnvironmentOfName == [n \in {"IsProd"} |-> "prod"]
MCEnvironmentsIn == [t \in {"staging", "prod"} |-> IF t = "prod" THEN {"prod"} ELSE {"stag"}]
MCPlainRules == [s \in {"cfn-guard"} |-> {"s3_encryption", "s3_public"}]
MCPosition2Plain == [Resources |-> {"Type", "Properties", "DependsOn", "Condition"}, Parameters |-> {"NoEcho", "AllowedValues"}]
=============================================================================
