SPECIFICATION Spec
CONSTANTS
  None = None
  Odd = Odd
  Digits <- MCDigits
  PseudoParameters <- MCPseudoParameters
  Functions_ <- MCFunctions
  Lexical <- MCLexical
  Categories <- MCCategories
  Words <- MCWords
  AbsolutePaths = {"/t.yaml"}
  PathOf <- MCPathOf
  MAX_REPORT_FINDINGS = 5
  ERROR_CLASSES <- MCErrorClasses
  MAX_TEMPLATE_NODES = 60
  MAX_TEMPLATE_DEPTH = 14
  MAX_CHANGE_ENTRIES = 5
  MAX_OUTPUT = 6
  DynamicTexts = {}
  MAX_NESTING_DEPTH = 3
  SubVariables <- MCSubVariables
  SubFixed <- MCSubFixed
  PrincipalTexts <- MCPrincipalTexts
  Wildcards = {"*", "iam:*", "role/*"}
  SensitiveTexts = {"iam:PassRole", "iam:*", "sts:AssumeRole", "lambda:CreateFunction", "s3:GetObject"}
  WildcardRoles = {"role/*"}
  Granted <- MCGranted
  LevelDefaults <- MCLevelDefaults
  LintOverrides <- MCLintOverrides
  LintPrefixes <- MCLintPrefixes
  MAX_CHECK_DEPTH = 2
  GuardCategories <- MCGuardCategories
  GuardOverrides <- MCGuardOverrides
  RuleFiles <- MCRuleFiles
  Sidecars <- MCSidecars
  BUNDLED = "bundled"
  CustomRules = "custom"
  UnusablePaths = {""}
  LeavingPaths = {}
  PlainTypes = {"AWS::IAM::Role", "AWS::S3::Bucket"}
  PlainRules <- MCPlainRules
  PlainTools = {"cfn-lint", "cfn-guard", "cdk"}
  TopLevel = {"Resources", "Parameters", "Conditions", "Outputs"}
  Intrinsics = {"Ref", "Fn::If", "Fn::Sub", "Fn::ImportValue", "Condition", "Fn::Equals", "Fn::GetAtt", "Fn::Base64"}
  Position2Plain <- MCPosition2Plain
  LintChecks <- MCLintChecks
  GuardChecks <- MCGuardChecks
  Cases <- MCCases
  Arguments <- MCArguments
  FileName = "t.yaml"
  MaxOdd = 1
  Omitted = {"cfn-lint", "cfn-guard", "IAM Review", "Network Review", "Secret Review", "Quality Review"}
  PseudoNames = {"AWS::AccountId", "AWS::NoValue"}
  BeforeDot <- MCBeforeDot
  CredentialTexts = {"credential", "example"}
  PlaceholderTexts = {"example"}
  VariedTexts = {"varied", "example"}
  SecretNames = {"TOKEN"}
  AssigningScripts = {"assign ${P}"}
  EnvironmentOfName <- MCEnvironmentOfName
  EnvironmentsIn <- MCEnvironmentsIn
CHECK_DEADLOCK FALSE
INVARIANT PublishedIsAccepted
INVARIANT MergeIsFaithful
INVARIANT NothingSilent
INVARIANT OneSidedIsReal
INVARIANT DifferencesAreCovered
INVARIANT ZeroMeansCompared
PROPERTY ReviewSpec
