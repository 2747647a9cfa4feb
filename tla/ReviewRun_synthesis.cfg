SPECIFICATION Spec
CONSTANTS
    Templates <- MCTemplates
    ToolSources = {"cfn-lint"}
    OwnSources = {"iam"}
    TargetLists <- MCTargetLists
    MaxTemplates = 1
CHECK_DEADLOCK FALSE
INVARIANT RanMeansSynthesized
