SPECIFICATION Spec
CONSTANTS
    LogicalIds <- MCLogicalIds
    Canon <- MCCanon
    Types <- MCTypes
    ProfileType = "AWS::IAM::Role"
    Props <- MCProps
    Leaves <- MCLeaves
    Marked = {"twice"}
    Qualified = {"dynamic"}
    Conditional = {"fnif", "iflist"}
    StatementsOf <- MCStatementsOf
    Unreadable = Unreadable
    Commits <- MCCommits
    NoCommit = NoCommit
    Ancestors <- MCAncestors
    Tree <- MCTree
    Paths <- MCPaths
    ContractPath = "contract"
    Contents <- MCContents
    Doc <- MCDoc
    Scope <- MCScope
    Passes <- MCPasses
    OutcomeRule = "no_overbroad"
    StatementRule = "statement_present"
    LintClean <- MCLintClean
    ToolFaults = {"TIMEOUT", "NOT_PASSED"}
    Starts <- MCStarts
    MoveTo <- MCMoveTo
    WriteEntries <- MCWriteEntries
    MaxEdits = 2
    MaxMoves = 1
    MaxFaults = 1
    None = None
INVARIANTS
    TrustComesFirst
    PassStaysInContract
    VerifiedIsEvidenced
    BlockedIsReal
    StandingChangeIsSeen
