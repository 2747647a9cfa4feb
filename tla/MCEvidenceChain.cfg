SPECIFICATION Spec
CONSTANTS
  Nothing = Nothing
  ConfigCommit = "config"
  Accounts <- MCAccounts
  Author = "author"
  Viewer = "bob"
  Commits <- MCCommits
  PageSize = 1
  MaxReviews = 2
  MaxTime = 1
  MaxOdd = 1
  MaxChanges = 1
  ChainReviews = 1
CHECK_DEADLOCK FALSE
INVARIANT TypeOK
INVARIANT CountedApprovalWasInForce
INVARIANT LinkedMeansRegenerated
INVARIANT CompleteIsWholeChain
INVARIANT BrokenIsContradicted
