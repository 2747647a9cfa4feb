SPECIFICATION FairSpec
CONSTANTS
    Ids = {a, b}
    Writers = {w1, w2}
    MaxRevisions = 3
    MaxApprovals = 9
    DamageAllowed = FALSE
    QuarantineMayCrash = FALSE
    CarefulHuman = TRUE
CHECK_DEADLOCK FALSE
INVARIANTS
    NoIdSealedTwice
    QuarantineIsFinal
PROPERTIES
    BrokenIsRecovered
