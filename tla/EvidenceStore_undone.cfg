SPECIFICATION Spec
CONSTANTS
    Ids = {a}
    Writers = {w1, w2}
    MaxRevisions = 3
    MaxApprovals = 2
    DamageAllowed = FALSE
    QuarantineMayCrash = FALSE
    CarefulHuman = FALSE
SYMMETRY Symmetry
CHECK_DEADLOCK FALSE
INVARIANTS
    QuarantineIsFinal
