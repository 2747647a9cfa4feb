SPECIFICATION Spec
CONSTANTS
    Ids = {a}
    Writers = {w1, w2}
    MaxRevisions = 3
    MaxApprovals = 2
    DamageAllowed = TRUE
    QuarantineMayCrash = TRUE
    CarefulHuman = FALSE
SYMMETRY Symmetry
CHECK_DEADLOCK FALSE
INVARIANTS
    TypeOK
    OneWriterPerRevision
    NoRevisionGap
    UnfinishedIsNeverTrusted
    QuarantineWasApproved
PROPERTIES
    SealedIsFinal
    ImplementsLog
