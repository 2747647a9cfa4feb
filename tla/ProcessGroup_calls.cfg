SPECIFICATION FairSpec
CONSTANTS
    Descendants = {d1, d2}
    MaxOutput = 2
    PipeSize = 2
    ZombieHasGroup = FALSE
    MaxWritten = 3
CHECK_DEADLOCK FALSE
INVARIANTS
    ResultIsTrue
PROPERTIES
    NoSignalAfterReap
    CallEnds
