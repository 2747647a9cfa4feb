SPECIFICATION Spec
CONSTANTS
    Descendants = {d1, d2}
    MaxOutput = 2
    PipeSize = 2
    ZombieHasGroup = TRUE
    MaxWritten = 3
CHECK_DEADLOCK FALSE
INVARIANT NothingLeftRunning
