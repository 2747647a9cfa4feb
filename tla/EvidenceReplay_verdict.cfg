SPECIFICATION Spec
CONSTANTS
    Answers <- MCAnswers
    MaxPage = 2
    MaxTotal = 3
    MaxPages = 2
    Specs <- MCSpecs
    MaxChanges = 2
    MaxVersion = 2
CHECK_DEADLOCK FALSE
INVARIANTS
    TypeOK
    RefusedIsNeverKept
    BoundIsWholeAnswer
    RecordedPassIsTrue
    MismatchMeansRace
PROPERTIES
    BothEnd
