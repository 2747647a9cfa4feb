SPECIFICATION Spec
CONSTANTS
    Answers <- MCAnswers
    MaxPage = 2
    MaxTotal = 3
    MaxPages = 2
    Specs <- MCSpecs
    MaxChanges = 1
    MaxVersion = 1
CHECK_DEADLOCK FALSE
INVARIANTS
    ChangeIsExit3
