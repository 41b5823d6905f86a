SPECIFICATION FairSpec
CONSTANTS
    Lines = {x, y}
    Texts <- MCTexts
    LookAhead = 2
INVARIANTS SkipInRange PathThroughBoth RestoresBoth
PROPERTIES Terminates
CHECK_DEADLOCK FALSE
