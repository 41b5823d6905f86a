SPECIFICATION FairSpec
CONSTANTS
    MaxTurns = 2
    MaxBudget = 3
    MaxLines = 4
    TornInChar = TRUE
    OpenFails = TRUE
INVARIANTS TranscriptComplete StopExplained VerdictIsEarned
 
CHECK_DEADLOCK FALSE
