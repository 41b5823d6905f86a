SPECIFICATION LogFairSpec
CONSTANTS
    Writers = {w1, w2}
    Clients = {c1}
    MaxLines = 2
    Capacity = 2
INVARIANTS NoSilentLoss MissedLinesInConsole
PROPERTIES LinesArrive
CHECK_DEADLOCK FALSE
