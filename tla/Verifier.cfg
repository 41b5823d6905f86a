SPECIFICATION FairSpec
CONSTANTS
    Tasks = {"redis", "http", "dns"}
    Lags = {0, 1}
    MaxPieces = 2
    PipeQuiet = 2
    PipeTotal = 3
INVARIANTS
    FrameWhenWhole
    PassIsEarned
    ConformingPasses
    StagesInOrder
PROPERTY VerificationEnds
CHECK_DEADLOCK FALSE
