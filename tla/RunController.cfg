SPECIFICATION FairSpec
CONSTANTS
    NoRun = NoRun
    Runs = {r1, r2}
    LocalRuns = {r1}
    Stops = {s1}
    Trials = 2
    ClientsLeave = TRUE
INVARIANTS TypeOK HoldUntilDone OverlapNeedsStop StopBeatsArchive
PROPERTIES EventuallyFree
CHECK_DEADLOCK FALSE
