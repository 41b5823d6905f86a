SPECIFICATION FairSpec
CONSTANTS
    Runs = {r1, r2}
    NoRun = NoRun
    MaxStops = 2
    MaxCrashes = 1
INVARIANTS MixUpNeedsStop NothingLeft InterferenceNeedsStop
PROPERTIES RunsEnd
CHECK_DEADLOCK FALSE
