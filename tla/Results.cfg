SPECIFICATION Spec
CONSTANTS
    Procs = {"web", "cli"}
    MaxClock = 2
    MaxRuns = 2
    Cli = "cli"
    Keep = 1
    None = None
    Torn = Torn
    MaxFails = 1
    MaxCrashes = 1
INVARIANTS
    ResultHasArchive
    PortalMatches
CHECK_DEADLOCK FALSE
