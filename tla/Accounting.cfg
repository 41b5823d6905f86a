SPECIFICATION Spec
CONSTANTS
    Procs = {"web", "cli"}
    Cli = "cli"
    Models = {"local", "gemini-2.5-flash"}
    Usages <- SomeUsages
    Durations = {60}
    Loads <- SomeLoads
    MaxRuns = 3
    MaxSaved = 2
    None = None
INVARIANTS
    CostIsOwn
    PassAtKIsTheChance
    RanksAgree
CHECK_DEADLOCK FALSE
