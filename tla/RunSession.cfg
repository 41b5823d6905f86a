SPECIFICATION FairStatusSpec
CONSTANTS
    NoRun = NoRun
    Runs = {r1, r2, r3}
    LocalRuns = {r1}
    Stops = {}
    Trials = 1
    ClientsLeave = FALSE
INVARIANTS SlotsFollowFlag AnswerIsSettled
PROPERTIES ImplementsSession
CHECK_DEADLOCK FALSE
