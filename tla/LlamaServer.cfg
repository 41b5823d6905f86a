SPECIFICATION FairSpec
CONSTANTS
    Runs = {r1, r2}
    Asked = {"qwen2.5-coder-1.5b", "qwen2.5-coder-14b"}
    Buttons = {"deepseek-coder-6.7b"}
    MaxPolls = 2
    MaxClicks = 1
    MaxStops = 1
INVARIANTS RightModel EvictionNeedsStop
PROPERTIES RunsProceed
CHECK_DEADLOCK FALSE
