SPECIFICATION ProxySpec
CONSTANTS
    Texts <- SomeTexts
    Given <- SomeCalls
    Statuses = {"429", "503"}
    Paths = {"a.py", "./a.py", "/workspace/a.py", "../a.py", "main.py", "start.sh", "/workspace/start.sh"}
    Tools = {"write", "bash"}
    Bodies = {"", "ls", "one", "two", "three", "four", "five", "six", "seven"}
    None = None
INVARIANTS
    
    NoWriteOfAWrite
    
    GivenCallsKept
CHECK_DEADLOCK FALSE
