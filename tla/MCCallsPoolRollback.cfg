SPECIFICATION Spec
CONSTANTS
    Slots = {1, 2}
    Menu = Menu
    Job = Job
    None = None
    MaxOperations = 2
    MaxFaults = 1
    MaxDeaths = 1
INVARIANTS FailureReturnsPool
CHECK_DEADLOCK FALSE
