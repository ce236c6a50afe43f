SPECIFICATION Spec
CONSTANTS
    Slots = {1, 2}
    Menu = Menu
    Job = Job
    None = None
    MaxOperations = 2
    MaxFaults = 3
    MaxDeaths = 1
INVARIANTS PreviousPoolStands SuccessMeansWhole NoRoomLeaks
PROPERTIES PoolHeals DeadRoomsGo
CHECK_DEADLOCK FALSE
