SPECIFICATION Spec
CONSTANTS
    daemon = daemon
    timer = timer
    sync = sync
    Units = {daemon, timer, sync}
    Oneshots = {sync}
    Timer <- MCTimer
    None = None
    Keep = 1
    MaxRuns = 2
    MaxFaults = 3
    MaxEdits = 1
INVARIANTS AllOrNothing OldCodeNeverMeetsNewState StateKept
PROPERTIES ServicesReturn
CHECK_DEADLOCK FALSE
