SPECIFICATION Spec
CONSTANTS
    Users = {alice}
    Connections = {c1, c2, c3}
    Addresses = {home, mobile, work}
    Window = 1
    TTL = 1
    MaxSessions = 2
    MaxBytes = 0
    MaxTime = 5
    MaxBlanks = 0
    MaxRestarts = 0
    MaxFaults = 1
    DeviceLimit <- MCDeviceLimit
    None = None
SYMMETRY Symmetric
PROPERTIES WithinLimitUntouched RankSurvivesReconnect
CHECK_DEADLOCK FALSE
