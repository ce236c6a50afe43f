SPECIFICATION Spec
CONSTANTS
    Users = {alice}
    Connections = {c1, c2}
    Addresses = {home}
    Window = 1
    TTL = 1
    MaxSessions = 2
    MaxBytes = 3
    MaxTime = 4
    MaxBlanks = 2
    MaxRestarts = 1
    MaxFaults = 1
    DeviceLimit <- MCUnlimited
    None = None
SYMMETRY Symmetric
INVARIANTS TypeOK NeverOverbilled AttributedBytesBilled
CHECK_DEADLOCK FALSE
