SPECIFICATION Spec
CONSTANTS
    Sessions = {tui, bot}
    Commanders = {bot}
    Configs = {c0, c1}
    DefaultConfig = c0
    Users = {}
    Devices = {}
    None = None
    Corrupt = Corrupt
    MaxEditions = 3
    MaxTraffic = 0
    MaxFaults = 1
    MaxDamage = 1
INVARIANTS TypeOK RevisionNamesContent BackupOneBehind
PROPERTIES NoLostUpdate RevisionCountsChanges
CHECK_DEADLOCK FALSE
