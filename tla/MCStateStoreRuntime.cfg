SPECIFICATION Spec
CONSTANTS
    Sessions = {tui, bot}
    Commanders = {bot}
    Configs = {c0}
    DefaultConfig = c0
    Users = {alice}
    Devices = {phone}
    None = None
    Corrupt = Corrupt
    MaxEditions = 3
    MaxTraffic = 1
    MaxFaults = 1
    MaxDamage = 0
PROPERTIES CountersOwnedByWriters BindingsSurviveStaleSaves
CHECK_DEADLOCK FALSE
