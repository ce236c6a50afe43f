SPECIFICATION Spec
CONSTANTS
    Processes = {tui, daemon}
    None = None
    Torn = Torn
    MaxWrites = 4
    MaxFaults = 2
    MaxOutages = 2
INVARIANTS TypeOK PrimaryNeverTorn ReturnedSaveSurvives BackupWholeWithoutOutage
PROPERTIES SavesAreAtomic
CHECK_DEADLOCK FALSE
