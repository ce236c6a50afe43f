SPECIFICATION FairSpec
CONSTANTS
    Users = {alice}
    MaxEdits = 2
    MaxJobs = 1
    MaxDays = 1
    MaxFaults = 2
INVARIANTS TypeOK BlocksAreOwed
PROPERTIES AutomaticBlocksStay OverLimitIsCut
