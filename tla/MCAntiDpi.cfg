SPECIFICATION Spec
CONSTANTS
    Addresses = {scanner, trapped}
    Operators = {menu}
    Collector = collector
    Nobody = nobody
    Caught = {trapped}
    MaxCommands = 2
    MaxFaults = 2
    MaxConflicts = 1
INVARIANTS NoOrphans
PROPERTIES PermanentStands BansEnforced TrustedReleased
