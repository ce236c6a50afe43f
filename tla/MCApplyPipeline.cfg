SPECIFICATION Spec
CONSTANTS
    plain = plain
    direct = direct
    mux = mux
    Processes = {tui, agent}
    Configs <- MCConfigs
    Initial = plain
    Frontend <- MCFrontend
    Enabled <- MCEnabled
    Tproxy = {mux}
    Accounted = {direct, mux}
    None = None
    MaxEdits = 2
    MaxApplies = 2
    MaxFaults = 2
INVARIANTS PipelineTypeOK
PROPERTIES CommittedEverywhere FailedApplyRestores
CHECK_DEADLOCK FALSE
