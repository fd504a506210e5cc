SPECIFICATION HalSpec
CONSTANTS
    NULL = NULL
    s1 = s1
    s2 = s2
    Node = {"hps", "ia"}
    Source <- Sources
    Kind <- HalKind
    DefaultValue <- HalDefault
    MinKhz <- HalZero
    Ceilings <- HalCeilings
    ValueMaps <- HalMaps
    Holds = {1, 2}
    Pulses = {1}
    AccessModes <- HalAccess
    External = {}
    ExternalValues = {1}
    MaxValue = 3
    MaxTime = 1
    RetryPeriod = 1
    RetryWindow = 1
    CanCrash = TRUE
    Modes = {"LAUNCH", "INTERACTIVE", "LOW_POWER"}
    Requests <- HalRequests
    HoldMs = 1
    FlingMinMs = 1
    MaxMs = 1
    PulseMs = 1
    PulseMaxMs = 1
    Durations = {0, 2}
    Levels <- HalLevels
    StaleMs = 1
    LowWater = 80
    Targets = {10}
    Batches = {{}, {5}, {16}}
    SessionId = {s1, s2}
    OffLists = {{}, {"ia", "launch"}}
INVARIANTS ScreenOffHoldsNothing AdpfFollowsSessions
PROPERTIES BoostKeepsEnd 
SYMMETRY Sessions
