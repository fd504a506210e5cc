SPECIFICATION FairSpec
CONSTANTS
    NULL = NULL
    Node = {"ppm", "hold", "ia"}
    Source = {"touch"}
    Kind <- MixedKind
    DefaultValue <- MixedZero
    MinKhz <- MixedZero
    Ceilings <- MixedCeilings
    ValueMaps <- MixedMaps
    Holds = {1}
    Pulses = {1}
    AccessModes <- MixedAccess
    External = {}
    ExternalValues = {8}
    MaxValue = 8
    MaxTime = 1
    RetryPeriod = 1
    RetryWindow = 1
    CanCrash = FALSE
INVARIANTS CapturePutsBack
PROPERTIES ExpiredIsDropped RetryLands StopEnds
