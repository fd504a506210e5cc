SPECIFICATION Spec
CONSTANTS
    touch = touch
    launch = launch
    NULL = NULL
    Node = {"hps", "cpu", "core"}
    Source = {touch, launch}
    Kind <- FloorKind
    DefaultValue <- FloorDefault
    MinKhz <- FloorMin
    Ceilings <- FloorCeilings
    ValueMaps <- FloorMaps
    Holds = {1, 2}
    Pulses = {}
    AccessModes <- FloorAccess
    External = {"core"}
    ExternalValues = {9}
    MaxValue = 50
    MaxTime = 1
    RetryPeriod = 1
    RetryWindow = 1
    CanCrash = TRUE
SYMMETRY Sources
INVARIANTS NodeHoldsAggregate WakesInTime NotificationComes
PROPERTIES RestartLeavesNoFloor FloorUnderCeiling ImplementsArbiter
