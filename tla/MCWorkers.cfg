SPECIFICATION Workers
CONSTANTS
    NULL = NULL
    Sensor = {"cpu", "skin"}
    Client = {c1, c2}
    Temperature <- Readings
    MaxChanges = 1
    NotifyFails = TRUE
    Thread = {t1, t2}
    Delays = {0, 1, 2}
    MaxTimers = 3
    MaxTime = 3
CHECK_DEADLOCK FALSE
INVARIANTS ClientsInStep NoLostWakeup ThreadHasDevice
PROPERTIES SeverityCatchesUp EveryTimerFires CloseReturns
