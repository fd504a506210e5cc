SPECIFICATION WakeSpec
CONSTANTS
    NULL = NULL
    Info = {i1, i2, i3}
    Thread = {t1, t2}
    Versions = {TRUE}
    Reuse = TRUE
    AllocFails = TRUE
CHECK_DEADLOCK FALSE
INVARIANTS HeldHasTimer
