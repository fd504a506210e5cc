\* A NITZ that waits for a phone process.
SPECIFICATION Spec
CONSTANTS
    Slot = {0, 1}
    Vendor = {v1}
    Binder = binder
    MaxClients = 2
    MaxTime = 2
    Steady = TRUE
INVARIANT
    NitzTimeKept
