\* A phone process may die while a call of its is being refused.
SPECIFICATION Spec
CONSTANTS
    Slot = {0, 1}
    Vendor = {v1}
    Binder = binder
    MaxClients = 2
    MaxTime = 1
    Steady = FALSE
INVARIANT
    CallerHoldsRdlock
