\* Two slots on one lock, a vendor thread and the binder thread, two phone
\* processes; two requests of mtkmal on two connections; two channels; three
\* wake lock timers and both versions of the vendor library.
SPECIFICATION Clients
CONSTANTS
    NULL = NULL
    Slot = {0, 1}
    Vendor = {v1}
    Binder = binder
    MaxClients = 2
    MaxTime = 1
    Steady = TRUE
    Inflight = {1, 2}
    MaxAttempts = 2
    ClaimMayLag = FALSE
    MaxRequests = 2
    MaxPeers = 2
    MAL = mal
    Channel = {ch0, ch6}
    Caller = {b1}
    MaxJobs = 3
    CreateFails = TRUE
    Info = {i1, i2, i3}
    Deliverer = {t1, t2}
    Versions = {TRUE, FALSE}
    Reuse = FALSE
    AllocFails = TRUE
CHECK_DEADLOCK FALSE
INVARIANTS AnswerIsOwn AnswerToAsker TokenOutlivesUse
PROPERTIES LiveClientKept    EventuallyReleased
