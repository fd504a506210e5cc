SPECIFICATION Spec
CONSTANTS
    NULL = NULL
    MAL = mal
    Channel = {c0, c6}
    Binder = {b1}
    MaxJobs = 1
    CreateFails = FALSE
INVARIANTS ChannelExclusive
