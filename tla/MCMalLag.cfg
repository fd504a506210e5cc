SPECIFICATION Spec
CONSTANTS
    NULL = NULL
    Inflight = {1, 2}
    MaxAttempts = 1
    ClaimMayLag = TRUE
    MaxRequests = 2
    MaxClients = 2
CHECK_DEADLOCK FALSE
INVARIANTS AnswerIsOwn
