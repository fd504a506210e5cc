\* Six requests of one slot; every IRadio method, response and indication with
\* both layouts of the data calls; four data calls on three ordinary interfaces;
\* two SAP requests; frames of up to five layers; two Bluetooth stacks.  The
\* requests end at their bound.
SPECIFICATION Services
CONSTANTS
    NULL = NULL
    Info = {i1}
    Thread = {t1}
    Versions = {TRUE}
    Reuse = FALSE
    AllocFails = TRUE
    Slot = {0}
    MaxRequests = 6
    MaxAcks = 1
    VendorVersions = {14, 15}
    MaxProfiles = 2
    MaxUnits = 15
    Ordinary = 3
    MaxCalls = 4
    MaxUnderWay = 2
    Token = {tok1, tok2}
    Late = TRUE
    Steady = TRUE
    MaxLayers = 5
    PlaneCaps = {0, 2, 4}
    Client = {c1, c2}
    Prompt = TRUE
CHECK_DEADLOCK FALSE
INVARIANTS RespondedOnce IdentityNeverEmptySuccess IdentityFresh
    AnsweredOnce CopiesFreedOnce  OutcomeKept
      PictureWhole FencesSettled 
