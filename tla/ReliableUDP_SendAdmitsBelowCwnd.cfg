CONSTANTS
    WindowSize = 3
    InitialCwnd = 2
    MaxCwnd = 3
    MaxRetries = 1
    FastRetransmitThreshold = 3
    SeqModulus = 12
    MaxSends = 4
    LinkLoses = TRUE
    RTOAboveRTT = FALSE
    None = None
SPECIFICATION Spec
CHECK_DEADLOCK FALSE
INVARIANT SendAdmitsBelowCwnd
