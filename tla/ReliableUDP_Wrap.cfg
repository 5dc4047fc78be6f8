CONSTANTS
    WindowSize = 3
    InitialCwnd = 2
    MaxCwnd = 3
    MaxRetries = 1
    FastRetransmitThreshold = 3
    SeqModulus = 6
    MaxSends = 7
    LinkLoses = TRUE
    RTOAboveRTT = FALSE
    None = None
SPECIFICATION Spec
INVARIANT NoAckedAtBase
CHECK_DEADLOCK FALSE
