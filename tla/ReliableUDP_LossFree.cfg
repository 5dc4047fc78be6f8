CONSTANTS
    WindowSize = 3
    InitialCwnd = 2
    MaxCwnd = 3
    MaxRetries = 1
    FastRetransmitThreshold = 3
    SeqModulus = 12
    MaxSends = 4
    LinkLoses = FALSE
    RTOAboveRTT = TRUE
    None = None
SPECIFICATION LossFreeSpec
CHECK_DEADLOCK FALSE
PROPERTY SentEventuallyReleased
