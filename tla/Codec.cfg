CONSTANTS
    Headers <- MCHeaders
    Payloads <- MCPayloads
    MaxPayloadLen = 3
    MaxFlips = 1
    None = None
SPECIFICATION Spec
INVARIANT TypeOK
INVARIANT CRCMatchesReference
INVARIANT OnlyIntactAccepted
CHECK_DEADLOCK FALSE
