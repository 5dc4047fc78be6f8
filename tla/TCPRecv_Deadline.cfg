CONSTANTS
    HeaderSize = 2
    CRCSize = 1
    PayloadLens = {0, 2}
    MaxFrames = 3
    MaxCalls = 5
    Err = Err
    EOF = EOF
    Forged = Forged
SPECIFICATION Spec
CHECK_DEADLOCK FALSE
INVARIANT IdleAtFrameBoundary
