CONSTANTS
    HeaderSize = 2
    CRCSize = 1
    PayloadLens = {0, 2}
    MaxFrames = 3
    MaxCalls = 4
    Err = Err
    EOF = EOF
    Forged = Forged
SPECIFICATION Spec
INVARIANT TypeOK
PROPERTY StreamRefinement
PROPERTY ReaderDrains
CHECK_DEADLOCK FALSE
