CONSTANTS
    HeaderSize = 24
    CRCSize = 4
    FragMaxFragments = 3
    SlotCount = 3
    UintModulus = 64
    U16Modulus = 8
    Packets = {p1, p2}
    PayloadSizes = {0, 2, 3, 4}
    MTUs = {27, 28, 29, 30, 31}
    ForgedTotals = {}
    None = None
    NoFrag = NoFrag
SPECIFICATION Spec
CHECK_DEADLOCK FALSE
INVARIANT WholeFitsMTU
