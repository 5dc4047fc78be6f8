CONSTANTS
    Senders = {s1}
    Receivers = {r1}
    Keys = {k1, k2}
    MaxBufs = 2
    Nil = Nil
    Torn = Torn
    Zero = Zero
SPECIFICATION Spec
SYMMETRY MCSymmetry
INVARIANT TypeOK
INVARIANT ZeroKeyOnlyByRace
INVARIANT ZeroKeyOpenedOnlyByRace
