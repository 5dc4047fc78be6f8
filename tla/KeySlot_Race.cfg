CONSTANTS
    Senders = {s1, s2}
    Receivers = {r1}
    Keys = {k1, k2}
    MaxBufs = 2
    Nil = Nil
    Torn = Torn
    Zero = Zero
SPECIFICATION Spec
INVARIANT SealedUnderSetKey
