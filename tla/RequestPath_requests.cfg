SPECIFICATION PathSpec
CONSTANTS
    Client = {c1}
    Node = {n1, x1, x2, k1, l1, s1, s2}
    Connection = {n1}
    Context = {x1, x2}
    BoundKey = {k1}
    Slot = {l1}
    Shm = {s1, s2}
    s1 = s1
    s2 = s2
    Size <- MCSize
    MaxBytes = 2
    Exclusive = {n1, x1, x2}
    Holder = {w1, w2}
    MaxId = 4
    MaxNodes = 3
    NoNode = NoNode
    NoAccessor = NoAccessor
SYMMETRY Symmetry
INVARIANTS  StoredContextReady BoundKeyAlive CachedSlotStored
 
CHECK_DEADLOCK FALSE
