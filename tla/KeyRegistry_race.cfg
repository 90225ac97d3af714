SPECIFICATION Spec
CONSTANTS
    Worker = {w1, w2}
    Context = {c1}
    Slot = {s1}
    Entry = {e1, e2}
    Ref = {r1, r2}
    MaxRegId = 3
    MaxCount = 3
    NoContext = NoContext
    NoSlot = NoSlot
    NoEntry = NoEntry
    NoRef = NoRef
SYMMETRY Symmetry
INVARIANT LiveKeyRegistered
CHECK_DEADLOCK FALSE
