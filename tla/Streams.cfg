CONSTANTS
    DigestLen = 2
    NoOut = NoOut
    Objects = {o1, o2}
    Chunks = {a, b}
    MaxContexts = 2
    MaxFed = 3
    KindsOf <- MCKindsOf
    Closed = Closed
    None = None
    Unspecified = Unspecified
CHECK_DEADLOCK FALSE
SPECIFICATION Spec
INVARIANTS AlwaysRecoverable OneOwner
PROPERTY StreamRefinement
