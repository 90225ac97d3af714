SPECIFICATION KmSpec
CONSTANTS
    c1 = c1
    c2 = c2
    Worker = {w1, w2}
    Context = {c1, c2}
    Slot <- MCSlot
    Entry = {e1, e2, e3}
    Ref = {r1, r2}
    MaxRegId = 2
    MaxCount = 2
    NoContext = NoContext
    NoSlot = NoSlot
    NoEntry = NoEntry
    NoRef = NoRef
    ActiveBackends <- MCBackends
    DefaultPaths <- MCPaths
    Scenario <- MCScenario
INVARIANT ReferencesExact KeyInUseOwned StartsOnlyWhole GrantNeverGrows BoundKeyOfProvider GuardedKeyAlive
SYMMETRY Symmetry
CHECK_DEADLOCK FALSE
