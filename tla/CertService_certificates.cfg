SPECIFICATION CertSpec
CONSTANTS
    Client = {c1}
    Node = {x1, n1, n2}
    Exclusive = {x1}
    Holder = {w1, w2}
    MaxId = 3
    MaxNodes = 1
    NoNode = NoNode
    NoAccessor = NoAccessor
    SlotEntries <- MCSlots
    StoreEntries <- MCStores
    SlotMappings <- MCSlotMappings
    StoreMappings <- MCStoreMappings
    Provider <- MCProvider
    ParserName = NoName
    NoName = NoName
    UidOf <- MCUid
    Entry = {e1, e2}
    Nothing = Nothing
INVARIANTS TreesSound RegistryExact ResourceNodesExact
PROPERTY BusyMarkIsCleared
CHECK_DEADLOCK FALSE
