CONSTANTS
    t1 = t1
    t2 = t2
    Threads <- MCThreads
    Applications <- DerivingApplications
    Pins <- MCPins
    ShortPin = "short"
    FactorySoPin = "so"
    FactoryUserPin = "user"
    MaxPinFailures = 2
    Slots = {1}

SPECIFICATION Spec
SYMMETRY ThreadSymmetry
CHECK_DEADLOCK FALSE

INVARIANT NeverExtractableMeansNever
