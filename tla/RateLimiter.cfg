SPECIFICATION FairSpec
CONSTANTS
    Limit = 3
    Window = 5
    MaxCalls = 8
INVARIANTS
    WindowBounded
    AtMostTwoSleeps
PROPERTIES
    EveryCallReturns
