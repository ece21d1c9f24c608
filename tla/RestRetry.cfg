SPECIFICATION FairSpec
CONSTANTS
    MaxRetries = 3
    MaxRequests = 3
INVARIANTS
    GivenUpAfterOwnFailure
    RetriesAsConfigured
    NoBusyLoop
PROPERTIES
    EveryRequestEnds
CHECK_DEADLOCK FALSE
