SPECIFICATION FairSpec
CONSTANTS
    Early = {reconcile}
    Late = {decision, stream}
INVARIANTS
    NothingRunsOn
    CleanIffOnlyAsked
PROPERTIES
    StopEnds
    FailureNoticed
CHECK_DEADLOCK FALSE
