SPECIFICATION Spec
CONSTANTS
    Entries = {e1, e2}
    Durations = {1}
    MinSessions = 2
    MinDuration = 2
    MinFills = 1
    MinEvaluations = 1
    MaxMismatches = 3
    MaxReports = 2
    MaxIncidents = 4
INVARIANTS
    PassAccountsForFills
    ReadyEndsUnblocked
    BlamedSessionsFailed
SYMMETRY EntrySymmetry
CHECK_DEADLOCK FALSE
