SPECIFICATION FairSpec
CONSTANTS
    FirstCandle = 1
    LastCandle = 4
    PerRegime = 2
    FetchLimit = 2
    HistoryMax = 3
INVARIANTS
    BarsInOrder
    GapOnlyWhereMissed
PROPERTIES
    RegimeInStep
    StreamsAgain
CHECK_DEADLOCK FALSE
