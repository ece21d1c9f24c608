SPECIFICATION FairSpec
CONSTANTS
    TheDrill = d1
    Links = {d1}
    Lot = 4
    NoPrice = NoPrice
    Settings <- SomeSettings
    Prices = {2, 3}
    Timeout = 25
    PollEvery = 2
    FallbackAt = 5
INVARIANTS
    CapHolds
    CompletedWhenOver
PROPERTIES
    DrillConcludes
CHECK_DEADLOCK FALSE
