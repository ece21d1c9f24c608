SPECIFICATION FairSpec
CONSTANTS
    s1 = s1
    s2 = s2
    Symbols <- TwoSymbols
    Orders <- OneOrder
    PerSymbol <- NoLimits
    NoPrice = NoPrice
    MaxTotalNotional = 2
    MaxLeverage = 2
    DailyLossLimit = 1
    LiquidationBuffer = 1
    MaxRejections = 2
    Cooldown = 3
    StaleLimit = 2
    WatchEvery = 2
    HasCredentials = TRUE
    SafeModeSetting = FALSE
INVARIANTS
    OneEntryAfterTrip
    TripIsVisible
PROPERTIES
    NoApprovalOnStaleFeed
    RefusalsSpaced
    GateReopens
