SPECIFICATION SignalSpec
CONSTANTS
    Symbol = s1
    NoPrice = NoPrice
    Candles <- SomeCandles
    Hours <- SomeHours
    Accounts <- SomeAccounts
    PerSymbol <- Limits
    Relax = TRUE
    Mode = "demo"
    FilterEnabled = TRUE
    FilterMode = "hard_block"
    Threshold = 45
    Lookback = 1
    MinBreakout = 500
    MinTrend = 800
    RegimeBars = 2
    TrendLimit = 1200
    MaxVolatility = 18000
    MinVolatility = 500
    MaxTotalNotional = 20000
    MaxLeverage = 2
    DailyLossLimit = 1
    LiquidationBuffer = 1
INVARIANTS
    CandidatesSound
    SizedWithinBudget
    EntersWithinLimits
