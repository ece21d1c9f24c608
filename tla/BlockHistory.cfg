SPECIFICATION HistorySpec
CONSTANTS
    NoLink = NoLink
    Symbols = {s1, s2}
    EntryLinks = {e1}
    ExitLinks = {x1}
    Links = {e1, x1}
    Lot = 1
    AllowAdds = FALSE
    MaxEntries = 1
    MaxAttempts = 1
    MaxMismatches = 1
    MaxQueue = 1
    MaxDrops = 1
    MaxRedelivered = 0
    MaxCrashes = 1
    MaxRefreshes = 0
PROPERTIES
    BlockLiftedOnlyWhenSafe
