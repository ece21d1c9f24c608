SPECIFICATION Spec
CONSTANTS
    NoLink = NoLink
    Symbols = {s1}
    EntryLinks = {e1}
    ExitLinks = {x1}
    Links = {e1, x1}
    Lot = 1
    AllowAdds = TRUE
    MaxEntries = 1
    MaxAttempts = 2
    MaxMismatches = 3
    MaxQueue = 1
    MaxDrops = 0
    MaxRedelivered = 0
    MaxCrashes = 1
    MaxRefreshes = 1
INVARIANTS
    BlocksConsistent
    LocalNeverAhead
