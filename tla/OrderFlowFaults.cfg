SPECIFICATION Spec
CONSTANTS
    NoLink = NoLink
    Symbols = {s1}
    EntryLinks = {e1}
    ExitLinks = {x1, x2}
    Links = {e1, x1, x2}
    Lot = 2
    AllowAdds = FALSE
    MaxEntries = 1
    MaxAttempts = 1
    MaxMismatches = 1
    MaxQueue = 2
    MaxDrops = 1
    MaxRedelivered = 1
    MaxCrashes = 0
    MaxRefreshes = 0
INVARIANTS
    TypeOK
    OneExitPerFill
    ExitCoversFill
    LocalNeverAhead
