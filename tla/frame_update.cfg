SPECIFICATION FairSpec
CONSTANTS
    Conns = {c1, c2}
    App = App
    NoOne = NoOne
    Sizes <- TwoSizes
    Formats <- SomeFormats
    Requests <- SomeRequests
    HostBE = FALSE
    MaxFrames = 2
    MaxUpdated = 3
INVARIANTS
    RepliesAreSnapshots
    FormatIsHonoured
    ReadersAreNoticed
PROPERTIES
    LockIsReleased
CHECK_DEADLOCK FALSE
