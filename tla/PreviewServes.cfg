SPECIFICATION FairSpec
CONSTANTS
    a1 = a1
    a2 = a2
    a3 = a3
    a4 = a4
    b1 = b1
    k1 = k1
    k2 = k2
    Starts = {a1, a2}
    Owner <- MCOwner
    ChannelOf <- MCChannelOf
    Stops = {k1, k2}
    Cleaner = Cleaner
    Nobody = Nobody
    MaxPerUser = 2
    Profiles = 2
    Overlap = 2
    MaxFaults = 1
INVARIANTS NothingLeftBehind SessionsServed
PROPERTIES CleanupSparesWatched StartsReturn IdleSessionsClose
CHECK_DEADLOCK FALSE
