SPECIFICATION Spec
CONSTANTS
    a1 = a1
    a2 = a2
    a3 = a3
    a4 = a4
    b1 = b1
    k1 = k1
    k2 = k2
    Starts = {a1, a2, a3, a4}
    Owner <- MCOwner
    ChannelOf <- MCChannelOf
    Stops = {k1}
    Cleaner = Cleaner
    Nobody = Nobody
    MaxPerUser = 1
    Profiles = 2
    Overlap = 2
    MaxFaults = 0
INVARIANT LimitsKept
CHECK_DEADLOCK FALSE
