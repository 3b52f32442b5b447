SPECIFICATION FairSpec
CONSTANTS
    t1 = t1
    t2 = t2
    c1 = c1
    c2 = c2
    s1 = s1
    Tasks = {t1, t2}
    Channels = {c1, c2}
    Schedules = {s1}
    NoSchedule = NoSchedule
    ChannelOf <- MCChannelOf
    MaxConcurrent = 1
    NoTask = NoTask
    NoRequest = NoRequest
    MaxFaults = 1
CONSTRAINT AdmissionOnly
INVARIANTS AdmissionRespected CheckStaysValid IndInv
PROPERTY CallsReturn
CHECK_DEADLOCK FALSE
