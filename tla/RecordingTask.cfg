SPECIFICATION FairSpec
CONSTANTS
    t1 = t1
    t2 = t2
    c1 = c1
    c2 = c2
    s1 = s1
    Tasks = {t1}
    Channels = {c1}
    Schedules = {s1}
    NoSchedule = NoSchedule
    ChannelOf <- MCChannelOf
    MaxConcurrent = 1
    NoTask = NoTask
    NoRequest = NoRequest
    MaxFaults = 3
INVARIANTS
    KilledNeverCompleted
    CompletedMeansRecorderGone
    AnnouncedOnce
    DeleteSparesRunning
    NoZombieWithoutFault
PROPERTIES
    OnlySpawnOverwritesCancel
    RunningRowsSettle
    KillStopsRecorder
    CancelStopsRecorder
    ImplementsLifecycle
CHECK_DEADLOCK FALSE
