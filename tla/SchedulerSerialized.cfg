SPECIFICATION FairSpec
CONSTANTS
    s1 = s1
    s2 = s2
    boot = boot
    h1 = h1
    h2 = h2
    h3 = h3
    Schedules = {s1, s2}
    Versions = {"v1", "v3"}
    Expression <- MCExpression
    Handlers = {boot, h1, h2}
    Boot = boot
    NoRow = NoRow
    NoJob = NoJob
    NoTarget = NoTarget
    Serialized = TRUE
    MaxFaults = 1
INVARIANTS SchedulerInv SerializedInSync
PROPERTY DisabledScheduleStops
CHECK_DEADLOCK FALSE
