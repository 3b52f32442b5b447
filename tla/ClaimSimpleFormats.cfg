SPECIFICATION Spec
CONSTANTS
    s1 = s1
    s2 = s2
    boot = boot
    h1 = h1
    h2 = h2
    h3 = h3
    Schedules = {s1}
    Versions = {"v4", "v5"}
    Expression <- MCExpression
    Handlers = {boot, h1}
    Boot = boot
    NoRow = NoRow
    NoJob = NoJob
    NoTarget = NoTarget
    Serialized = TRUE
    MaxFaults = 0
INVARIANT SimpleFormatsRun
CHECK_DEADLOCK FALSE
