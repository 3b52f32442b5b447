SPECIFICATION FairSpec
CONSTANTS
    t1 = t1
    t2 = t2
    s1 = s1
    s2 = s2
    Tasks = {t1}
    Sockets = {s1, s2}
    Capacity = 2
    MaxFaults = 2
    Progress = Progress
    NoSocket = NoSocket
    NoFetch = NoFetch
    Asked = Asked
INVARIANTS KeepsTrying EndsOnTheirWay
PROPERTIES  RunningHeals EndsArrive
CHECK_DEADLOCK FALSE
