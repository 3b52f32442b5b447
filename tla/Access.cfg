SPECIFICATION FairSpec
CONSTANTS
    p1 = p1
    p2 = p2
    p3 = p3
    c1 = c1
    Passwords = {"w1", "w2"}
    Processes = {p1, p2}
    Sockets = {c1}
    NoToken = NoToken
    NoRow = NoRow
    NoPassword = NoPassword
    MaxFailures = 2
    LockTime = 2
    RecheckTime = 1
    MaxVersion = 2
    MaxCount = 2
INVARIANTS TokensProvePassword LateGuessesBounded
PROPERTIES RevokedForGood SilentSocketsClose
CHECK_DEADLOCK FALSE
