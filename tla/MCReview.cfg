\* An approval that expires before the transaction was started.
CONSTANTS
    Sessions = {s1}
    Hosts = {h1}
    None = None
    Requests <- MCRequests
    MaxGenerations = 1
    Txns = {t1}
    Actions <- RestartOnly
    MaxPlan = 1
    MaxSnapshots = 2
    SessionLife = 1
    SnapshotLife = 1
    MaxPeriod = 2
SPECIFICATION ChangesSpec
INVARIANT ExpiredCanBePreviewed
