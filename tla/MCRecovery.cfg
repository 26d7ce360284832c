\* Two sessions with a transaction each over two periods: retention and rollback.
CONSTANTS
    Sessions = {s1, s2}
    Hosts = {h1}
    None = None
    Requests <- MCOneAction
    MaxGenerations = 2
    Txns = {t1, t2}
    Actions <- RestartOnly
    MaxPlan = 1
    MaxSnapshots = 2
    SessionLife = 1
    SnapshotLife = 1
    MaxPeriod = 2
SPECIFICATION ChangesSpec
CONSTRAINT NeverPaused
SYMMETRY Interchangeable
INVARIANTS
    RollbackHolds
