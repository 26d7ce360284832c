\* Two transactions of one session over two hosts and one lease; the recovery store
\* holds the snapshots of a plan of two actions and of one of a single action.
CONSTANTS
    Sessions = {s1}
    Hosts = {h1, h2}
    None = None
    Requests <- MCRequests
    MaxGenerations = 1
    Txns = {t1, t2}
    Actions <- FileAndRestart
    MaxPlan = 2
    MaxSnapshots = 3
    SessionLife = 1
    SnapshotLife = 1
    MaxPeriod = 1
SPECIFICATION ChangesSpec
CONSTRAINT LabOnly
SYMMETRY Interchangeable
INVARIANTS
    ExecutionsArePaid
    StoreHasRoom
