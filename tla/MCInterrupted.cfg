\* Two transactions for one host and two leases: executions that are killed or lose
\* an audit record, and go on under another lease.
CONSTANTS
    Sessions = {s1}
    Hosts = {h1}
    None = None
    Requests <- MCRequests
    MaxGenerations = 2
    Txns = {t1, t2}
    Actions <- RestartOnly
    MaxPlan = 1
    MaxSnapshots = 2
    SessionLife = 1
    SnapshotLife = 1
    MaxPeriod = 1
SPECIFICATION ChangesSpec
CONSTRAINT LabOnly
SYMMETRY Interchangeable
INVARIANTS
    ExecutedOnce
    AcceptedIsEarned
PROPERTIES
    OutcomeIsFinal
    LocksKeepOut
