\* A machine is classified and removed; the planners.
CONSTANTS
    h1 = h1
    h2 = h2
    e1 = e1
    e2 = e2
    e3 = e3
    Hosts = {h1, h2}
    Endpoints = {e1}
    Keys = {k1, k2}
    Absent = Absent
    Nobody = Nobody
    Requests <- SharedRequests
    MaxAttempts = 2
SPECIFICATION Spec
INVARIANTS
    RemovedIsUnplanned
