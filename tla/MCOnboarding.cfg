\* Two names, three addresses, two keys, two enrolments with fairness.
CONSTANTS
    h1 = h1
    h2 = h2
    e1 = e1
    e2 = e2
    e3 = e3
    Hosts = {h1, h2}
    Endpoints = {e1, e2, e3}
    Keys = {k1, k2}
    Absent = Absent
    Nobody = Nobody
    Requests <- DistinctRequests
    MaxAttempts = 2
SPECIFICATION FairSpec

    
    
PROPERTIES
    EnrolmentStands
    DecisionsAreAnswered
