\* Two sessions, one host, two previews, a capacity of one, two leases.
CONSTANTS
    Sessions = {s1, s2}
    Hosts = {h1}
    None = None
    Requests <- MCRequests
    MaxGenerations = 2
    Targets = {x}
    Tickets = {t1, t2}
    MaxPending = 1
SPECIFICATION Spec
INVARIANTS
    ApprovalsHold

    
