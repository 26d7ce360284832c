\* Two sessions, two hosts, up to three leases.
CONSTANTS
    Sessions = {s1, s2}
    Hosts = {h1, h2}
    None = None
    Requests <- MCRequests
    MaxGenerations = 3
SPECIFICATION AuthoritySpec
INVARIANTS
    LeaseHolds
    ArmIsOnRecord
PROPERTIES
    GrantHolds
