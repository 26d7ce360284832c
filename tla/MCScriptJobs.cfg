\* Two sandbox jobs for one host under up to two leases: crashes, orphaned helpers, rearming.
CONSTANTS
    Sessions = {s1}
    Hosts = {h1}
    None = None
    Requests <- MCSandboxRequests
    MaxGenerations = 2
    Jobs = {j1, j2}
    SandboxJobs = {j1, j2}
    SessionLimit = 2
SPECIFICATION Spec
INVARIANTS
    RunsOnce
    StartsArePaid
    
    JobsOnRecord
PROPERTIES
    
    ResultIsFinal
