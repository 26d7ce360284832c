\* One host job: a pause between two polls.
CONSTANTS
    Sessions = {s1}
    Hosts = {h1}
    None = None
    Requests <- MCMixedRequests
    MaxGenerations = 1
    Jobs = {j1}
    SandboxJobs = {}
    SessionLimit = 2
SPECIFICATION FairSpec
PROPERTIES
    PauseCancels
