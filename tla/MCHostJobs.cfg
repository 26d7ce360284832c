\* Two host jobs for two hosts under one lease: the concurrency limit, the host lock,
\* and, with fairness, the end of every job.
CONSTANTS
    Sessions = {s1}
    Hosts = {h1, h2}
    None = None
    Requests <- MCHostRequests
    MaxGenerations = 1
    Jobs = {j1, j2}
    SandboxJobs = {}
    SessionLimit = 2
SPECIFICATION FairSpec
INVARIANTS
    JobsKeepApart
PROPERTIES
    RunningEnds
