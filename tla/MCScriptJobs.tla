---------------------------- MODULE MCScriptJobs -----------------------------
(* Small instances of ScriptJobs for TLC. *)
EXTENDS ScriptJobs

HostRequest(hosts, budget, concurrency) ==
    [mode |-> "guided", hosts |-> hosts, caps |-> {"host_scripts"}, recipes |-> {},
     duration |-> 15, budget |-> budget, concurrency |-> concurrency]

SandboxRequest(hosts, budget, concurrency) ==
    [HostRequest(hosts, budget, concurrency) EXCEPT
        !.mode = "dynamic_sandbox", !.caps = {"dynamic_scripts"}]

\* Sandbox leases that are used up by one job, or by two.
MCSandboxRequests == {SandboxRequest(Hosts, 1, 1), SandboxRequest(Hosts, 2, 1)}

\* Host-script leases over every scope, with each concurrency it admits.
MCHostRequests == {HostRequest(hs, 2, c) : hs \in SUBSET Hosts \ {{}}, c \in 1..2}

\* One lease of each kind.
MCMixedRequests == {SandboxRequest(Hosts, 1, 1), HostRequest(Hosts, 1, 1)}
=============================================================================
