----------------------------- MODULE MCChanges --------------------------------
(* Small instances of Changes for TLC. *)
EXTENDS Changes, TLC

Plans(hosts, caps, budget) ==
    [mode |-> "guided", hosts |-> hosts, caps |-> caps, recipes |-> {},
     duration |-> 15, budget |-> budget, concurrency |-> 1]

\* A managed file on the first host, a material service restart and a backup.
MCActions(h1, h2) ==
    {[index |-> 1, host |-> h1, cap |-> "managed_files", material |-> FALSE],
     [index |-> 2, host |-> h2, cap |-> "services", material |-> TRUE],
     [index |-> 3, host |-> h2, cap |-> "backups", material |-> FALSE]}

FirstHost  == CHOOSE h \in Hosts : TRUE
SecondHost == IF Cardinality(Hosts) = 1 THEN FirstHost
              ELSE CHOOSE h \in Hosts : h # FirstHost

AllActions       == MCActions(FirstHost, SecondHost)
FileAndRestart   == {a \in AllActions : a.index # 3}
RestartOnly      == {a \in AllActions : a.index = 2}

\* Bound: the machines stay as enrolled; only their entries are replaced.
LabOnly == \A h \in Hosts : env[h] = "lab"

\* Bound: the lease is not paused; what pausing does is checked in MCAuthority.
NeverPaused == LabOnly /\ lease.status # "paused"

\* Sessions and transactions are interchangeable; only safety is checked with it.
Interchangeable == Permutations(Sessions) \cup Permutations(Txns)

MCRequests == {Plans(Hosts, {"managed_files", "services", "backups"}, 2)}

\* A lease that is used up by one action.
MCOneAction == {Plans(Hosts, {"services"}, 1)}
=============================================================================
