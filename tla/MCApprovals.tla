---------------------------- MODULE MCApprovals -------------------------------
(* Small instances of Approvals for TLC. *)
EXTENDS Approvals

\* A lease for either capability or for both, over every scope.
MCRequests ==
    {[mode |-> "guided", hosts |-> hs, caps |-> cs, recipes |-> {},
      duration |-> 15, budget |-> 1, concurrency |-> 1] :
        hs \in SUBSET Hosts \ {{}}, cs \in {{"services"}, {"services", "backups"}}}
=============================================================================
