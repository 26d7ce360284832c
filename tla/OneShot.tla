-------------------------------- MODULE OneShot -------------------------------
(***************************************************************************)
(* What an approval promises: it is issued once, for one thing, and used   *)
(* at most once.  The approval services of the backend and the pages that  *)
(* work with their tokens both implement it.                               *)
(***************************************************************************)
EXTENDS Naturals

CONSTANTS Ids
VARIABLES
    issued,  \* the approvals that exist or existed
    uses     \* how often each was used

shotVars == <<issued, uses>>

ShotInit == issued = {} /\ uses = [i \in Ids |-> 0]

Issue(i) == i \notin issued /\ issued' = issued \cup {i} /\ UNCHANGED uses

Use(i) ==
    /\ i \in issued /\ uses[i] = 0
    /\ uses' = [uses EXCEPT ![i] = 1]
    /\ UNCHANGED issued

ShotNext == \E i \in Ids : Issue(i) \/ Use(i)

ShotSpec == ShotInit /\ [][ShotNext]_shotVars
===============================================================================
