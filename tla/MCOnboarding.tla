---------------------------- MODULE MCOnboarding ------------------------------
(* Small instances of Onboarding for TLC. *)
EXTENDS Onboarding

CONSTANTS h1, h2, e1, e2, e3

Ask(n, ep, e, p) == [name |-> n, endpoint |-> ep, env |-> e, password |-> p]

\* One name at either of two addresses, another name at a third one.
DistinctRequests ==
    {Ask(h1, e1, "lab", TRUE), Ask(h1, e2, "production", FALSE), Ask(h2, e3, "lab", TRUE)}

\* Two names for one machine.
SharedRequests == {Ask(h1, e1, "lab", TRUE), Ask(h2, e1, "production", FALSE)}
=============================================================================
