----------------------------- MODULE MCAuthority -----------------------------
(* Small instances of Authority for TLC. *)
EXTENDS Authority

Request(mode, hosts, caps, recipes, duration, budget, concurrency) ==
    [mode |-> mode, hosts |-> hosts, caps |-> caps, recipes |-> recipes,
     duration |-> duration, budget |-> budget, concurrency |-> concurrency]

\* Valid and invalid requests of every mode, over every scope of one or two
\* hosts, at both ends of the duration and concurrency limits.
MCRequests ==
    LET Scopes == SUBSET Hosts \ {{}}
    IN  {Request("guided", hs, {"packages", "host_scripts"}, {}, 15, 2, 1) : hs \in Scopes}
          \cup {Request("guided", hs, {"packages"}, {}, 60, 3, 2) : hs \in Scopes}
          \cup {Request("autonomous_lab", hs, {"services"}, Recipes, 15, 2, 1) : hs \in Scopes}
          \cup {Request("dynamic_sandbox", hs, {"dynamic_scripts"}, {}, 15, 2, c) :
                    hs \in Scopes, c \in 1..2}
          \cup {Request("dynamic_sandbox", hs, {"host_scripts"}, {}, 15, 1, 1) : hs \in Scopes}
          \cup {Request("guided", hs, {"packages"}, {}, 14, 1, 1) : hs \in Scopes}
=============================================================================
