------------------------------ MODULE Authority ------------------------------
(***************************************************************************)
(* The authority lease of src/sysadmin_mcp/authority.py.                   *)
(*                                                                         *)
(* One AuthorityService per backend process holds at most one lease: the   *)
(* right, armed by one signed-in session, to change an exact set of hosts  *)
(* with an exact set of capabilities until a deadline or an action budget  *)
(* runs out.  Everything that mutates a host asks this component first.    *)
(* The lease lives in memory only; a restarted backend is back in Observe. *)
(*                                                                         *)
(* Every method runs under one lock and contains no await, so one method   *)
(* is one action.  Time and the audit sink are the environment: `overdue'  *)
(* says that the clock has passed expires_at, and an append to the audit   *)
(* log may fail (the parameter `stored').                                  *)
(***************************************************************************)
EXTENDS Integers, FiniteSets

CONSTANTS
    Sessions,        \* signed-in administrator sessions
    Hosts,           \* names of virtual machines that can be enrolled
    None,            \* the owner of no lease
    Requests,        \* the arm requests an operator may submit
    MaxGenerations   \* bound: how many leases a behaviour may arm

Modes        == {"observe", "guided", "autonomous_lab", "dynamic_sandbox"}
Statuses     == {"inactive", "active", "paused"}
Capabilities == {"backups", "managed_files", "packages", "services",
                 "dynamic_scripts", "host_scripts"}
Recipes      == {"nginx_install_configure@1"}
\* "lab" stands for the environments development and disposable_lab.
Environments == {"absent", "lab", "production"}
LabOnlyModes == {"autonomous_lab", "dynamic_sandbox"}

ArmRequest == [mode : Modes, hosts : SUBSET Hosts, caps : SUBSET Capabilities,
               recipes : SUBSET Recipes, duration : Nat, budget : Nat,
               concurrency : Nat]

ASSUME RequestsTyped      == Requests \subseteq ArmRequest
ASSUME GenerationsBounded == MaxGenerations \in Nat
ASSUME NoneIsNoSession    == None \notin Sessions
ASSUME HostsFinite        == IsFiniteSet(Hosts)

VARIABLES
    lease,       \* AuthorityState: the current lease, or Observe
    overdue,     \* TRUE when the clock has reached lease.expires_at
    generation,  \* how many generation ids were ever drawn (uuid4: never reused)
    env,         \* the host table the service was last given
    unrecorded   \* events of the current lease whose audit record was lost

authorityVars == <<lease, overdue, generation, env, unrecorded>>

Observe == [gen |-> 0, mode |-> "observe", status |-> "inactive", owner |-> None,
            hosts |-> {}, caps |-> {}, recipes |-> {}, budget |-> 0, used |-> 0,
            concurrency |-> 0]

Leases == [gen : Nat, mode : Modes, status : Statuses,
           owner : Sessions \cup {None}, hosts : SUBSET Hosts,
           caps : SUBSET Capabilities, recipes : SUBSET Recipes,
           budget : Nat, used : Nat, concurrency : Nat]

-----------------------------------------------------------------------------
(* Tests the methods make on the lease *)

AllLab(hosts) == \A h \in hosts : env[h] = "lab"

\* _validate_arm: what an operator may ask for.
ValidArm(r) ==
    /\ r.mode # "observe"
    /\ Cardinality(r.hosts) \in 1..30
    /\ \A h \in r.hosts : env[h] # "absent"
    /\ r.mode \in LabOnlyModes => AllLab(r.hosts)
    /\ r.caps # {}
    /\ "host_scripts" \in r.caps => AllLab(r.hosts)
    /\ r.mode = "dynamic_sandbox" => r.caps = {"dynamic_scripts"}
    /\ "dynamic_scripts" \in r.caps => r.mode = "dynamic_sandbox"
    /\ r.recipes # {} => r.mode = "autonomous_lab"
    /\ r.duration \in 15..60
    /\ r.budget \in 1..50
    /\ r.concurrency \in 1..3 /\ r.concurrency <= Cardinality(r.hosts)

\* The common opening of authorize, authorize_plan and consume.
ActiveFor(s) == ~overdue /\ lease.owner = s /\ lease.status = "active"

InScope(h, c) == h \in lease.hosts /\ c \in lease.caps

\* authorize finds a host of an unattended mode outside the lab: defensive, as
\* replace_hosts drops the lease when such a host changes.
Ineligible(h) == lease.mode \in LabOnlyModes /\ env[h] # "lab"

\* authorize returns without raising.
Authorized(s, h, c) == ActiveFor(s) /\ InScope(h, c) /\ ~Ineligible(h)

\* The lease a call of authorize leaves behind, whether it returns or raises.
AuthorizeResets(s, h, c) ==
    overdue \/ (ActiveFor(s) /\ InScope(h, c) /\ Ineligible(h))

CanSpend(n) == n >= 1 /\ lease.used + n <= lease.budget

-----------------------------------------------------------------------------
(* Effects *)

ToObserve ==
    /\ lease' = Observe
    /\ overdue' = FALSE
    /\ unrecorded' = {}

SameLease == UNCHANGED <<lease, overdue, unrecorded>>

Spend(n) ==
    /\ lease' = [lease EXCEPT !.used = @ + n]
    /\ UNCHANGED <<overdue, unrecorded>>

\* _record for the current lease; an append may fail after the change was made.
Note(event, stored) ==
    unrecorded' = IF stored THEN unrecorded \ {event} ELSE unrecorded \cup {event}

-----------------------------------------------------------------------------
(* Operations *)

AuthorityInit ==
    /\ lease = Observe
    /\ overdue = FALSE
    /\ generation = 0
    /\ env \in [Hosts -> Environments]
    /\ unrecorded = {}

Install(s, r) ==
    /\ lease' = [gen |-> generation + 1, mode |-> r.mode, status |-> "active",
                 owner |-> s, hosts |-> r.hosts, caps |-> r.caps,
                 recipes |-> r.recipes, budget |-> r.budget, used |-> 0,
                 concurrency |-> r.concurrency]
    /\ overdue' = FALSE

\* Faulty variant of Arm: the lease is kept when its record cannot be stored.
ArmUnrecorded(s, r, stored) ==
    /\ ValidArm(r)
    /\ lease.mode = "observe"
    /\ generation < MaxGenerations
    /\ generation' = generation + 1
    /\ Install(s, r)
    /\ unrecorded' = IF stored THEN {} ELSE {"armed"}
    /\ UNCHANGED env

\* arm refuses unless the mode is Observe, and does not look at the clock
\* first.  If the audit log cannot hold the event the lease is withdrawn.
Arm(s, r, stored) ==
    /\ ValidArm(r)
    /\ lease.mode = "observe"
    /\ generation < MaxGenerations
    /\ generation' = generation + 1
    /\ IF stored THEN Install(s, r) /\ unrecorded' = {} ELSE ToObserve
    /\ UNCHANGED env

\* pause has no expiry check: a lease past its deadline can still be paused.
Pause(s, stored) ==
    /\ lease.owner = s /\ lease.status = "active"
    /\ lease' = [lease EXCEPT !.status = "paused"]
    /\ Note("paused", stored)
    /\ UNCHANGED <<overdue, generation, env>>

\* Faulty variant of Resume: the deadline is not looked at.
ResumeAnytime(s, stored) ==
    /\ lease.owner = s /\ lease.status = "paused"
    /\ lease' = [lease EXCEPT !.status = "active"]
    /\ Note("resumed", stored)
    /\ UNCHANGED <<overdue, generation, env>>

\* resume changes the status first and records it afterwards; a failing
\* append raises to the caller and leaves the lease active.
Resume(s, stored) ==
    /\ ~overdue /\ lease.owner = s /\ lease.status = "paused"
    /\ lease' = [lease EXCEPT !.status = "active"]
    /\ Note("resumed", stored)
    /\ UNCHANGED <<overdue, generation, env>>

\* stop, by the owner or as an emergency stop by any administrator.
Stop(s, emergency) ==
    /\ lease.mode # "observe"
    /\ emergency \/ lease.owner = s
    /\ ToObserve
    /\ UNCHANGED <<generation, env>>

\* stop_session: the session was signed out or revoked.
StopSession(s) ==
    /\ lease.owner = s
    /\ ToObserve
    /\ UNCHANGED <<generation, env>>

\* Any call that begins with _expire_if_needed after the deadline.
NoticeExpiry ==
    /\ overdue
    /\ ToObserve
    /\ UNCHANGED <<generation, env>>

\* Faulty variant of ReplaceHost: the lease survives a change of its scope.
ReplaceHostKeepsLease(h, e) ==
    /\ env' = [env EXCEPT ![h] = e]
    /\ SameLease
    /\ UNCHANGED generation

\* replace_hosts after one host was enrolled, reclassified or removed: a lease
\* whose scope holds that host is dropped.  An unchanged entry changes nothing.
ReplaceHost(h, e) ==
    /\ env' = [env EXCEPT ![h] = e]
    /\ IF h \in lease.hosts THEN ToObserve ELSE SameLease
    /\ UNCHANGED generation

\* authorize_plan followed by consume, as the change transactions do.
Consume(s, n) ==
    /\ ActiveFor(s)
    /\ CanSpend(n)
    /\ Spend(n)
    /\ UNCHANGED <<generation, env>>

\* The clock reaches expires_at.
Expire ==
    /\ lease.mode # "observe" /\ ~overdue
    /\ overdue' = TRUE
    /\ UNCHANGED <<lease, generation, env, unrecorded>>

\* The process ends and starts again: the lease is gone.
ForgetLease == ToObserve /\ UNCHANGED <<generation, env>>

\* What a signed-in operator asks for at /api/authority.
SessionRequest(s) ==
    \/ \E r \in Requests, stored \in BOOLEAN : Arm(s, r, stored)
    \/ \E stored \in BOOLEAN : Pause(s, stored)
    \/ \E stored \in BOOLEAN : Resume(s, stored)
    \/ \E emergency \in BOOLEAN : Stop(s, emergency)

\* One request to the service; it leaves the clock alone.
AuthorityRequest ==
    \/ \E s \in Sessions : SessionRequest(s)
    \/ \E s \in Sessions : StopSession(s)
    \/ NoticeExpiry
    \/ \E h \in Hosts, e \in Environments : ReplaceHost(h, e)
    \/ \E s \in Sessions, n \in 1..lease.budget : Consume(s, n)

AuthorityNext == AuthorityRequest \/ Expire \/ ForgetLease

AuthoritySpec == AuthorityInit /\ [][AuthorityNext]_authorityVars

-----------------------------------------------------------------------------
(* Properties *)

\* Types, and the shape of a lease: no lease is the Observe record and only
\* a lease can be overdue.
AuthorityTypeOK ==
    /\ lease \in Leases
    /\ overdue \in BOOLEAN
    /\ generation \in Nat
    /\ env \in [Hosts -> Environments]
    /\ unrecorded \subseteq {"armed", "paused", "resumed"}
    /\ lease.mode = "observe" => lease = Observe /\ ~overdue
    /\ lease.mode # "observe" => lease.gen \in 1..generation /\ lease.owner # None

\* While a lease of an unattended mode, or one that allows host scripts,
\* exists, every host in its scope is an enrolled lab machine, however hosts
\* are reclassified or removed meanwhile (replace_hosts, _validate_arm).
ScopeStaysInLab ==
    (lease.mode \in LabOnlyModes \/ "host_scripts" \in lease.caps)
        => AllLab(lease.hosts)

\* All the actions taken under a lease fit the budget it was armed with.
BudgetHolds == lease.used <= lease.budget

\* A lease is fixed once armed: no operation widens or narrows its scope, gives
\* it to another session, refunds actions, or replaces it by another lease
\* without passing through Observe.
GrantIsFixed ==
    [][lease.mode # "observe" =>
         \/ lease' = Observe
         \/ /\ lease'.used >= lease.used
            /\ lease' = [lease EXCEPT !.used = lease'.used,
                                      !.status = lease'.status]]_authorityVars

\* After the deadline a lease is worth nothing: no action is paid for with it
\* and a paused lease does not become active again, although pause itself does
\* not look at the clock.
NothingAfterExpiry ==
    [][overdue =>
         \/ lease' = Observe
         \/ lease'.used = lease.used
            /\ (lease'.status = "active" => lease.status = "active")]_authorityVars

\* No lease exists whose arming the audit log does not hold: a failing append
\* withdraws the lease that was just installed.
ArmIsOnRecord == "armed" \notin unrecorded

\* The lease in every state: it is well formed, within the lab and within its budget
\* (arm, replace_hosts, consume).
LeaseHolds == AuthorityTypeOK /\ ScopeStaysInLab /\ BudgetHolds

\* The lease over time: what was granted is neither changed nor outlived.
GrantHolds == GrantIsFixed /\ NothingAfterExpiry
=============================================================================
