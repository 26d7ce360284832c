----------------------------- MODULE Onboarding -------------------------------
(***************************************************************************)
(* How virtual machines enter and leave the fleet:                         *)
(* src/sysadmin_mcp/onboarding.py and the routes of web.py that call it.   *)
(*                                                                         *)
(* Enrolment has two steps.  discover() asks a machine for its SSH host    *)
(* key and shows the fingerprint; decide() takes the operator's verdict,   *)
(* asks the machine for the key again and, if it is the same, writes three *)
(* stores one after the other: the known-hosts file, the configuration and *)
(* the credential vault.  remove() undoes this in another order and        *)
(* classify() changes the environment of a host.  Each of the writes may   *)
(* fail, and the process may die between two of them.  The routes then     *)
(* bring the host table of the running service up to date.                 *)
(*                                                                         *)
(* One event loop runs everything, so the code between two awaits is one   *)
(* step.  The awaits are the key lookups and the queue for the lock.       *)
(***************************************************************************)
EXTENDS Integers

CONSTANTS
    Hosts,       \* names a host can be enrolled under
    Endpoints,   \* address and port: the marker of a known-hosts line
    Keys,        \* SSH host keys a machine may present
    Requests,    \* enrolment requests an operator may submit
    Absent,      \* no entry, no request, no key
    Nobody,      \* the lock is free
    MaxAttempts  \* bound: how many enrolments a behaviour may begin

Environments == {"lab", "production"}
Attempts     == 1..MaxAttempts
Entry        == [endpoint : Endpoints, env : Environments]
Request      == [name : Hosts, endpoint : Endpoints, env : Environments, password : BOOLEAN]

ASSUME RequestsTyped   == Requests \subseteq Request
ASSUME AttemptsBounded == MaxAttempts \in Nat \ {0}
ASSUME AbsentIsNothing == Absent \notin Entry \cup Keys \cup Requests
ASSUME NobodyIsNoTry   == Nobody \notin Attempts

VARIABLES
    presented,  \* the host key each endpoint presents now
    attempt,    \* the enrolments: the request, how far it got, the key offered
    lock,       \* self._lock: the decision that waits for its second lookup
    pins,       \* known-hosts lines: endpoint and key
    disk,       \* the configuration file
    vault,      \* names the credential vault holds a password for
    served,     \* service.hosts: what executor, authority, remediation and backups use
    planned,    \* the hosts of the planners of changes
    approved,   \* observer: keys an operator was shown and said yes to
    torn        \* observer: names whose stores a failing handler left halfway

stores == <<pins, disk, vault, served, planned, torn>>
vars   == <<presented, attempt, lock, pins, disk, vault, served, planned, approved, torn>>

Stages == {"none", "asking", "offered", "overdue", "queued", "checking", "closed"}

Blank(stage) == [req |-> Absent, stage |-> stage, key |-> Absent]
Close(t) == [attempt EXCEPT ![t] = Blank("closed")]
PinsOf(ep) == {p \in pins : p[1] = ep}

Init ==
    /\ presented \in [Endpoints -> Keys]
    /\ attempt = [t \in Attempts |-> Blank("none")]
    /\ lock = Nobody
    /\ pins = {} /\ vault = {} /\ approved = {} /\ torn = {}
    /\ disk = [n \in Hosts |-> Absent]
    /\ served = disk /\ planned = disk

-----------------------------------------------------------------------------
(* Discovery *)

\* discover: the name must be free now; the answer of the machine is awaited.
Discover(t, r) ==
    /\ attempt[t].stage = "none"
    /\ \A u \in Attempts : u < t => attempt[u].stage # "none"
    /\ disk[r.name] = Absent
    /\ attempt' = [attempt EXCEPT ![t].req = r, ![t].stage = "asking"]
    /\ UNCHANGED <<presented, lock, stores, approved>>

\* The machine cannot be reached within the timeout, or presents no key.
DiscoverFails(t) ==
    /\ attempt[t].stage = "asking"
    /\ attempt' = Close(t)
    /\ UNCHANGED <<presented, lock, stores, approved>>

\* The key is kept as pending under a fresh token; what is overdue is discarded.
Offer(t) ==
    /\ attempt[t].stage = "asking"
    /\ attempt' = [u \in Attempts |->
           CASE u = t -> [attempt[u] EXCEPT !.stage = "offered",
                                            !.key = presented[attempt[u].req.endpoint]]
             [] attempt[u].stage = "overdue" -> Blank("closed")
             [] OTHER -> attempt[u]]
    /\ UNCHANGED <<presented, lock, stores, approved>>

-----------------------------------------------------------------------------
(* The verdict *)

\* decide takes the token out of the pending table before anything else.
Decide(t, trust) ==
    /\ attempt[t].stage \in {"offered", "overdue"}
    /\ IF trust /\ attempt[t].stage = "offered"
       THEN /\ attempt' = [attempt EXCEPT ![t].stage = "queued"]
            /\ approved' = approved \cup {<<attempt[t].req.endpoint, attempt[t].key>>}
       ELSE /\ attempt' = Close(t)
            /\ UNCHANGED approved
    /\ UNCHANGED <<presented, lock, stores>>

\* The lock is taken and held while the machine is asked a second time.
BeginLookup(t) ==
    /\ attempt[t].stage = "queued"
    /\ lock = Nobody
    /\ lock' = t
    /\ attempt' = [attempt EXCEPT ![t].stage = "checking"]
    /\ UNCHANGED <<presented, stores, approved>>

\* Faulty variant of LookupFails: the lock is not given back.
LookupFailsLocked(t) ==
    /\ attempt[t].stage = "checking"
    /\ attempt' = Close(t)
    /\ UNCHANGED <<presented, lock, stores, approved>>

LookupFails(t) ==
    /\ attempt[t].stage = "checking"
    /\ attempt' = Close(t)
    /\ lock' = Nobody
    /\ UNCHANGED <<presented, stores, approved>>

\* The password is stored if one was given.
Writes(r) == IF r.password THEN 3 ELSE 2

\* Faulty variant of Enrol: the configuration is written before the key is pinned.
EnrolPinsLast(r, key, n) ==
    LET entry == [endpoint |-> r.endpoint, env |-> r.env]
        done  == n = Writes(r)
    IN  /\ disk' = IF n >= 1 THEN [disk EXCEPT ![r.name] = entry] ELSE disk
        /\ pins' = IF n >= 2 THEN pins \cup {<<r.endpoint, key>>} ELSE pins
        /\ vault' = IF n >= 3 THEN vault \cup {r.name} ELSE vault
        /\ served' = IF done THEN [served EXCEPT ![r.name] = entry] ELSE served
        /\ torn' = IF done THEN torn \ {r.name} ELSE torn \cup {r.name}
        /\ UNCHANGED planned

\* The writes of decide, of which the first n happen: the known-hosts line, the
\* entry of the configuration, and the password if one was given.  When all of
\* them do, the route takes the host into the running service.
Enrol(r, key, n) ==
    LET entry == [endpoint |-> r.endpoint, env |-> r.env]
        done  == n = Writes(r)
    IN  /\ pins' = IF n >= 1 THEN pins \cup {<<r.endpoint, key>>} ELSE pins
        /\ disk' = IF n >= 2 THEN [disk EXCEPT ![r.name] = entry] ELSE disk
        /\ vault' = IF n >= 3 THEN vault \cup {r.name} ELSE vault
        /\ served' = IF done THEN [served EXCEPT ![r.name] = entry] ELSE served
        /\ torn' = CASE done -> torn \ {r.name}
                     [] n = 2 /\ ~done -> torn \cup {r.name}
                     [] OTHER -> torn
        /\ UNCHANGED planned

\* Faulty variant of Confirm: the name is not looked up again.
ConfirmAnyName(t, n) ==
    LET r == attempt[t].req
    IN  /\ attempt[t].stage = "checking"
        /\ n <= Writes(r)
        /\ IF presented[r.endpoint] = attempt[t].key
           THEN Enrol(r, attempt[t].key, n)
           ELSE UNCHANGED stores
        /\ attempt' = Close(t)
        /\ lock' = Nobody
        /\ UNCHANGED <<presented, approved>>

\* The second lookup answers: nothing is written if the key has changed or the
\* name has been taken meanwhile.
Confirm(t, n) ==
    LET r == attempt[t].req
    IN  /\ attempt[t].stage = "checking"
        /\ n <= Writes(r)
        /\ IF presented[r.endpoint] = attempt[t].key /\ disk[r.name] = Absent
           THEN Enrol(r, attempt[t].key, n)
           ELSE UNCHANGED stores
        /\ attempt' = Close(t)
        /\ lock' = Nobody
        /\ UNCHANGED <<presented, approved>>

-----------------------------------------------------------------------------
(* Removal and classification *)

\* remove: the entry of the configuration goes first, then every known-hosts
\* line with its marker, then the password; the route drops the host from the
\* running service when all three are gone.
Remove(h, n) ==
    /\ lock = Nobody
    /\ disk[h] # Absent
    /\ disk' = IF n >= 1 THEN [disk EXCEPT ![h] = Absent] ELSE disk
    /\ pins' = IF n >= 2 THEN pins \ PinsOf(disk[h].endpoint) ELSE pins
    /\ vault' = IF n >= 3 THEN vault \ {h} ELSE vault
    /\ served' = IF n >= 3 THEN [served EXCEPT ![h] = Absent] ELSE served
    /\ torn' = CASE n >= 3 -> torn \ {h}
                 [] n \in 1..2 -> torn \cup {h}
                 [] OTHER -> torn
    /\ UNCHANGED <<presented, attempt, lock, planned, approved>>

\* Faulty variant of Classify: the running service keeps the old environment.
ClassifyFileOnly(h, e) ==
    /\ lock = Nobody
    /\ disk[h] # Absent
    /\ disk' = [disk EXCEPT ![h].env = e]
    /\ torn' = torn \ {h}
    /\ UNCHANGED <<presented, attempt, lock, pins, vault, served, planned, approved>>

\* classify; nothing changes when the file cannot be written.  This route alone
\* gives the host table to the planners as well.
Classify(h, e) ==
    /\ lock = Nobody
    /\ disk[h] # Absent
    /\ disk' = [disk EXCEPT ![h].env = e]
    /\ served' = [served EXCEPT ![h] = disk'[h]]
    /\ planned' = served'
    /\ torn' = torn \ {h}
    /\ UNCHANGED <<presented, attempt, lock, pins, vault, approved>>

-----------------------------------------------------------------------------
(* The environment *)

\* The process ends and starts again: pending keys are forgotten and the file
\* is loaded.  After a handler that stopped halfway this is a crash in it.
Restart ==
    /\ attempt' = [t \in Attempts |->
           IF attempt[t].stage = "none" THEN attempt[t] ELSE Blank("closed")]
    /\ lock' = Nobody
    /\ served' = disk /\ planned' = disk
    /\ UNCHANGED <<presented, pins, disk, vault, approved, torn>>

\* A pending key reaches expires_at.
Lapse(t) ==
    /\ attempt[t].stage = "offered"
    /\ attempt' = [attempt EXCEPT ![t].stage = "overdue"]
    /\ UNCHANGED <<presented, lock, stores, approved>>

\* A machine is reinstalled, or another one answers at its address.
NewKey(ep, k) ==
    /\ presented' = [presented EXCEPT ![ep] = k]
    /\ UNCHANGED <<attempt, lock, stores, approved>>

Enrolment(t) ==
    \/ \E r \in Requests : Discover(t, r)
    \/ DiscoverFails(t)
    \/ Offer(t)
    \/ \E trust \in BOOLEAN : Decide(t, trust)
    \/ BeginLookup(t)
    \/ LookupFails(t)
    \/ \E n \in 0..3 : Confirm(t, n)

Next ==
    \/ \E t \in Attempts : Enrolment(t) \/ Lapse(t)
    \/ \E h \in Hosts, n \in 0..3 : Remove(h, n)
    \/ \E h \in Hosts, e \in Environments : Classify(h, e)
    \/ \E ep \in Endpoints, k \in Keys : NewKey(ep, k)
    \/ Restart

Spec == Init /\ [][Next]_vars

\* The event loop hands the lock on, and a lookup answers or times out after
\* ten seconds.  Operators and machines owe nothing.
Answered(t) == LookupFails(t) \/ \E n \in 0..3 : Confirm(t, n)

FairSpec ==
    Spec /\ \A t \in Attempts : WF_vars(BeginLookup(t)) /\ WF_vars(Answered(t))

-----------------------------------------------------------------------------
(* Properties *)

\* Types, and who has the lock: the decision that awaits its second lookup.
TypeOK ==
    /\ presented \in [Endpoints -> Keys]
    /\ attempt \in [Attempts -> [req : Requests \cup {Absent}, stage : Stages,
                                  key : Keys \cup {Absent}]]
    /\ \A t \in Attempts :
          /\ attempt[t].stage \notin {"none", "closed"} => attempt[t].req \in Requests
          /\ attempt[t].stage \notin {"none", "closed", "asking"} => attempt[t].key \in Keys
    /\ lock \in Attempts \cup {Nobody}
    /\ pins \subseteq Endpoints \X Keys
    /\ disk \in [Hosts -> Entry \cup {Absent}]
    /\ served \in [Hosts -> Entry \cup {Absent}]
    /\ planned \in [Hosts -> Entry \cup {Absent}]
    /\ vault \subseteq Hosts /\ torn \subseteq Hosts
    /\ approved \subseteq Endpoints \X Keys
    /\ \A t \in Attempts : attempt[t].stage = "checking" <=> lock = t

\* SSH trusts a key only if an operator was shown it for that very endpoint and
\* said yes within its lifetime, even if the machine changes its key between
\* the two lookups (discover, decide).
OnlyApprovedKeys == pins \subseteq approved

\* Between them the handlers keep the file, the running service and the vault
\* together: unless the last handler that wrote a host's stores failed halfway,
\* the service works with exactly the entry on file, so the environment that
\* the authority looks at is the one on record, and no password outlives its
\* host (decide, remove, classify and their routes).
StoresAgree ==
    \A n \in Hosts \ torn :
        /\ served[n] = disk[n]
        /\ n \in vault => disk[n] # Absent

\* No two names are enrolled at one address.
UniqueEndpoints ==
    \A r1, r2 \in Requests : r1.endpoint = r2.endpoint => r1.name = r2.name

\* Wherever a handler stops, a configured host has a pinned key: the pin is
\* written before the entry and dropped after it (decide, remove).
ConfiguredIsPinned ==
    \A n \in Hosts : disk[n] # Absent => PinsOf(disk[n].endpoint) # {}

\* An enrolment never replaces another one: two requests for one name may both
\* pass discover, but what the first one wrote stays until it is removed.
EnrolmentStands ==
    [][\A n \in Hosts :
          disk[n] # Absent /\ disk'[n] # Absent => disk'[n].endpoint = disk[n].endpoint]_vars

\* A verdict is answered: no decision waits for the lock for ever.
DecisionsAreAnswered ==
    \A t \in Attempts : attempt[t].stage = "queued" ~> attempt[t].stage = "closed"

\* The page of the machines says of a removal: "This removes its managed
\* configuration".  So a machine the service no longer knows is none that
\* changes can be planned for.
RemovedIsUnplanned == \A n \in Hosts \ torn : served[n] = Absent => planned[n] = Absent

\* The known-hosts file has a key for every machine that is configured, and none
\* that was not approved (decide, remove).
PinsHold == TypeOK /\ OnlyApprovedKeys /\ ConfiguredIsPinned
=============================================================================
