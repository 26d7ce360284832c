------------------------------- MODULE Changes --------------------------------
(***************************************************************************)
(* Change transactions: changes.py with the snapshots of recovery.py, the  *)
(* routes of web.py that guard them, and the sign-in sessions of auth.py   *)
(* that own them, on top of the lease of Authority.                        *)
(*                                                                         *)
(* A transaction is a reviewed plan of typed actions that is carried out   *)
(* in stages; every stage is simulated, nothing is sent to a machine.      *)
(* Transactions, snapshots and host locks are rows of one SQLite file.     *)
(*                                                                         *)
(* Every handler is synchronous, so no other request comes between its     *)
(* commits.  But it is not one transaction of the database: it makes a     *)
(* row of commits, and may stop after any of them, because an append to    *)
(* the audit log fails (the exception ends the handler) or because the     *)
(* process is killed.  The parameter `n' is how many commits were made.  A *)
(* kill is a stop followed by Restart, except where the handler would have *)
(* released host locks, which only a kill leaves behind.                   *)
(***************************************************************************)
EXTENDS Authority

CONSTANTS
    Txns,           \* transaction ids (uuid4); each is created at most once
    Actions,        \* the typed actions a plan can hold
    MaxPlan,        \* actions in one plan (50 in the code)
    MaxSnapshots,   \* rows of the recovery store (1000 in the code)
    SessionLife,    \* periods a sign-in lasts at most (8 hours)
    SnapshotLife,   \* periods a snapshot is kept (24 hours)
    MaxPeriod       \* bound: the last period of a behaviour

Action == [index : Nat, host : Hosts, cap : Capabilities, material : BOOLEAN]

ASSUME TxnsFinite      == IsFiniteSet(Txns)
ASSUME ActionsTyped    == Actions \subseteq Action /\ IsFiniteSet(Actions)
ASSUME BoundsTyped     == MaxPlan \in Nat /\ MaxSnapshots \in Nat /\ MaxPeriod \in Nat
ASSUME LivesTyped      == SessionLife \in Nat /\ SnapshotLife \in Nat
ASSUME SessionsShorter == SessionLife <= SnapshotLife
ASSUME NoneIsNoTxn     == None \notin Txns

VARIABLES
    period,     \* the clock, in periods longer than any lease
    born,       \* the period a session signed in, 0 before that
    gone,       \* sessions that were signed out, revoked or idle too long
    txState,    \* column state
    txOwner,    \* column session_id
    plan,       \* column actions
    approval,   \* approval_hash and approval_expires_at
    evidence,   \* column evidence: the stages on record
    snapAt,     \* when the snapshots of a transaction were taken, 0 if none
    restored,   \* transactions whose snapshots have restored_at
    lockOf,     \* table change_host_locks
    runs,       \* history: how often the execution of a transaction began
    paidUnder,  \* history: the lease that paid for it
    confirmed   \* history: transactions activated with a repeated password

sessionVars == <<period, born, gone>>
rowVars     == <<txState, txOwner, plan, approval, evidence>>
storeVars   == <<snapAt, restored>>
historyVars == <<runs, paidUnder, confirmed>>
txVars      == <<rowVars, storeVars, lockOf, historyVars>>
changeVars  == <<authorityVars, sessionVars, txVars>>

Unexecuted == {"planned", "previewed", "approved"}
Executing  == {"backed_up", "applying", "validating", "activating", "verifying"}
Closed     == {"accepted", "rolled_back", "cancelled"}
TxStates   == {"absent", "failed"} \cup Unexecuted \cup Executing \cup Closed

Stages == {"backup", "apply", "validate", "activate", "verify", "rollback"}

\* The stages simulate() runs through, with the state each leaves, and the one
\* stage advance() adds.  simulate() has no stage "activate".
SimulatedState == <<"backed_up", "applying", "validating", "verifying">>
SimulatedStage == <<"backup", "apply", "validate", "verify">>

NextState == [backed_up |-> "applying", applying |-> "validating",
              validating |-> "activating", activating |-> "verifying"]
NextStage == [backed_up |-> "apply", applying |-> "validate",
              validating |-> "activate", activating |-> "verify"]

-----------------------------------------------------------------------------
(* Who may act *)

\* authenticate(): the session signed in, was not ended, and is not too old.
Live(s) ==
    /\ born[s] > 0
    /\ s \notin gone
    /\ period < born[s] + SessionLife

\* _owned(): only the session that created a transaction can touch it.
Handles(s, t) == Live(s) /\ txState[t] # "absent" /\ txOwner[t] = s

HostsOf(p)     == {a.host : a \in p}
CapsOf(p)      == {a.cap : a \in p}
Reversible(p)  == {a \in p : a.cap # "backups"}
Material(t)    == \E a \in plan[t] : a.material

\* authorize_plan.
PlanAuthorized(s, p) ==
    /\ ActiveFor(s)
    /\ HostsOf(p) \subseteq lease.hosts /\ CapsOf(p) \subseteq lease.caps
    /\ CanSpend(Cardinality(p))
    /\ lease.mode \in LabOnlyModes => AllLab(HostsOf(p))

\* authorize, called for every action of the plan.
ActionsAuthorized(s, p) == \A a \in p : Authorized(s, a.host, a.cap)

-----------------------------------------------------------------------------
(* recovery.py *)

Kept(t)  == snapAt[t] > 0 /\ period < snapAt[t] + SnapshotLife
Stored   == {t \in Txns : Kept(t)}

\* The rows of the store: a transaction and one of its reversible actions.
RowsOf(ts)  == {row \in ts \X Actions : row[2] \in Reversible(plan[row[1]])}
CountOf(ts) == Cardinality(RowsOf(ts))

\* Faulty variant of CleanedUp: snapshots are deleted one period too early.
CleanedUpEarly == [t \in Txns |-> IF period + 1 < snapAt[t] + SnapshotLife
                                  THEN snapAt[t] ELSE 0]

\* Faulty variant of RoomFor: the rows about to be added are not counted.
RoomForMore(t) == CountOf(Stored) <= MaxSnapshots

\* capture() first deletes what is too old.  It counts the rows it finds and the
\* ones it would add, even those it already has.
CleanedUp    == [t \in Txns |-> IF Kept(t) THEN snapAt[t] ELSE 0]
RoomFor(t)   == CountOf(Stored) + Cardinality(Reversible(plan[t])) <= MaxSnapshots

\* capture(): INSERT OR IGNORE leaves the snapshots of an earlier capture alone.
Captured(t) ==
    [CleanedUp EXCEPT ![t] = IF Kept(t) \/ Reversible(plan[t]) = {} THEN @ ELSE period]

-----------------------------------------------------------------------------
(* Planning *)

\* create(): the handler ends with an audit record that may be lost; the row
\* stays.
Create(s, t, p) ==
    /\ Live(s)
    /\ txState[t] = "absent"
    /\ p # {} /\ Cardinality(p) <= MaxPlan
    /\ PlanAuthorized(s, p)
    /\ txState' = [txState EXCEPT ![t] = "planned"]
    /\ txOwner' = [txOwner EXCEPT ![t] = s]
    /\ plan' = [plan EXCEPT ![t] = p]
    /\ UNCHANGED <<authorityVars, sessionVars, approval, evidence, storeVars,
                   lockOf, historyVars>>

\* revise(): the replacement u is created first; with the second commit the old
\* transaction is cancelled and its approval withdrawn.
Revise(s, t, u, p, n) ==
    /\ Handles(s, t) /\ txState[t] \in Unexecuted
    /\ txState[u] = "absent"
    /\ p # {} /\ Cardinality(p) <= MaxPlan
    /\ PlanAuthorized(s, p)
    /\ txState' = [txState EXCEPT ![u] = "planned",
                                  ![t] = IF n = 2 THEN "cancelled" ELSE @]
    /\ approval' = [approval EXCEPT ![t] = IF n = 2 THEN "none" ELSE @]
    /\ txOwner' = [txOwner EXCEPT ![u] = s]
    /\ plan' = [plan EXCEPT ![u] = p]
    /\ UNCHANGED <<authorityVars, sessionVars, evidence, storeVars, lockOf, historyVars>>

\* skip_host(): a revision without one of several hosts.
SkipHost(s, t, u, h, n) ==
    /\ h \in HostsOf(plan[t])
    /\ Revise(s, t, u, {a \in plan[t] : a.host # h}, n)

\* Faulty variant of CanPreview: a plan can be reviewed again after its backup.
CanPreviewStarted(s, t) ==
    Handles(s, t) /\ txState[t] \in {"planned", "previewed", "approved", "backed_up"}

CanPreview(s, t) == Handles(s, t) /\ txState[t] \in {"planned", "previewed"}

\* preview(): snapshots are captured, then the reviewed effect is stored.
Preview(s, t) ==
    /\ CanPreview(s, t)
    /\ RoomFor(t)
    /\ snapAt' = Captured(t)
    /\ txState' = [txState EXCEPT ![t] = "previewed"]
    /\ approval' = [approval EXCEPT ![t] = "none"]
    /\ UNCHANGED <<authorityVars, sessionVars, txOwner, plan, evidence, restored,
                   lockOf, historyVars>>

\* approve(), after the password was repeated; a diff that was cut off for review
\* cannot be approved.
Approve(s, t) ==
    /\ Handles(s, t) /\ txState[t] = "previewed"
    /\ txState' = [txState EXCEPT ![t] = "approved"]
    /\ approval' = [approval EXCEPT ![t] = "valid"]
    /\ UNCHANGED <<authorityVars, sessionVars, txOwner, plan, evidence, storeVars,
                   lockOf, historyVars>>

Close(t, state) ==
    /\ txState' = [txState EXCEPT ![t] = state]
    /\ approval' = [approval EXCEPT ![t] = "none"]
    /\ UNCHANGED <<authorityVars, sessionVars, txOwner, plan, snapAt, lockOf, historyVars>>

\* cancel(): no authority is needed to withdraw a plan.
CancelPlan(s, t) ==
    /\ Handles(s, t) /\ txState[t] \in Unexecuted
    /\ Close(t, "cancelled")
    /\ UNCHANGED <<evidence, restored>>

-----------------------------------------------------------------------------
(* Execution *)

\* The checks simulate() makes before it captures snapshots.  The token handed
\* out by approve() is known to the session that owns the transaction.
CanSimulate(s, t) ==
    /\ Handles(s, t)
    /\ txState[t] = "approved" /\ approval[t] = "valid"
    /\ PlanAuthorized(s, plan[t])

\* preview() or simulate() ends at the capture: there is no room, the audit log
\* fails, or a planner refuses.
CaptureOnly(s, t) ==
    /\ CanPreview(s, t) \/ CanSimulate(s, t)
    /\ snapAt' = IF RoomFor(t) THEN Captured(t) ELSE CleanedUp
    /\ UNCHANGED <<authorityVars, sessionVars, rowVars, restored, lockOf, historyVars>>

\* Faulty variant of Unlocked: a transaction is let through by its own old locks.
UnlockedForOwner(t) == \A h \in HostsOf(plan[t]) : lockOf[h] \in {None, t}

Unlocked(t) == \A h \in HostsOf(plan[t]) : lockOf[h] = None

\* simulate() finds a host locked: the actions were paid for already.
SimulateLocked(s, t) ==
    /\ CanSimulate(s, t) /\ RoomFor(t)
    /\ ~Unlocked(t)
    /\ snapAt' = Captured(t)
    /\ Spend(Cardinality(plan[t]))
    /\ UNCHANGED <<generation, env, sessionVars, rowVars, restored, lockOf, historyVars>>

\* The stages that are carried out: /start stops after the backup, and a failing
\* host (an argument no route passes) opens the circuit in stage "apply".
LastStage(whole, open) == IF ~whole THEN 1 ELSE IF open THEN 2 ELSE 4

\* The first n stages are on record.
Staged(t, open, n) ==
    IF n = 0 THEN UNCHANGED <<rowVars, runs, paidUnder>>
    ELSE /\ txState' = [txState EXCEPT ![t] =
                IF open /\ n = 2 THEN "failed" ELSE SimulatedState[n]]
         /\ evidence' = [evidence EXCEPT ![t] = {SimulatedStage[i] : i \in 1..n}]
         /\ approval' = [approval EXCEPT ![t] = "none"]
         /\ runs' = [runs EXCEPT ![t] = @ + 1]
         /\ paidUnder' = [paidUnder EXCEPT ![t] = lease.gen]
         /\ UNCHANGED <<txOwner, plan>>

\* What the routes demand before simulate() and how it goes on: `whole' is the
\* route /simulate, which asks for the password of a material plan; /start does
\* not.
Simulating(s, t, whole, password, open, n) ==
    /\ CanSimulate(s, t) /\ RoomFor(t)
    /\ whole /\ Material(t) => password
    /\ Unlocked(t)
    /\ n <= LastStage(whole, open)
    /\ snapAt' = Captured(t)
    /\ Staged(t, open, n)
    /\ confirmed' = IF whole /\ password THEN confirmed \cup {t} ELSE confirmed

\* Faulty variant of Simulate: the budget is checked but not spent.
SimulateUnpaid(s, t, whole, password, open, n) ==
    /\ n >= 1
    /\ Simulating(s, t, whole, password, open, n)
    /\ SameLease
    /\ UNCHANGED <<generation, env, sessionVars, restored, lockOf>>

\* simulate() to its last stage, or up to a stage whose audit record is lost;
\* the host locks are taken and released within it.
Simulate(s, t, whole, password, open, n) ==
    /\ n >= 1
    /\ Simulating(s, t, whole, password, open, n)
    /\ Spend(Cardinality(plan[t]))
    /\ UNCHANGED <<generation, env, sessionVars, restored, lockOf>>

Locking(t) == lockOf' = [h \in Hosts |-> IF h \in HostsOf(plan[t]) THEN t ELSE lockOf[h]]

\* The process is killed after n stages: the locks stay, the lease is lost.
SimulateKilled(s, t, whole, password, open, n) ==
    /\ Simulating(s, t, whole, password, open, n)
    /\ Locking(t)
    /\ ForgetLease
    /\ UNCHANGED <<sessionVars, restored>>

\* Faulty variant of Advancing: the password of a material plan is not asked for.
AdvancingUnconfirmed(s, t, password) ==
    /\ Handles(s, t) /\ txState[t] \in DOMAIN NextState
    /\ ActionsAuthorized(s, plan[t])
    /\ Unlocked(t)

\* advance(): one more stage; nothing is paid for.  The route asks for the
\* password of a material plan before it is activated.
Advancing(s, t, password) ==
    /\ Handles(s, t) /\ txState[t] \in DOMAIN NextState
    /\ txState[t] = "validating" /\ Material(t) => password
    /\ ActionsAuthorized(s, plan[t])
    /\ Unlocked(t)

AdvanceRow(t, password) ==
    /\ txState' = [txState EXCEPT ![t] = NextState[@]]
    /\ evidence' = [evidence EXCEPT ![t] = @ \cup {NextStage[txState[t]]}]
    /\ confirmed' = IF txState[t] = "validating" /\ password
                    THEN confirmed \cup {t} ELSE confirmed
    /\ UNCHANGED <<txOwner, plan, approval, runs, paidUnder>>

Advance(s, t, password) ==
    /\ Advancing(s, t, password)
    /\ AdvanceRow(t, password)
    /\ UNCHANGED <<authorityVars, sessionVars, storeVars, lockOf>>

AdvanceKilled(s, t, password, n) ==
    /\ Advancing(s, t, password)
    /\ IF n = 0 THEN UNCHANGED <<rowVars, historyVars>> ELSE AdvanceRow(t, password)
    /\ Locking(t)
    /\ ForgetLease
    /\ UNCHANGED <<sessionVars, storeVars>>

\* accept(): the operator takes the outcome; no authority is needed.
Accept(s, t) ==
    /\ Handles(s, t) /\ txState[t] = "verifying"
    /\ Close(t, "accepted")
    /\ UNCHANGED <<evidence, restored>>

\* Faulty variant of Rollback: an accepted outcome can still be rolled back.
RollbackAccepted(s, t, n) ==
    /\ Handles(s, t)
    /\ txState[t] \in {"approved", "failed", "accepted"} \cup Executing
    /\ ActionsAuthorized(s, plan[t])
    /\ snapAt[t] = 0 \/ Kept(t)
    /\ restored' = IF snapAt[t] = 0 THEN restored ELSE restored \cup {t}
    /\ IF n = 2
       THEN /\ Close(t, "rolled_back")
            /\ evidence' = [evidence EXCEPT ![t] = @ \cup {"rollback"}]
       ELSE UNCHANGED <<authorityVars, sessionVars, rowVars, snapAt, lockOf, historyVars>>

\* rollback(): the snapshots are marked restored, then the row is closed.
\* restore() is content with no snapshots at all, but not with an old one.
Rollback(s, t, n) ==
    /\ Handles(s, t)
    /\ txState[t] \in {"approved", "failed"} \cup Executing
    /\ ActionsAuthorized(s, plan[t])
    /\ snapAt[t] = 0 \/ Kept(t)
    /\ restored' = IF snapAt[t] = 0 THEN restored ELSE restored \cup {t}
    /\ IF n = 2
       THEN /\ Close(t, "rolled_back")
            /\ evidence' = [evidence EXCEPT ![t] = @ \cup {"rollback"}]
       ELSE UNCHANGED <<authorityVars, sessionVars, rowVars, snapAt, lockOf, historyVars>>

-----------------------------------------------------------------------------
(* Sessions, the lease and the clock *)

SignIn(s) ==
    /\ born[s] = 0
    /\ born' = [born EXCEPT ![s] = period]
    /\ UNCHANGED <<authorityVars, period, gone, txVars>>

\* logout and revoke_session, with the handlers that also stop the session's lease.
SignOut(s) ==
    /\ Live(s)
    /\ gone' = gone \cup {s}
    /\ IF lease.owner = s THEN ToObserve ELSE SameLease
    /\ UNCHANGED <<generation, env, period, born, txVars>>

\* Thirty minutes without a request; the lease is not told.
IdleOut(s) ==
    /\ Live(s)
    /\ gone' = gone \cup {s}
    /\ UNCHANGED <<authorityVars, period, born, txVars>>

\* The requests of Authority that a live session makes, and those nobody asked for.
OtherRequest ==
    /\ \/ \E s \in Sessions : Live(s) /\ SessionRequest(s)
       \/ NoticeExpiry
       \/ \E h \in Hosts, e \in Environments : ReplaceHost(h, e)
    /\ UNCHANGED <<sessionVars, txVars>>

LeaseExpires == Expire /\ UNCHANGED <<sessionVars, txVars>>

\* Five minutes after approve().
ApprovalLapses(t) ==
    /\ approval[t] = "valid"
    /\ approval' = [approval EXCEPT ![t] = "lapsed"]
    /\ UNCHANGED <<authorityVars, sessionVars, txState, txOwner, plan, evidence,
                   storeVars, lockOf, historyVars>>

\* Sixty seconds after a transaction took its locks; the next acquire deletes them.
LocksLapse(t) ==
    /\ \E h \in Hosts : lockOf[h] = t
    /\ lockOf' = [h \in Hosts |-> IF lockOf[h] = t THEN None ELSE lockOf[h]]
    /\ UNCHANGED <<authorityVars, sessionVars, rowVars, storeVars, historyVars>>

\* A long time passes: no lease, approval or lock outlasts it.
Tick ==
    /\ period < MaxPeriod
    /\ period' = period + 1
    /\ overdue' = (lease.mode # "observe")
    /\ approval' = [t \in Txns |-> IF approval[t] = "valid" THEN "lapsed" ELSE approval[t]]
    /\ lockOf' = [h \in Hosts |-> None]
    /\ UNCHANGED <<lease, generation, env, unrecorded, born, gone, txState, txOwner,
                   plan, evidence, storeVars, historyVars>>

\* The process ends between two requests and starts again.
Restart == ForgetLease /\ UNCHANGED <<sessionVars, txVars>>

ChangesInit ==
    /\ AuthorityInit
    /\ period = 1 /\ born = [s \in Sessions |-> 0] /\ gone = {}
    /\ txState = [t \in Txns |-> "absent"]
    /\ txOwner = [t \in Txns |-> None]
    /\ plan = [t \in Txns |-> {}]
    /\ approval = [t \in Txns |-> "none"]
    /\ evidence = [t \in Txns |-> {}]
    /\ snapAt = [t \in Txns |-> 0]
    /\ lockOf = [h \in Hosts |-> None]
    /\ restored = {} /\ confirmed = {}
    /\ runs = [t \in Txns |-> 0]
    /\ paidUnder = [t \in Txns |-> 0]

Planning(s, t) ==
    \/ \E p \in SUBSET Actions : Create(s, t, p)
    \/ \E u \in Txns, p \in SUBSET Actions, n \in 1..2 : Revise(s, t, u, p, n)
    \/ \E u \in Txns, h \in Hosts, n \in 1..2 : SkipHost(s, t, u, h, n)
    \/ Preview(s, t) \/ Approve(s, t) \/ CancelPlan(s, t)

Carrying(s, t) ==
    \/ CaptureOnly(s, t) \/ SimulateLocked(s, t)
    \/ \E whole, password, open \in BOOLEAN, n \in 0..4 :
          \/ Simulate(s, t, whole, password, open, n)
          \/ SimulateKilled(s, t, whole, password, open, n)
    \/ \E password \in BOOLEAN : Advance(s, t, password)
    \/ \E password \in BOOLEAN, n \in 0..1 : AdvanceKilled(s, t, password, n)
    \/ Accept(s, t)
    \/ \E n \in 1..2 : Rollback(s, t, n)

ChangesNext ==
    \/ \E s \in Sessions, t \in Txns : Planning(s, t) \/ Carrying(s, t)
    \/ \E s \in Sessions : SignIn(s) \/ SignOut(s) \/ IdleOut(s)
    \/ \E t \in Txns : ApprovalLapses(t) \/ LocksLapse(t)
    \/ OtherRequest \/ LeaseExpires \/ Tick \/ Restart

ChangesSpec == ChangesInit /\ [][ChangesNext]_changeVars

-----------------------------------------------------------------------------
(* Properties *)

RowTypeOK ==
    /\ period \in Nat \ {0}
    /\ born \in [Sessions -> Nat]
    /\ gone \subseteq Sessions
    /\ txState \in [Txns -> TxStates]
    /\ txOwner \in [Txns -> Sessions \cup {None}]
    /\ plan \in [Txns -> SUBSET Actions]
    /\ approval \in [Txns -> {"none", "valid", "lapsed"}]
    /\ evidence \in [Txns -> SUBSET Stages]
    /\ snapAt \in [Txns -> Nat]
    /\ restored \subseteq Txns
    /\ lockOf \in [Hosts -> Txns \cup {None}]
    /\ runs \in [Txns -> Nat]
    /\ paidUnder \in [Txns -> Nat]
    /\ confirmed \subseteq Txns

ChangesTypeOK == AuthorityTypeOK /\ RowTypeOK

\* From its preview on, as long as the session that owns a transaction can act,
\* the snapshots to roll it back are there and are not too old, whatever other
\* transactions make the store clean up.
SnapshotsAtHand ==
    \A t \in Txns :
        /\ txState[t] \in {"previewed", "approved", "failed"} \cup Executing
        /\ Live(txOwner[t])
        /\ Reversible(plan[t]) # {}
        => Kept(t)

\* A transaction that is reported rolled back had its snapshots restored, although
\* restore() is content when it finds none.
RolledBackIsRestored ==
    \A t \in Txns :
        txState[t] = "rolled_back" /\ Reversible(plan[t]) # {} => t \in restored

\* One approval starts one execution: through failing audit records, kills,
\* denied attempts and retries, a transaction begins to be carried out at most
\* once, and one with no stage on record never began.
ExecutedOnce ==
    \A t \in Txns :
        /\ runs[t] <= 1
        /\ txState[t] \in {"absent"} \cup Unexecuted => runs[t] = 0

Begun         == {t \in Txns : runs[t] > 0 /\ paidUnder[t] = lease.gen}
ActionsOf(ts) == {pair \in ts \X Actions : pair[2] \in plan[pair[1]]}

\* The executions that began under the current lease were paid for in full.
ExecutionsArePaid == lease.mode # "observe" => Cardinality(ActionsOf(Begun)) <= lease.used

\* A plan that interrupts a service is activated only after the password was
\* repeated for it, on whichever route and after whatever interruption.
MaterialIsConfirmed ==
    \A t \in Txns :
        txState[t] \in {"activating", "verifying", "accepted"} /\ Material(t)
            => t \in confirmed

\* An accepted transaction has every stage on record, in whatever mix of
\* simulate(), kills and advance() it came about.
AcceptedIsComplete ==
    \A t \in Txns :
        txState[t] \in {"verifying", "accepted"} =>
            {"backup", "apply", "validate", "verify"} \subseteq evidence[t]

\* The store never holds more snapshots than its capacity.
StoreHasRoom == CountOf({t \in Txns : snapAt[t] > 0}) <= MaxSnapshots

\* An outcome is final; after an open circuit only a rollback is left.
OutcomeIsFinal ==
    [][\A t \in Txns :
         /\ txState[t] \in Closed => txState'[t] = txState[t]
         /\ txState[t] = "failed" => txState'[t] \in {"failed", "rolled_back"}]_changeVars

\* While the locks of a killed handler last, no transaction, the interrupted one
\* included, enters a stage on their hosts.
LocksKeepOut ==
    [][\A t \in Txns, h \in Hosts :
         lockOf[h] # None /\ h \in HostsOf(plan[t]) /\ txState'[t] \in Executing
             => txState'[t] = txState[t]]_changeVars

\* changes.py: "Approval expired; preview and approve again".  So a transaction
\* whose approval expired can be previewed again by its owner.
ExpiredCanBePreviewed ==
    \A t \in Txns :
        txState[t] = "approved" /\ approval[t] = "lapsed" /\ Live(txOwner[t])
            => CanPreview(txOwner[t], t)

\* What accepts a transaction happened on the way: each stage, and the repeated
\* password if it interrupts a service (simulate, advance, accept).
AcceptedIsEarned == MaterialIsConfirmed /\ AcceptedIsComplete

\* A rollback can be carried out while it is offered, and was when it is reported
\* (capture, cleanup, restore).
RollbackHolds == ChangesTypeOK /\ SnapshotsAtHand /\ RolledBackIsRestored
=============================================================================
