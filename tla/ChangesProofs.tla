---------------------------- MODULE ChangesProofs ------------------------------
(***************************************************************************)
(* What holds of change transactions for every set of sessions, hosts,     *)
(* actions and transactions, and every retention time that is not shorter  *)
(* than a session.                                                         *)
(***************************************************************************)
EXTENDS Changes, AuthorityProofs, FiniteSetTheorems

\* States in which a transaction relies on its snapshots.
Backed == {"previewed", "approved", "failed"} \cup Executing

\* The owner's session is not too old (it may have been ended otherwise).
Young(s) == period < born[s] + SessionLife

\* The row of a transaction, its snapshots and its history fit together.
RowFits(t) ==
    /\ txState[t] # "absent" =>
          /\ txOwner[t] \in Sessions
          /\ born[txOwner[t]] > 0
          /\ snapAt[t] = 0 \/ snapAt[t] >= born[txOwner[t]]
    /\ txState[t] = "absent" => snapAt[t] = 0
    /\ txState[t] \in Backed /\ Reversible(plan[t]) # {} /\ Young(txOwner[t])
          => snapAt[t] > 0
    /\ txState[t] = "rolled_back" /\ Reversible(plan[t]) # {} => t \in restored

HistoryFits(t) ==
    /\ runs[t] <= 1
    /\ txState[t] \in {"absent"} \cup Unexecuted => runs[t] = 0
    /\ txState[t] \in {"activating", "verifying", "accepted"} /\ Material(t)
          => t \in confirmed

TxInv ==
    /\ AuthorityInv
    /\ RowTypeOK
    /\ \A s \in Sessions : born[s] <= period
    /\ \A t \in Txns : RowFits(t) /\ HistoryFits(t)

-----------------------------------------------------------------------------
(* Steps of the transactions *)

\* Snapshots of a session that is not too old are kept by every clean-up.
LEMMA YoungAreKept ==
    ASSUME TxInv, NEW t \in Txns, txState[t] # "absent", snapAt[t] > 0,
           Young(txOwner[t])
    PROVE  Kept(t)
<1>1. snapAt[t] \in Nat /\ born[txOwner[t]] \in Nat /\ period \in Nat
      /\ snapAt[t] >= born[txOwner[t]]
  BY DEF TxInv, RowTypeOK, RowFits
<1>2. QED
  BY <1>1, LivesTyped, SessionsShorter DEF Young, Kept

\* What a capture leaves of the snapshots of each transaction.
LEMMA CaptureFits ==
    ASSUME TxInv, NEW t \in Txns, txState[t] # "absent", Live(txOwner[t]),
           NEW u \in Txns
    PROVE  /\ Captured(t)[u] \in Nat
           /\ Captured(t)[u] \in {0, snapAt[u], period}
           /\ u # t => Captured(t)[u] \in {0, snapAt[u]}
           /\ Kept(u) => Captured(t)[u] = snapAt[u]
           /\ Reversible(plan[t]) # {} => Captured(t)[t] > 0
<1>1. snapAt \in [Txns -> Nat] /\ period \in Nat \ {0}
  BY DEF TxInv, RowTypeOK
<1>2. CleanedUp \in [Txns -> Nat] /\ CleanedUp[u] = IF Kept(u) THEN snapAt[u] ELSE 0
  BY <1>1 DEF CleanedUp
<1>3. Kept(t) => CleanedUp[t] > 0
  BY <1>1 DEF CleanedUp, Kept
<1>4. QED
  BY <1>1, <1>2, <1>3 DEF Captured

\* A transaction that a step leaves alone, while time passes or the store is
\* cleaned up for another one.
LEMMA FrameFits ==
    ASSUME TxInv, NEW u \in Txns,
           txState'[u] = txState[u], txOwner'[u] = txOwner[u], plan'[u] = plan[u],
           runs'[u] = runs[u], period' \in Nat, period' >= period,
           txState[u] # "absent" => born'[txOwner[u]] = born[txOwner[u]],
           snapAt'[u] \in {0, snapAt[u]}, Kept(u) => snapAt'[u] = snapAt[u],
           restored \subseteq restored', confirmed \subseteq confirmed'
    PROVE  (RowFits(u) /\ HistoryFits(u))'
<1>0. RowFits(u) /\ HistoryFits(u) /\ snapAt[u] \in Nat /\ period \in Nat
  BY DEF TxInv, RowTypeOK
<1>1. HistoryFits(u)'
  BY <1>0 DEF HistoryFits, Material
<1>2. Reversible(plan'[u]) = Reversible(plan[u])
  OBVIOUS
<1>3. txState[u] # "absent" /\ Young(txOwner[u])' => Young(txOwner[u])
  <2> SUFFICES ASSUME txState[u] # "absent", Young(txOwner[u])' PROVE Young(txOwner[u])
    OBVIOUS
  <2>1. born'[txOwner[u]] = born[txOwner[u]] /\ born[txOwner[u]] \in Nat
    BY <1>0 DEF RowFits, TxInv, RowTypeOK
  <2>2. QED BY <1>0, <2>1, LivesTyped DEF Young
<1>4. txState[u] \in Backed /\ Reversible(plan[u]) # {} /\ Young(txOwner[u])'
        => snapAt'[u] > 0
  <2> SUFFICES ASSUME txState[u] \in Backed, Reversible(plan[u]) # {}, Young(txOwner[u])'
               PROVE  snapAt'[u] > 0
    OBVIOUS
  <2>1. txState[u] # "absent" /\ Young(txOwner[u]) /\ snapAt[u] > 0
    BY <1>0, <1>3 DEF Backed, Executing, RowFits
  <2>2. Kept(u)
    BY <2>1, YoungAreKept
  <2>3. QED BY <2>1, <2>2
<1>5. QED
  BY <1>0, <1>1, <1>2, <1>4 DEF RowFits, Young

\* The lease part of an execution step.
LEMMA PlanSpendInv ==
    ASSUME TxInv, NEW s \in Sessions, NEW p, IsFiniteSet(p), PlanAuthorized(s, p),
           Spend(Cardinality(p)), UNCHANGED <<generation, env>>
    PROVE  AuthorityInv'
<1>1. Cardinality(p) \in Nat /\ CanSpend(Cardinality(p))
  BY FS_CardinalityType DEF PlanAuthorized
<1>2. lease.mode # "observe"
  BY NoneIsNoSession
  DEF PlanAuthorized, ActiveFor, TxInv, AuthorityInv, AuthorityTypeOK, Observe
<1>3. QED BY <1>1, <1>2, SpendInv DEF TxInv

\* Every plan on record is finite.
LEMMA PlansFinite ==
    ASSUME TxInv, NEW t \in Txns
    PROVE  IsFiniteSet(plan[t])
  BY ActionsTyped, FS_Subset DEF TxInv, RowTypeOK

\* A step that changes the row of one transaction at most.
LEMMA OneRowStep ==
    ASSUME TxInv, NEW t \in Txns, AuthorityInv', RowTypeOK', UNCHANGED sessionVars,
           restored \subseteq restored', confirmed \subseteq confirmed',
           \A u \in Txns \ {t} :
               /\ txState'[u] = txState[u] /\ txOwner'[u] = txOwner[u]
               /\ plan'[u] = plan[u] /\ runs'[u] = runs[u]
               /\ snapAt'[u] \in {0, snapAt[u]}
               /\ Kept(u) => snapAt'[u] = snapAt[u],
           (RowFits(t) /\ HistoryFits(t))'
    PROVE  TxInv'
<1>1. period' = period /\ born' = born /\ period \in Nat
  BY DEF sessionVars, TxInv, RowTypeOK
<1>2. \A u \in Txns \ {t} : (RowFits(u) /\ HistoryFits(u))'
  BY <1>1, FrameFits
<1>3. \A s \in Sessions : born'[s] <= period'
  BY <1>1 DEF TxInv
<1>4. QED
  BY <1>2, <1>3 DEF TxInv

LEMMA CreateStep ==
    ASSUME TxInv, NEW s \in Sessions, NEW t \in Txns, NEW p \in SUBSET Actions,
           Create(s, t, p)
    PROVE  TxInv'
<1>1. AuthorityInv'
  BY AuthorityStutterInv DEF Create, TxInv
<1>2. RowTypeOK'
  BY DEF Create, TxInv, RowTypeOK, sessionVars, storeVars, historyVars, TxStates, Unexecuted
<1>3. (RowFits(t) /\ HistoryFits(t))'
  BY DEF Create, TxInv, RowTypeOK, RowFits, HistoryFits, Live, sessionVars, storeVars,
         historyVars, Backed, Executing, Unexecuted
<1>4. QED
  BY <1>1, <1>2, <1>3, OneRowStep
  DEF Create, TxInv, RowTypeOK, sessionVars, storeVars, historyVars

\* A revision touches two rows: the replacement is a creation, the old one is
\* at most cancelled.
LEMMA ReviseStep ==
    ASSUME TxInv, NEW s \in Sessions, NEW t \in Txns, NEW u \in Txns,
           NEW p \in SUBSET Actions, NEW n \in 1..2, Revise(s, t, u, p, n)
    PROVE  TxInv'
<1>1. AuthorityInv'
  BY AuthorityStutterInv DEF Revise, TxInv
<1>2. u # t /\ txState[t] # "absent" /\ txState[u] = "absent"
  BY DEF Revise, Unexecuted
<1>3. /\ txState' = [txState EXCEPT ![u] = "planned",
                                    ![t] = IF n = 2 THEN "cancelled" ELSE @]
      /\ txOwner' = [txOwner EXCEPT ![u] = s] /\ plan' = [plan EXCEPT ![u] = p]
      /\ approval' = [approval EXCEPT ![t] = IF n = 2 THEN "none" ELSE @]
      /\ UNCHANGED <<period, born, gone, evidence, snapAt, restored, lockOf, runs,
                     paidUnder, confirmed>>
      /\ txState[t] \in Unexecuted /\ Live(s)
  BY DEF Revise, Handles, sessionVars, storeVars, historyVars
<1>4. RowTypeOK'
  BY <1>3 DEF TxInv, RowTypeOK, TxStates, Unexecuted, Closed
<1>5. (RowFits(u) /\ HistoryFits(u))'
  BY <1>2, <1>3
  DEF TxInv, RowTypeOK, RowFits, HistoryFits, Live, Backed, Executing, Unexecuted
<1>6. (RowFits(t) /\ HistoryFits(t))'
  <2>1. RowFits(t) /\ HistoryFits(t) /\ txState'[t] \in {txState[t], "cancelled"}
        /\ txOwner'[t] = txOwner[t] /\ plan'[t] = plan[t]
    BY <1>2, <1>3 DEF TxInv, RowTypeOK
  <2>2. QED
    BY <1>2, <1>3, <2>1
    DEF RowFits, HistoryFits, Material, Young, Backed, Executing, Unexecuted
<1>7. \A v \in Txns \ {t, u} : (RowFits(v) /\ HistoryFits(v))'
  BY <1>3, FrameFits DEF TxInv, RowTypeOK
<1>8. QED
  BY <1>1, <1>3, <1>4, <1>5, <1>6, <1>7 DEF TxInv

\* Preview stores the snapshots the transaction relies on from then on.
LEMMA PreviewStep ==
    ASSUME TxInv, NEW s \in Sessions, NEW t \in Txns, Preview(s, t)
    PROVE  TxInv'
<1>1. AuthorityInv'
  BY AuthorityStutterInv DEF Preview, TxInv
<1>2. /\ txState[t] \in {"planned", "previewed"} /\ txOwner[t] = s /\ Live(s)
      /\ txState' = [txState EXCEPT ![t] = "previewed"]
      /\ approval' = [approval EXCEPT ![t] = "none"]
      /\ snapAt' = Captured(t)
      /\ UNCHANGED <<period, born, gone, txOwner, plan, evidence, restored, lockOf, runs,
                     paidUnder, confirmed>>
  BY DEF Preview, CanPreview, Handles, sessionVars, historyVars
<1>3. \A u \in Txns : /\ Captured(t)[u] \in Nat
                      /\ Captured(t)[u] \in {0, snapAt[u], period}
                      /\ u # t => Captured(t)[u] \in {0, snapAt[u]}
                      /\ Kept(u) => Captured(t)[u] = snapAt[u]
                      /\ Reversible(plan[t]) # {} => Captured(t)[t] > 0
  BY <1>2, CaptureFits
<1>4. Captured(t) \in [Txns -> Nat]
  BY <1>3 DEF Captured, CleanedUp
<1>5. RowTypeOK'
  BY <1>2, <1>4 DEF TxInv, RowTypeOK, TxStates, Unexecuted
<1>6. (RowFits(t) /\ HistoryFits(t))'
  BY <1>2, <1>3
  DEF TxInv, RowTypeOK, RowFits, HistoryFits, Live, Backed, Executing, Unexecuted
<1>7. QED
  BY <1>1, <1>2, <1>3, <1>5, <1>6, OneRowStep DEF TxInv, RowTypeOK, sessionVars

LEMMA ApproveStep ==
    ASSUME TxInv, NEW s \in Sessions, NEW t \in Txns, Approve(s, t)
    PROVE  TxInv'
<1>1. AuthorityInv'
  BY AuthorityStutterInv DEF Approve, TxInv
<1>2. RowTypeOK'
  BY DEF Approve, TxInv, RowTypeOK, sessionVars, storeVars, historyVars, TxStates, Unexecuted
<1>3. (RowFits(t) /\ HistoryFits(t))'
  BY DEF Approve, TxInv, RowTypeOK, RowFits, HistoryFits, Young, sessionVars, storeVars,
         historyVars, Backed, Executing, Unexecuted
<1>4. QED
  BY <1>1, <1>2, <1>3, OneRowStep
  DEF Approve, TxInv, RowTypeOK, sessionVars, storeVars, historyVars

\* Withdrawing a plan and accepting an outcome close the row.
LEMMA CloseStep ==
    ASSUME TxInv, NEW s \in Sessions, NEW t \in Txns, CancelPlan(s, t) \/ Accept(s, t)
    PROVE  TxInv'
<1>1. PICK st \in {"cancelled", "accepted"} :
         /\ txState' = [txState EXCEPT ![t] = st]
         /\ st = "accepted" => txState[t] = "verifying"
  BY DEF CancelPlan, Accept, Close
<1>2. /\ txState[t] # "absent"
      /\ approval' = [approval EXCEPT ![t] = "none"]
      /\ UNCHANGED <<authorityVars, sessionVars, txOwner, plan, evidence, snapAt,
                     restored, lockOf, historyVars>>
  BY DEF CancelPlan, Accept, Close, Handles
<1>3. AuthorityInv'
  BY <1>2, AuthorityStutterInv DEF TxInv
<1>4. RowTypeOK'
  BY <1>1, <1>2 DEF TxInv, RowTypeOK, sessionVars, historyVars, TxStates, Closed
<1>5. (RowFits(t) /\ HistoryFits(t))'
  BY <1>1, <1>2
  DEF TxInv, RowTypeOK, RowFits, HistoryFits, Material, sessionVars, historyVars,
      Backed, Executing, Unexecuted
<1>6. QED
  BY <1>1, <1>2, <1>3, <1>4, <1>5, OneRowStep
  DEF TxInv, RowTypeOK, sessionVars, historyVars

\* An attempt that ends at the capture leaves every row as it was.
LEMMA CaptureOnlyStep ==
    ASSUME TxInv, NEW s \in Sessions, NEW t \in Txns,
           CaptureOnly(s, t) \/ SimulateLocked(s, t)
    PROVE  TxInv'
<1>1. /\ txState[t] # "absent" /\ txOwner[t] = s /\ Live(s)
      /\ snapAt' \in {Captured(t), CleanedUp}
      /\ UNCHANGED <<sessionVars, rowVars, restored, lockOf, historyVars>>
  BY DEF CaptureOnly, SimulateLocked, CanPreview, CanSimulate, Handles
<1>2. AuthorityInv'
  <2>1. CASE CaptureOnly(s, t)
    BY <2>1, AuthorityStutterInv DEF CaptureOnly, TxInv
  <2>2. CASE SimulateLocked(s, t)
    BY <2>2, PlansFinite, PlanSpendInv DEF SimulateLocked, CanSimulate
  <2>3. QED BY <2>1, <2>2
<1>3. snapAt \in [Txns -> Nat] /\ period \in Nat \ {0}
  BY DEF TxInv, RowTypeOK
<1>4. \A u \in Txns : /\ snapAt'[u] \in {0, snapAt[u], period}
                      /\ u # t => snapAt'[u] \in {0, snapAt[u]}
                      /\ Kept(u) => snapAt'[u] = snapAt[u]
  BY <1>1, <1>3, CaptureFits DEF CleanedUp
<1>5. snapAt' \in [Txns -> Nat]
  BY <1>1, <1>3, <1>4 DEF Captured, CleanedUp
<1>6. RowTypeOK'
  BY <1>1, <1>5 DEF TxInv, RowTypeOK, sessionVars, rowVars, historyVars
<1>7. (RowFits(t) /\ HistoryFits(t))'
  <2>1. RowFits(t) /\ HistoryFits(t) /\ born[s] \in Nat /\ born[s] <= period
    BY DEF TxInv, RowTypeOK
  <2>2. txState[t] \in Backed /\ Reversible(plan[t]) # {} /\ Young(txOwner[t])
          => snapAt'[t] > 0
    BY <1>1, <1>3, <1>4, <2>1, YoungAreKept DEF RowFits
  <2>3. QED
    BY <1>1, <1>4, <2>1, <2>2
    DEF RowFits, HistoryFits, Young, Material, sessionVars, rowVars, historyVars
<1>8. QED
  BY <1>1, <1>2, <1>4, <1>6, <1>7, OneRowStep DEF rowVars, historyVars, TxInv, RowTypeOK

\* Both ways an execution can go on: the rows it leaves fit together.
LEMMA SimulatingStep ==
    ASSUME TxInv, NEW s \in Sessions, NEW t \in Txns, NEW whole \in BOOLEAN,
           NEW password \in BOOLEAN, NEW open \in BOOLEAN, NEW n \in 0..4,
           Simulating(s, t, whole, password, open, n),
           AuthorityInv', UNCHANGED <<sessionVars, restored>>,
           lockOf' \in [Hosts -> Txns \cup {None}]
    PROVE  TxInv'
<1>1. /\ txState[t] = "approved" /\ txOwner[t] = s /\ Live(s)
      /\ snapAt' = Captured(t)
      /\ Staged(t, open, n)
      /\ n <= LastStage(whole, open)
      /\ whole /\ Material(t) => password
      /\ confirmed' = IF whole /\ password THEN confirmed \cup {t} ELSE confirmed
  BY DEF Simulating, CanSimulate, Handles
<1>2. \A u \in Txns : /\ Captured(t)[u] \in Nat
                      /\ Captured(t)[u] \in {0, snapAt[u], period}
                      /\ u # t => Captured(t)[u] \in {0, snapAt[u]}
                      /\ Kept(u) => Captured(t)[u] = snapAt[u]
                      /\ Reversible(plan[t]) # {} => Captured(t)[t] > 0
  BY <1>1, CaptureFits
<1>3. Captured(t) \in [Txns -> Nat]
  BY <1>2 DEF Captured, CleanedUp
<1>4. confirmed \subseteq confirmed' /\ confirmed' \subseteq Txns
  BY <1>1 DEF TxInv, RowTypeOK
<1>5. /\ txState' \in [Txns -> TxStates] /\ runs' \in [Txns -> Nat]
      /\ approval' \in [Txns -> {"none", "valid", "lapsed"}]
      /\ evidence' \in [Txns -> SUBSET Stages] /\ paidUnder' \in [Txns -> Nat]
      /\ txOwner' = txOwner /\ plan' = plan
      /\ \A u \in Txns \ {t} : txState'[u] = txState[u] /\ runs'[u] = runs[u]
      /\ runs'[t] \in {runs[t], runs[t] + 1}
      /\ txState'[t] \in {"approved"} \cup Executing \cup {"failed"}
      /\ txState'[t] = "approved" => runs'[t] = runs[t]
      /\ txState'[t] # "activating"
      /\ txState'[t] = "verifying" => n = 4
  <2>1. CASE n = 0
    BY <1>1, <2>1 DEF Staged, rowVars, TxInv, RowTypeOK, Executing
  <2>2. CASE n \in 1..4
    <3>1. /\ SimulatedState[n] \in Executing \ {"activating"}
          /\ SimulatedState[n] = "verifying" => n = 4
          /\ \A i \in 1..n : SimulatedStage[i] \in Stages
      BY <2>2 DEF SimulatedState, SimulatedStage, Executing, Stages
    <3>2. lease.gen \in Nat
      BY DEF TxInv, AuthorityInv, AuthorityTypeOK, Leases
    <3>3. /\ txState' = [txState EXCEPT ![t] =
                  IF open /\ n = 2 THEN "failed" ELSE SimulatedState[n]]
          /\ evidence' = [evidence EXCEPT ![t] = {SimulatedStage[i] : i \in 1..n}]
          /\ approval' = [approval EXCEPT ![t] = "none"]
          /\ runs' = [runs EXCEPT ![t] = @ + 1]
          /\ paidUnder' = [paidUnder EXCEPT ![t] = lease.gen]
          /\ UNCHANGED <<txOwner, plan>>
      BY <1>1, <2>2 DEF Staged
    <3>4. {SimulatedStage[i] : i \in 1..n} \subseteq Stages
      BY <3>1
    <3>5. "approved" \notin Executing /\ "failed" \notin Executing
      BY DEF Executing
    <3>6. txState' \in [Txns -> TxStates] /\ evidence' \in [Txns -> SUBSET Stages]
      BY <3>1, <3>3, <3>4 DEF TxInv, RowTypeOK, TxStates
    <3>7. QED
      BY <3>1, <3>2, <3>3, <3>5, <3>6 DEF TxInv, RowTypeOK
  <2>3. QED BY <2>1, <2>2
<1>6. RowTypeOK'
  BY <1>1, <1>3, <1>4, <1>5 DEF TxInv, RowTypeOK, sessionVars
<1>7. RowFits(t)'
  BY <1>1, <1>2, <1>5
  DEF TxInv, RowTypeOK, RowFits, Live, sessionVars, Backed, Executing
<1>8. HistoryFits(t)'
  <2>1. runs[t] = 0 /\ runs'[t] <= 1
    BY <1>1, <1>5 DEF TxInv, HistoryFits, Unexecuted
  <2>2. txState'[t] = "verifying" /\ Material(t) => t \in confirmed'
    BY <1>1, <1>5 DEF LastStage
  <2>3. QED
    BY <1>5, <2>1, <2>2 DEF HistoryFits, Material, Unexecuted, Executing
<1>9. QED
  BY <1>1, <1>2, <1>4, <1>5, <1>6, <1>7, <1>8, OneRowStep

LEMMA SimulateStep ==
    ASSUME TxInv, NEW s \in Sessions, NEW t \in Txns, NEW whole \in BOOLEAN,
           NEW password \in BOOLEAN, NEW open \in BOOLEAN, NEW n \in 0..4,
           \/ Simulate(s, t, whole, password, open, n)
           \/ SimulateKilled(s, t, whole, password, open, n)
    PROVE  TxInv'
<1>1. CASE Simulate(s, t, whole, password, open, n)
  <2>1. AuthorityInv'
    BY <1>1, PlansFinite, PlanSpendInv DEF Simulate, Simulating, CanSimulate
  <2>2. QED
    BY <1>1, <2>1, SimulatingStep DEF Simulate, TxInv, RowTypeOK
<1>2. CASE SimulateKilled(s, t, whole, password, open, n)
  <2>1. AuthorityInv'
    BY <1>2, ForgetLeaseInv DEF SimulateKilled, TxInv
  <2>2. lockOf' \in [Hosts -> Txns \cup {None}]
    BY <1>2 DEF SimulateKilled, Locking, TxInv, RowTypeOK
  <2>3. QED
    BY <1>2, <2>1, <2>2, SimulatingStep DEF SimulateKilled
<1>3. QED BY <1>1, <1>2

\* One stage further, or killed before that.
LEMMA AdvanceStep ==
    ASSUME TxInv, NEW s \in Sessions, NEW t \in Txns, NEW password \in BOOLEAN,
           NEW n \in 0..1,
           Advance(s, t, password) \/ AdvanceKilled(s, t, password, n)
    PROVE  TxInv'
<1>1. /\ txState[t] \in DOMAIN NextState /\ Advancing(s, t, password)
      /\ AdvanceRow(t, password) \/ UNCHANGED <<rowVars, historyVars>>
      /\ UNCHANGED <<sessionVars, storeVars>>
  BY DEF Advance, AdvanceKilled, Advancing
<1>2. AuthorityInv'
  BY AuthorityStutterInv, ForgetLeaseInv DEF Advance, AdvanceKilled, TxInv
<1>3. lockOf' \in [Hosts -> Txns \cup {None}]
  BY DEF Advance, AdvanceKilled, Locking, TxInv, RowTypeOK
<1>4. DOMAIN NextState = {"backed_up", "applying", "validating", "activating"}
      /\ \A st \in DOMAIN NextState : /\ NextState[st] \in Executing
                                      /\ NextStage[st] \in Stages
      /\ NextState["validating"] = "activating" /\ NextState["activating"] = "verifying"
      /\ NextState["backed_up"] = "applying" /\ NextState["applying"] = "validating"
  BY DEF NextState, NextStage, Executing, Stages
<1>5. /\ txState' \in [Txns -> TxStates] /\ evidence' \in [Txns -> SUBSET Stages]
      /\ confirmed \subseteq confirmed' /\ confirmed' \subseteq Txns
      /\ UNCHANGED <<txOwner, plan, approval, runs, paidUnder>>
      /\ \A u \in Txns \ {t} : txState'[u] = txState[u]
      /\ txState'[t] \in {txState[t], NextState[txState[t]]}
      /\ txState'[t] = "activating" /\ Material(t) => t \in confirmed'
  <2>1. CASE UNCHANGED <<rowVars, historyVars>>
    BY <1>1, <1>4, <2>1 DEF rowVars, historyVars, TxInv, RowTypeOK, HistoryFits
  <2>2. CASE AdvanceRow(t, password)
    <3>1. /\ txState' = [txState EXCEPT ![t] = NextState[txState[t]]]
          /\ evidence' = [evidence EXCEPT ![t] = evidence[t] \cup {NextStage[txState[t]]}]
          /\ confirmed' = IF txState[t] = "validating" /\ password
                          THEN confirmed \cup {t} ELSE confirmed
          /\ UNCHANGED <<txOwner, plan, approval, runs, paidUnder>>
      BY <2>2 DEF AdvanceRow
    <3>2. NextState[txState[t]] \in TxStates /\ NextStage[txState[t]] \in Stages
      BY <1>1, <1>4 DEF TxStates
    <3>3. txState[t] = "validating" /\ Material(t) => password
      BY <1>1 DEF Advancing
    <3>4. txState'[t] = NextState[txState[t]]
      BY <3>1 DEF TxInv, RowTypeOK
    <3>5. txState'[t] = "activating" => txState[t] = "validating"
      BY <1>1, <1>4, <3>4
    <3>6. QED
      BY <3>1, <3>2, <3>3, <3>4, <3>5 DEF TxInv, RowTypeOK
  <2>3. QED BY <1>1, <2>1, <2>2
<1>6. RowTypeOK'
  BY <1>1, <1>3, <1>5 DEF TxInv, RowTypeOK, sessionVars, storeVars
<1>7. txState[t] \in Executing /\ txState'[t] \in Executing
  BY <1>1, <1>4, <1>5 DEF Executing
<1>8. RowFits(t)'
  <2>1. RowFits(t) /\ "rolled_back" \notin Executing /\ "absent" \notin Executing
    BY DEF TxInv, Executing
  <2>2. QED
    BY <1>1, <1>5, <1>7, <2>1 DEF RowFits, Young, Backed, sessionVars, storeVars
<1>9. HistoryFits(t)'
  <2>1. HistoryFits(t) /\ "accepted" \notin Executing
        /\ \A st \in {"absent"} \cup Unexecuted : st \notin Executing
    BY DEF TxInv, Executing, Unexecuted
  <2>2. txState'[t] = "verifying" => txState[t] \in {"activating", "verifying"}
    BY <1>1, <1>4, <1>5
  <2>3. QED
    BY <1>5, <1>7, <2>1, <2>2 DEF HistoryFits, Material
<1>10. QED
  BY <1>1, <1>2, <1>5, <1>6, <1>8, <1>9, OneRowStep DEF storeVars, TxInv, RowTypeOK

\* A rollback finds the snapshots it needs, because its session is not too old.
LEMMA RollbackStep ==
    ASSUME TxInv, NEW s \in Sessions, NEW t \in Txns, NEW n \in 1..2, Rollback(s, t, n)
    PROVE  TxInv'
<1>1. /\ txState[t] \in Backed \ {"previewed"} /\ txOwner[t] = s /\ Live(s)
      /\ restored' = IF snapAt[t] = 0 THEN restored ELSE restored \cup {t}
      /\ UNCHANGED <<authorityVars, sessionVars, txOwner, plan, snapAt, lockOf,
                     historyVars>>
  BY DEF Rollback, Close, Handles, Backed, rowVars, Executing
<1>2. CASE n = 2
  <2>1. /\ txState' = [txState EXCEPT ![t] = "rolled_back"]
        /\ approval' = [approval EXCEPT ![t] = "none"]
        /\ evidence' = [evidence EXCEPT ![t] = @ \cup {"rollback"}]
    BY <1>2 DEF Rollback, Close
  <2>2. RowTypeOK'
    BY <1>1, <2>1
    DEF TxInv, RowTypeOK, sessionVars, historyVars, TxStates, Closed, Stages
  <2>3. RowFits(t) /\ HistoryFits(t) /\ Young(s) /\ snapAt[t] \in Nat
    BY <1>1 DEF TxInv, RowTypeOK, Live, Young
  <2>4. Reversible(plan[t]) # {} => t \in restored'
    BY <1>1, <2>3 DEF RowFits
  <2>5. (RowFits(t) /\ HistoryFits(t))'
    <3>1. txState'[t] = "rolled_back" /\ txState[t] # "absent"
      BY <1>1, <2>1 DEF TxInv, RowTypeOK, Backed, Executing
    <3>2. QED
      BY <1>1, <2>3, <2>4, <3>1
      DEF RowFits, HistoryFits, sessionVars, historyVars, Backed, Executing, Unexecuted
  <2>6. QED
    BY <1>1, <2>1, <2>2, <2>5, AuthorityStutterInv, OneRowStep
    DEF historyVars, TxInv, RowTypeOK
<1>3. CASE n = 1
  <2>1. UNCHANGED rowVars
    BY <1>3 DEF Rollback
  <2>2. RowTypeOK'
    BY <1>1, <2>1 DEF TxInv, RowTypeOK, sessionVars, historyVars, rowVars
  <2>3. (RowFits(t) /\ HistoryFits(t))'
    <3>1. RowFits(t) /\ HistoryFits(t)
      BY DEF TxInv
    <3>2. QED
      BY <1>1, <2>1, <3>1
      DEF RowFits, HistoryFits, Young, Material, sessionVars, historyVars, rowVars
  <2>4. QED
    BY <1>1, <2>1, <2>2, <2>3, AuthorityStutterInv, OneRowStep
    DEF historyVars, rowVars, TxInv, RowTypeOK
<1>4. QED BY <1>2, <1>3

-----------------------------------------------------------------------------
(* Steps of the sessions, the lease and the clock *)

\* A step that leaves rows, snapshots and history alone.
LEMMA RowsStandStill ==
    ASSUME TxInv, AuthorityInv',
           UNCHANGED <<txState, txOwner, plan, evidence, storeVars, historyVars>>,
           approval' \in [Txns -> {"none", "valid", "lapsed"}],
           lockOf' \in [Hosts -> Txns \cup {None}],
           period' \in Nat, period' >= period, gone' \subseteq Sessions,
           born' \in [Sessions -> Nat],
           \A s \in Sessions : born'[s] = born[s] \/ (born[s] = 0 /\ born'[s] = period')
    PROVE  TxInv'
<1>1. period \in Nat \ {0} /\ born \in [Sessions -> Nat]
      /\ \A s \in Sessions : born[s] <= period
  BY DEF TxInv, RowTypeOK
<1>2. \A s \in Sessions : born'[s] <= period'
  BY <1>1
<1>3. RowTypeOK'
  BY <1>1 DEF TxInv, RowTypeOK, storeVars, historyVars
<1>4. ASSUME NEW u \in Txns PROVE (RowFits(u) /\ HistoryFits(u))'
  <2>1. txState[u] # "absent" => born'[txOwner[u]] = born[txOwner[u]]
    BY <1>1 DEF TxInv, RowFits
  <2>2. QED
    BY <1>1, <2>1, FrameFits DEF storeVars, historyVars
<1>5. QED
  BY <1>2, <1>3, <1>4 DEF TxInv

LEMMA SessionStep ==
    ASSUME TxInv, NEW s \in Sessions, SignIn(s) \/ SignOut(s) \/ IdleOut(s)
    PROVE  TxInv'
<1>1. AuthorityInv'
  <2>1. CASE SignOut(s)
    <3>1. generation' \in Nat /\ env' \in [Hosts -> Environments]
      BY <2>1 DEF SignOut, TxInv, AuthorityInv, AuthorityTypeOK
    <3>2. QED
      BY <2>1, <3>1, ToObserveInv, AuthorityStutterInv
      DEF SignOut, SameLease, TxInv, authorityVars
  <2>2. CASE SignIn(s) \/ IdleOut(s)
    BY <2>2, AuthorityStutterInv DEF SignIn, IdleOut, TxInv
  <2>3. QED BY <2>1, <2>2
<1>2. QED
  BY <1>1, RowsStandStill
  DEF SignIn, SignOut, IdleOut, txVars, rowVars, TxInv, RowTypeOK

\* Requests to the lease, restarts and the clock.
LEMMA EnvironmentStep ==
    ASSUME TxInv,
           \/ OtherRequest \/ LeaseExpires \/ Tick \/ Restart
           \/ \E t \in Txns : ApprovalLapses(t) \/ LocksLapse(t)
    PROVE  TxInv'
<1>1. CASE OtherRequest \/ LeaseExpires \/ Restart
  <2>1. AuthorityInv'
    <3>1. OtherRequest => AuthorityRequest
      BY DEF OtherRequest, AuthorityRequest, SessionRequest
    <3>2. QED
      BY <1>1, <3>1, AuthorityRequestInv, ExpireInv, ForgetLeaseInv
      DEF LeaseExpires, Restart, TxInv
  <2>2. QED
    BY <1>1, <2>1, RowsStandStill
    DEF OtherRequest, LeaseExpires, Restart, sessionVars, txVars, rowVars, TxInv, RowTypeOK
<1>2. CASE Tick
  <2>1. AuthorityInv'
    BY <1>2 DEF Tick, TxInv, AuthorityInv, AuthorityTypeOK, ScopeStaysInLab, BudgetHolds,
                ArmIsOnRecord, AllLab
  <2>2. /\ approval' \in [Txns -> {"none", "valid", "lapsed"}]
        /\ lockOf' \in [Hosts -> Txns \cup {None}]
    BY <1>2 DEF Tick, TxInv, RowTypeOK
  <2>3. QED
    BY <1>2, <2>1, <2>2, RowsStandStill DEF Tick, TxInv, RowTypeOK
<1>3. CASE \E t \in Txns : ApprovalLapses(t) \/ LocksLapse(t)
  <2>1. AuthorityInv'
    BY <1>3, AuthorityStutterInv DEF ApprovalLapses, LocksLapse, TxInv
  <2>2. QED
    BY <1>3, <2>1, RowsStandStill
    DEF ApprovalLapses, LocksLapse, sessionVars, rowVars, TxInv, RowTypeOK
<1>4. QED BY <1>1, <1>2, <1>3

-----------------------------------------------------------------------------
(* Theorems *)

LEMMA TxInitial == ChangesInit => TxInv
<1> SUFFICES ASSUME ChangesInit PROVE TxInv
  OBVIOUS
<1>1. AuthorityInv
  BY AuthorityInitInv DEF ChangesInit
<1>2. RowTypeOK
  BY DEF ChangesInit, RowTypeOK, TxStates
<1>3. QED
  BY <1>1, <1>2
  DEF ChangesInit, TxInv, RowFits, HistoryFits, Backed, Executing

LEMMA TxStep == TxInv /\ [ChangesNext]_changeVars => TxInv'
<1> SUFFICES ASSUME TxInv, [ChangesNext]_changeVars PROVE TxInv'
  OBVIOUS
<1>1. CASE \E s \in Sessions, t \in Txns : Planning(s, t)
  <2>1. PICK s \in Sessions, t \in Txns : Planning(s, t)
    BY <1>1
  <2>2. CASE \E p \in SUBSET Actions : Create(s, t, p)
    BY <2>2, CreateStep
  <2>3. CASE \E u \in Txns, p \in SUBSET Actions, n \in 1..2 : Revise(s, t, u, p, n)
    BY <2>3, ReviseStep
  <2>4. CASE \E u \in Txns, h \in Hosts, n \in 1..2 : SkipHost(s, t, u, h, n)
    <3>1. PICK u \in Txns, h \in Hosts, n \in 1..2 :
              Revise(s, t, u, {a \in plan[t] : a.host # h}, n)
      BY <2>4 DEF SkipHost
    <3>2. {a \in plan[t] : a.host # h} \in SUBSET Actions
      BY DEF TxInv, RowTypeOK
    <3>3. QED BY <3>1, <3>2, ReviseStep
  <2>5. QED
    BY <2>1, <2>2, <2>3, <2>4, PreviewStep, ApproveStep, CloseStep DEF Planning
<1>2. CASE \E s \in Sessions, t \in Txns : Carrying(s, t)
  BY <1>2, CaptureOnlyStep, SimulateStep, AdvanceStep, CloseStep, RollbackStep DEF Carrying
<1>3. CASE \E s \in Sessions : SignIn(s) \/ SignOut(s) \/ IdleOut(s)
  BY <1>3, SessionStep
<1>4. CASE \/ OtherRequest \/ LeaseExpires \/ Tick \/ Restart
           \/ \E t \in Txns : ApprovalLapses(t) \/ LocksLapse(t)
  BY <1>4, EnvironmentStep
<1>5. CASE UNCHANGED changeVars
  <2>1. AuthorityInv'
    BY <1>5, AuthorityStutterInv DEF changeVars, TxInv
  <2>2. QED
    BY <1>5, <2>1, RowsStandStill
    DEF changeVars, sessionVars, txVars, rowVars, TxInv, RowTypeOK
<1>6. QED
  BY <1>1, <1>2, <1>3, <1>4, <1>5 DEF ChangesNext

\* Rows, snapshots, history and the lease fit together in every reachable state.
THEOREM TxInvariant == ChangesSpec => []TxInv
  BY TxInitial, TxStep, PTL DEF ChangesSpec

\* Types of the composition.
THEOREM ChangesTypeCorrect == ChangesSpec => []ChangesTypeOK
<1>1. TxInv => ChangesTypeOK
  BY DEF TxInv, AuthorityInv, ChangesTypeOK
<1>2. QED BY <1>1, TxInvariant, PTL

\* While its session can act, a transaction that was previewed has its snapshots,
\* provided snapshots are kept at least as long as a session lasts.
THEOREM SnapshotsStay == ChangesSpec => []SnapshotsAtHand
<1>1. TxInv => SnapshotsAtHand
  <2> SUFFICES ASSUME TxInv, NEW t \in Txns, txState[t] \in Backed, Live(txOwner[t]),
                      Reversible(plan[t]) # {}
               PROVE  Kept(t)
    BY DEF SnapshotsAtHand, Backed
  <2>1. Young(txOwner[t]) /\ txState[t] # "absent"
    BY DEF Live, Young, Backed, Executing
  <2>2. snapAt[t] > 0
    BY <2>1 DEF TxInv, RowFits
  <2>3. QED BY <2>1, <2>2, YoungAreKept
<1>2. QED BY <1>1, TxInvariant, PTL

\* "rolled_back" is never reported of a transaction whose snapshots were not restored.
THEOREM RollbackRestores == ChangesSpec => []RolledBackIsRestored
<1>1. TxInv => RolledBackIsRestored
  BY DEF TxInv, RowFits, RolledBackIsRestored
<1>2. QED BY <1>1, TxInvariant, PTL

\* A transaction is carried out at most once.
THEOREM SingleExecution == ChangesSpec => []ExecutedOnce
<1>1. TxInv => ExecutedOnce
  BY DEF TxInv, HistoryFits, ExecutedOnce
<1>2. QED BY <1>1, TxInvariant, PTL

\* A material plan is activated only with a repeated password.
THEOREM MaterialConfirmed == ChangesSpec => []MaterialIsConfirmed
<1>1. TxInv => MaterialIsConfirmed
  BY DEF TxInv, HistoryFits, MaterialIsConfirmed
<1>2. QED BY <1>1, TxInvariant, PTL

\* What one step can do to the state of a transaction.
LEMMA StateMoves ==
    ASSUME TxInv, ChangesNext, NEW v \in Txns
    PROVE  \/ txState'[v] = txState[v]
           \/ txState[v] \in {"absent"} \cup Unexecuted \cup Executing
           \/ txState[v] = "failed" /\ txState'[v] = "rolled_back"
<1> txState \in [Txns -> TxStates]
  BY DEF TxInv, RowTypeOK
<1>1. CASE \E s \in Sessions, t \in Txns : Planning(s, t)
  <2>1. PICK s \in Sessions, t \in Txns : Planning(s, t)
    BY <1>1
  <2>2. CASE \E p \in SUBSET Actions : Create(s, t, p)
    BY <2>2 DEF Create
  <2>3. CASE \E u \in Txns, p \in SUBSET Actions, n \in 1..2 : Revise(s, t, u, p, n)
    <3>1. PICK u \in Txns, p \in SUBSET Actions, n \in 1..2 : Revise(s, t, u, p, n)
      BY <2>3
    <3>2. /\ txState[t] \in Unexecuted /\ txState[u] = "absent"
          /\ v \notin {t, u} => txState'[v] = txState[v]
      BY <3>1 DEF Revise
    <3>3. QED BY <3>2
  <2>4. CASE Preview(s, t) \/ Approve(s, t) \/ CancelPlan(s, t)
    BY <2>4 DEF Preview, CanPreview, Approve, CancelPlan, Close, Unexecuted
  <2>5. CASE \E u \in Txns, h \in Hosts, n \in 1..2 : SkipHost(s, t, u, h, n)
    <3>1. PICK u \in Txns, h \in Hosts, n \in 1..2 : SkipHost(s, t, u, h, n)
      BY <2>5
    <3>2. Revise(s, t, u, {a \in plan[t] : a.host # h}, n)
      BY <3>1 DEF SkipHost
    <3>3. /\ txState[t] \in Unexecuted /\ txState[u] = "absent"
          /\ v \notin {t, u} => txState'[v] = txState[v]
      BY <3>2 DEF Revise
    <3>4. QED BY <3>3
  <2>6. QED
    BY <2>1, <2>2, <2>3, <2>4, <2>5 DEF Planning
<1>2. CASE \E s \in Sessions, t \in Txns : Carrying(s, t)
  <2>1. PICK s \in Sessions, t \in Txns : Carrying(s, t)
    BY <1>2
  <2>2. CASE \E whole, password, open \in BOOLEAN, n \in 0..4 :
                Simulating(s, t, whole, password, open, n)
    BY <2>2 DEF Simulating, CanSimulate, Staged, rowVars, Unexecuted
  <2>3. CASE \E password \in BOOLEAN : Advancing(s, t, password)
                /\ (AdvanceRow(t, password) \/ UNCHANGED rowVars)
    <3>1. txState[t] \in Executing
      BY <2>3 DEF Advancing, NextState, Executing
    <3>2. QED BY <2>3, <3>1 DEF AdvanceRow, rowVars
  <2>4. CASE CaptureOnly(s, t) \/ SimulateLocked(s, t)
    BY <2>4 DEF CaptureOnly, SimulateLocked, rowVars
  <2>5. CASE Accept(s, t)
    BY <2>5 DEF Accept, Close, Executing
  <2>6. CASE \E n \in 1..2 : Rollback(s, t, n)
    BY <2>6 DEF Rollback, Close, rowVars, Unexecuted
  <2>7. QED
    BY <2>1, <2>2, <2>3, <2>4, <2>5, <2>6
    DEF Carrying, Simulate, SimulateKilled, Advance, AdvanceKilled
<1>3. CASE UNCHANGED txState
  BY <1>3
<1>4. QED
  BY <1>1, <1>2, <1>3
  DEF ChangesNext, SignIn, SignOut, IdleOut, ApprovalLapses, LocksLapse, OtherRequest,
      LeaseExpires, Tick, Restart, txVars, rowVars

\* Accepted, rolled back and cancelled transactions stay so.
THEOREM OutcomesFinal == ChangesSpec => OutcomeIsFinal
<1> DEFINE Final == \A t \in Txns :
                      /\ txState[t] \in Closed => txState'[t] = txState[t]
                      /\ txState[t] = "failed" => txState'[t] \in {"failed", "rolled_back"}
<1>1. TxInv /\ [ChangesNext]_changeVars => [Final]_changeVars
  <2> SUFFICES ASSUME TxInv, ChangesNext PROVE Final
    OBVIOUS
  <2>1. \A t \in Txns : \/ txState'[t] = txState[t]
                        \/ txState[t] \in {"absent"} \cup Unexecuted \cup Executing
                        \/ txState[t] = "failed" /\ txState'[t] = "rolled_back"
    BY StateMoves
  <2>2. \A st \in Closed \cup {"failed"} : st \notin {"absent"} \cup Unexecuted \cup Executing
    BY DEF Closed, Unexecuted, Executing
  <2>3. "failed" \notin Closed
    BY DEF Closed
  <2>4. QED BY <2>1, <2>2, <2>3
<1>2. QED
  BY <1>1, TxInvariant, PTL DEF ChangesSpec, OutcomeIsFinal

\* A rollback that is offered can be carried out, and one that is reported was.
THEOREM RollbacksSound == ChangesSpec => []RollbackHolds
<1>1. ChangesTypeOK /\ SnapshotsAtHand /\ RolledBackIsRestored => RollbackHolds
  BY DEF RollbackHolds
<1>2. QED BY <1>1, ChangesTypeCorrect, SnapshotsStay, RollbackRestores, PTL

-----------------------------------------------------------------------------
(* The stages on record *)

\* The stages a transaction in a given state must have behind it.
Behind(st) ==
    (IF st \in Executing \cup {"accepted"} THEN {"backup"} ELSE {})
    \cup (IF st \in (Executing \ {"backed_up"}) \cup {"accepted"} THEN {"apply"} ELSE {})
    \cup (IF st \in {"validating", "activating", "verifying", "accepted"}
          THEN {"validate"} ELSE {})
    \cup (IF st \in {"verifying", "accepted"} THEN {"verify"} ELSE {})

StagesOnRecord == \A t \in Txns : Behind(txState[t]) \subseteq evidence[t]
\* Whatever a step does to a transaction, the stages behind its new state are on
\* record: simulate() replaces the evidence by the stages it went through,
\* advance() adds the one it ends.
LEMMA StagesStep ==
    ASSUME TxInv, StagesOnRecord, ChangesNext, NEW v \in Txns
    PROVE  Behind(txState'[v]) \subseteq evidence'[v]
<1>0. /\ txState \in [Txns -> TxStates] /\ evidence \in [Txns -> SUBSET Stages]
      /\ Behind(txState[v]) \subseteq evidence[v]
  BY DEF TxInv, RowTypeOK, StagesOnRecord
<1>1. ASSUME evidence[v] \subseteq evidence'[v], txState'[v] = txState[v]
      PROVE  Behind(txState'[v]) \subseteq evidence'[v]
  BY <1>0, <1>1
<1>2. ASSUME txState'[v] \in Unexecuted \cup {"failed", "cancelled", "rolled_back"}
      PROVE  Behind(txState'[v]) \subseteq evidence'[v]
  BY <1>2 DEF Behind, Unexecuted, Executing
<1>3. CASE \E s \in Sessions, t \in Txns : Planning(s, t)
  <2>1. PICK s \in Sessions, t \in Txns : Planning(s, t)
    BY <1>3
  <2>2. CASE \E p \in SUBSET Actions : Create(s, t, p)
    BY <2>2, <1>0, <1>1, <1>2 DEF Create, Unexecuted
  <2>3. ASSUME NEW u \in Txns, NEW p, NEW n \in 1..2, Revise(s, t, u, p, n)
        PROVE  Behind(txState'[v]) \subseteq evidence'[v]
    <3>1. /\ evidence' = evidence
          /\ txState'[v] \in {txState[v], "planned", "cancelled"}
      BY <2>3, <1>0 DEF Revise
    <3>2. QED BY <3>1, <1>1, <1>2 DEF Unexecuted
  <2>4. CASE Preview(s, t) \/ Approve(s, t) \/ CancelPlan(s, t)
    <3>1. /\ evidence' = evidence
          /\ txState'[v] \in {txState[v], "previewed", "approved", "cancelled"}
      BY <2>4, <1>0 DEF Preview, Approve, CancelPlan, Close
    <3>2. QED BY <3>1, <1>1, <1>2 DEF Unexecuted
  <2>5. QED
    BY <2>1, <2>2, <2>3, <2>4 DEF Planning, SkipHost
<1>4. CASE \E s \in Sessions, t \in Txns : Carrying(s, t)
  <2>1. PICK s \in Sessions, t \in Txns : Carrying(s, t)
    BY <1>4
  <2>2. ASSUME NEW open \in BOOLEAN, NEW n \in 0..4, Staged(t, open, n)
        PROVE  Behind(txState'[v]) \subseteq evidence'[v]
    <3>1. CASE n = 0 \/ v # t
      BY <2>2, <3>1, <1>0, <1>1 DEF Staged, rowVars
    <3>2. CASE n # 0 /\ v = t
      <4>1. /\ txState'[v] = IF open /\ n = 2 THEN "failed" ELSE SimulatedState[n]
            /\ evidence'[v] = {SimulatedStage[i] : i \in 1..n}
        BY <2>2, <3>2, <1>0 DEF Staged
      <4>2. /\ n \in {1, 2, 3, 4}
            /\ SimulatedStage[1] = "backup" /\ SimulatedStage[2] = "apply"
            /\ SimulatedStage[3] = "validate" /\ SimulatedStage[4] = "verify"
        BY <3>2 DEF SimulatedStage
      <4>3. \A i \in 1..n : SimulatedStage[i] \in evidence'[v]
        BY <4>1
      <4>4. CASE open /\ n = 2
        BY <4>1, <4>4, <1>2
      <4>5. CASE ~(open /\ n = 2) /\ n = 1
        <5>1. txState'[v] = "backed_up" /\ "backup" \in evidence'[v]
          BY <4>1, <4>2, <4>3, <4>5 DEF SimulatedState
        <5>2. QED BY <5>1 DEF Behind
      <4>6. CASE ~(open /\ n = 2) /\ n = 2
        <5>1. txState'[v] = "applying" /\ {"backup", "apply"} \subseteq evidence'[v]
          BY <4>1, <4>2, <4>3, <4>6 DEF SimulatedState
        <5>2. QED BY <5>1 DEF Behind
      <4>7. CASE ~(open /\ n = 2) /\ n = 3
        <5>1. txState'[v] = "validating" /\ {"backup", "apply", "validate"} \subseteq evidence'[v]
          BY <4>1, <4>2, <4>3, <4>7 DEF SimulatedState
        <5>2. QED BY <5>1 DEF Behind
      <4>8. CASE ~(open /\ n = 2) /\ n = 4
        <5>1. {"backup", "apply", "validate", "verify"} \subseteq evidence'[v]
          BY <4>2, <4>3, <4>8
        <5>2. QED BY <5>1 DEF Behind
      <4>9. QED BY <4>2, <4>4, <4>5, <4>6, <4>7, <4>8
    <3>3. QED BY <3>1, <3>2
  <2>3. ASSUME NEW password, Advancing(s, t, password), AdvanceRow(t, password)
        PROVE  Behind(txState'[v]) \subseteq evidence'[v]
    <3>1. CASE v # t
      BY <2>3, <3>1, <1>0, <1>1 DEF AdvanceRow
    <3>2. CASE v = t
      <4>1. /\ txState[v] \in {"backed_up", "applying", "validating", "activating"}
            /\ txState'[v] = NextState[txState[v]]
            /\ evidence'[v] = evidence[v] \cup {NextStage[txState[v]]}
        BY <2>3, <3>2, <1>0 DEF Advancing, AdvanceRow, NextState
      <4>2. QED
        BY <4>1, <1>0 DEF Behind, Executing, NextState, NextStage
    <3>3. QED BY <3>1, <3>2
  <2>4. CASE Accept(s, t)
    <3>1. /\ evidence' = evidence
          /\ \/ txState'[v] = txState[v]
             \/ txState[v] = "verifying" /\ txState'[v] = "accepted"
      BY <2>4, <1>0 DEF Accept, Close
    <3>2. Behind("accepted") = Behind("verifying")
      BY DEF Behind, Executing
    <3>3. QED BY <3>1, <3>2, <1>0
  <2>5. CASE \E n \in 1..2 : Rollback(s, t, n)
    <3>1. /\ evidence[v] \subseteq evidence'[v]
          /\ txState'[v] \in {txState[v], "rolled_back"}
      BY <2>5, <1>0 DEF Rollback, Close, rowVars
    <3>2. QED BY <3>1, <1>1, <1>2
  <2>6. CASE UNCHANGED rowVars
    BY <2>6, <1>1 DEF rowVars
  <2>7. QED
    BY <2>1, <2>2, <2>3, <2>4, <2>5, <2>6
    DEF Carrying, CaptureOnly, SimulateLocked, Simulate, SimulateKilled, Simulating,
        Advance, AdvanceKilled
<1>5. CASE UNCHANGED <<txState, evidence>>
  BY <1>5, <1>1
<1>6. QED
  BY <1>3, <1>4, <1>5
  DEF ChangesNext, SignIn, SignOut, IdleOut, ApprovalLapses, LocksLapse, OtherRequest,
      LeaseExpires, Tick, Restart, txVars, rowVars

\* Every state of a transaction has its stages on record, through simulate(), kills
\* between two stages, and advance().
THEOREM StagesRecorded == ChangesSpec => []StagesOnRecord
<1>1. ChangesInit => StagesOnRecord
  BY DEF ChangesInit, StagesOnRecord, Behind, Executing
<1>2. TxInv /\ StagesOnRecord /\ [ChangesNext]_changeVars => StagesOnRecord'
  <2>1. CASE UNCHANGED changeVars
    BY <2>1 DEF StagesOnRecord, changeVars, txVars, rowVars
  <2>2. CASE ChangesNext
    BY <2>2, StagesStep DEF StagesOnRecord
  <2>3. QED BY <2>1, <2>2
<1>3. QED
  BY <1>1, <1>2, TxInvariant, PTL DEF ChangesSpec

\* What is accepted was earned: every stage is on record, and the password was
\* repeated for a plan that interrupts a service.
THEOREM AcceptanceEarned == ChangesSpec => []AcceptedIsEarned
<1>1. StagesOnRecord /\ MaterialIsConfirmed => AcceptedIsEarned
  BY DEF StagesOnRecord, Behind, Executing, AcceptedIsEarned, AcceptedIsComplete
<1>2. QED BY <1>1, StagesRecorded, MaterialConfirmed, PTL

-----------------------------------------------------------------------------
(* Locks *)

\* A transaction enters a stage only by an execution that found its hosts unlocked.
LEMMA EntersUnlocked ==
    ASSUME TxInv, ChangesNext, NEW v \in Txns, txState'[v] \in Executing
    PROVE  txState'[v] = txState[v] \/ Unlocked(v)
<1> txState \in [Txns -> TxStates]
  BY DEF TxInv, RowTypeOK
<1> USE DEF Executing
<1>1. CASE \E s \in Sessions, t \in Txns : Planning(s, t)
  <2>1. PICK s \in Sessions, t \in Txns : Planning(s, t)
    BY <1>1
  <2>2. CASE \E p \in SUBSET Actions : Create(s, t, p)
    BY <2>2 DEF Create
  <2>3. ASSUME NEW u \in Txns, NEW p, NEW n \in 1..2, Revise(s, t, u, p, n)
        PROVE  txState'[v] = txState[v]
    BY <2>3 DEF Revise
  <2>4. CASE Preview(s, t) \/ Approve(s, t) \/ CancelPlan(s, t)
    BY <2>4 DEF Preview, Approve, CancelPlan, Close
  <2>5. QED
    BY <2>1, <2>2, <2>3, <2>4 DEF Planning, SkipHost
<1>2. CASE \E s \in Sessions, t \in Txns : Carrying(s, t)
  <2>1. PICK s \in Sessions, t \in Txns : Carrying(s, t)
    BY <1>2
  <2>2. CASE \E whole, password, open \in BOOLEAN, n \in 0..4 :
                Simulating(s, t, whole, password, open, n)
    BY <2>2 DEF Simulating, Staged, rowVars
  <2>3. CASE \E password \in BOOLEAN : Advancing(s, t, password)
                /\ (AdvanceRow(t, password) \/ UNCHANGED rowVars)
    BY <2>3 DEF Advancing, AdvanceRow, rowVars
  <2>4. CASE Accept(s, t) \/ \E n \in 1..2 : Rollback(s, t, n)
    BY <2>4 DEF Accept, Rollback, Close, rowVars
  <2>5. CASE CaptureOnly(s, t) \/ SimulateLocked(s, t)
    BY <2>5 DEF CaptureOnly, SimulateLocked, rowVars
  <2>6. QED
    BY <2>1, <2>2, <2>3, <2>4, <2>5
    DEF Carrying, Simulate, SimulateKilled, Advance, AdvanceKilled
<1>3. CASE UNCHANGED txState
  BY <1>3
<1>4. QED
  BY <1>1, <1>2, <1>3
  DEF ChangesNext, SignIn, SignOut, IdleOut, ApprovalLapses, LocksLapse, OtherRequest,
      LeaseExpires, Tick, Restart, txVars, rowVars

\* What a killed handler has locked stays out of every stage until the locks lapse.
THEOREM LocksAreKept == ChangesSpec => LocksKeepOut
<1> DEFINE KeptOut ==
        \A t \in Txns, h \in Hosts :
            lockOf[h] # None /\ h \in HostsOf(plan[t]) /\ txState'[t] \in Executing
                => txState'[t] = txState[t]
<1>1. TxInv /\ [ChangesNext]_changeVars => [KeptOut]_changeVars
  BY EntersUnlocked DEF Unlocked
<1>2. QED
  BY <1>1, TxInvariant, PTL DEF ChangesSpec, LocksKeepOut
-----------------------------------------------------------------------------
(* The recovery store *)

\* Transactions with rows in the store, too old ones included.
Occupied == {t \in Txns : snapAt[t] > 0}

\* Rows are finite in number, so fewer transactions have fewer rows.
LEMMA RowsFinite ==
    ASSUME NEW ts \in SUBSET Txns
    PROVE  IsFiniteSet(RowsOf(ts)) /\ CountOf(ts) \in Nat
<1>1. IsFiniteSet(ts) /\ IsFiniteSet(Actions)
  BY TxnsFinite, ActionsTyped, FS_Subset
<1>2. IsFiniteSet(ts \X Actions)
  BY <1>1, FS_Product
<1>3. RowsOf(ts) \subseteq ts \X Actions
  BY DEF RowsOf
<1>4. IsFiniteSet(RowsOf(ts))
  BY <1>2, <1>3, FS_Subset
<1>5. QED BY <1>4, FS_CardinalityType DEF CountOf

\* As many pairs with one element as the set has elements.
LEMMA PairsWithOne ==
    ASSUME NEW t, NEW S, IsFiniteSet(S)
    PROVE  /\ IsFiniteSet({t} \X S)
           /\ Cardinality({t} \X S) = Cardinality(S)
           /\ Cardinality(S) \in Nat
<1>1. IsFiniteSet({t}) /\ Cardinality({t}) = 1 /\ Cardinality(S) \in Nat
  BY FS_Singleton, FS_CardinalityType
<1>2. QED BY <1>1, FS_Product

\* The rows of one transaction are as many as its reversible actions.
LEMMA RowsOfOne ==
    ASSUME TxInv, NEW t \in Txns
    PROVE  /\ IsFiniteSet({t} \X Reversible(plan[t]))
           /\ Cardinality({t} \X Reversible(plan[t])) = Cardinality(Reversible(plan[t]))
           /\ Cardinality(Reversible(plan[t])) \in Nat
<1>1. Reversible(plan[t]) \subseteq plan[t]
  BY DEF Reversible
<1>2. IsFiniteSet(Reversible(plan[t]))
  BY <1>1, PlansFinite, FS_Subset
<1>3. QED BY <1>2, PairsWithOne

\* A capture that found room for its own rows leaves no more than the store holds.
LEMMA CaptureHasRoom ==
    ASSUME TxInv, NEW t \in Txns, RoomFor(t), snapAt' = Captured(t), plan' = plan
    PROVE  StoreHasRoom'
<1> DEFINE own == {t} \X Reversible(plan[t])
<1>1. snapAt \in [Txns -> Nat] /\ plan \in [Txns -> SUBSET Actions]
  BY DEF TxInv, RowTypeOK
<1>2. \A u \in Txns : snapAt'[u] > 0 => Kept(u) \/ u = t
  BY <1>1 DEF Captured, CleanedUp
<1>3. RowsOf(Occupied)' \subseteq RowsOf(Stored) \cup own
  <2> SUFFICES ASSUME NEW u \in Txns, NEW a \in Actions, snapAt'[u] > 0,
                      a \in Reversible(plan[u])
               PROVE  <<u, a>> \in RowsOf(Stored) \cup own
    BY DEF RowsOf, Occupied, Reversible
  <2>1. CASE Kept(u)
    BY <2>1 DEF RowsOf, Stored
  <2>2. CASE u = t
    BY <2>2
  <2>3. QED BY <1>2, <2>1, <2>2
<1>4. Stored \subseteq Txns
  BY DEF Stored
<1>5. IsFiniteSet(RowsOf(Stored)) /\ CountOf(Stored) \in Nat
  BY <1>4, RowsFinite
<1>6. IsFiniteSet(own) /\ Cardinality(own) = Cardinality(Reversible(plan[t]))
      /\ Cardinality(own) \in Nat
  BY RowsOfOne
<1>7. /\ IsFiniteSet(RowsOf(Stored) \cup own)
      /\ Cardinality(RowsOf(Stored) \cup own) <= CountOf(Stored) + Cardinality(own)
  <2>1. IsFiniteSet(RowsOf(Stored) \cup own) /\ IsFiniteSet(RowsOf(Stored) \cap own)
        /\ Cardinality(RowsOf(Stored) \cup own)
             = Cardinality(RowsOf(Stored)) + Cardinality(own)
                 - Cardinality(RowsOf(Stored) \cap own)
    BY <1>5, <1>6, FS_Union, FS_Intersection
  <2>2. Cardinality(RowsOf(Stored) \cap own) \in Nat
    BY <2>1, FS_CardinalityType
  <2>3. QED BY <1>5, <1>6, <2>1, <2>2 DEF CountOf
<1>8. /\ Cardinality(RowsOf(Occupied)') <= Cardinality(RowsOf(Stored) \cup own)
      /\ IsFiniteSet(RowsOf(Occupied)')
  BY <1>3, <1>7, FS_Subset
<1>9. Cardinality(RowsOf(Occupied)') \in Nat /\ Cardinality(RowsOf(Stored) \cup own) \in Nat
  BY <1>7, <1>8, FS_CardinalityType
<1>10. Cardinality(RowsOf(Occupied)') <= MaxSnapshots
  BY <1>5, <1>6, <1>7, <1>8, <1>9, BoundsTyped DEF RoomFor
<1>11. QED
  BY <1>10 DEF StoreHasRoom, CountOf, Occupied

\* A step that takes no snapshot and leaves the plans of those that have some.
LEMMA NoNewRows ==
    ASSUME TxInv, StoreHasRoom,
           \A u \in Txns : snapAt'[u] > 0 => snapAt[u] > 0 /\ plan'[u] = plan[u]
    PROVE  StoreHasRoom'
<1>1. Occupied \subseteq Txns
  BY DEF Occupied
<1>2. IsFiniteSet(RowsOf(Occupied)) /\ CountOf(Occupied) \in Nat
  BY <1>1, RowsFinite
<1>3. RowsOf(Occupied)' \subseteq RowsOf(Occupied)
  BY DEF RowsOf, Occupied, Reversible
<1>4. IsFiniteSet(RowsOf(Occupied)') /\ Cardinality(RowsOf(Occupied)') <= CountOf(Occupied)
  BY <1>2, <1>3, FS_Subset DEF CountOf
<1>5. Cardinality(RowsOf(Occupied)') \in Nat
  BY <1>4, FS_CardinalityType
<1>6. CountOf(Occupied) <= MaxSnapshots
  BY DEF StoreHasRoom, Occupied
<1>7. Cardinality(RowsOf(Occupied)') <= MaxSnapshots
  BY <1>2, <1>4, <1>5, <1>6, BoundsTyped
<1>8. QED
  BY <1>7 DEF StoreHasRoom, CountOf, Occupied

\* Only a capture that found room adds rows, and a plan is written before it has any.
LEMMA SnapshotMoves ==
    ASSUME TxInv, ChangesNext
    PROVE  \/ \A u \in Txns : snapAt'[u] > 0 => snapAt[u] > 0 /\ plan'[u] = plan[u]
           \/ plan' = plan /\ \E t \in Txns : RoomFor(t) /\ snapAt' = Captured(t)
<1>0. /\ plan \in [Txns -> SUBSET Actions] /\ snapAt \in [Txns -> Nat]
      /\ \A u \in Txns : txState[u] = "absent" => snapAt[u] = 0
  BY DEF TxInv, RowTypeOK, RowFits
<1>1. CASE \E s \in Sessions, t \in Txns : Planning(s, t)
  <2>1. PICK s \in Sessions, t \in Txns : Planning(s, t)
    BY <1>1
  <2>2. CASE \E p \in SUBSET Actions : Create(s, t, p)
    BY <2>2, <1>0 DEF Create, storeVars
  <2>3. ASSUME NEW u \in Txns, NEW p, NEW n \in 1..2, Revise(s, t, u, p, n)
        PROVE  \A v \in Txns : snapAt'[v] > 0 => snapAt[v] > 0 /\ plan'[v] = plan[v]
    BY <2>3, <1>0 DEF Revise, storeVars
  <2>4. CASE Preview(s, t)
    BY <2>4 DEF Preview
  <2>5. CASE Approve(s, t) \/ CancelPlan(s, t)
    BY <2>5 DEF Approve, CancelPlan, Close, storeVars
  <2>6. QED
    BY <2>1, <2>2, <2>3, <2>4, <2>5 DEF Planning, SkipHost
<1>2. CASE \E s \in Sessions, t \in Txns : Carrying(s, t)
  <2>1. PICK s \in Sessions, t \in Txns : Carrying(s, t)
    BY <1>2
  <2>2. ASSUME NEW whole, NEW password, NEW open \in BOOLEAN, NEW n \in 0..4,
               Simulating(s, t, whole, password, open, n)
        PROVE  plan' = plan /\ RoomFor(t) /\ snapAt' = Captured(t)
    BY <2>2 DEF Simulating, Staged, rowVars
  <2>3. CASE SimulateLocked(s, t)
    BY <2>3 DEF SimulateLocked, rowVars
  <2>4. CASE CaptureOnly(s, t)
    <3>1. plan' = plan
      BY <2>4 DEF CaptureOnly, rowVars
    <3>2. CASE RoomFor(t)
      BY <2>4, <3>1, <3>2 DEF CaptureOnly
    <3>3. CASE ~RoomFor(t)
      BY <2>4, <3>1, <3>3 DEF CaptureOnly, CleanedUp
    <3>4. QED BY <3>2, <3>3
  <2>5. CASE \E password \in BOOLEAN : Advancing(s, t, password)
                /\ (AdvanceRow(t, password) \/ UNCHANGED rowVars) /\ UNCHANGED storeVars
    BY <2>5 DEF AdvanceRow, rowVars, storeVars
  <2>6. CASE Accept(s, t) \/ \E n \in 1..2 : Rollback(s, t, n)
    BY <2>6 DEF Accept, Rollback, Close, rowVars
  <2>7. QED
    BY <2>1, <2>2, <2>3, <2>4, <2>5, <2>6
    DEF Carrying, Simulate, SimulateKilled, Advance, AdvanceKilled
<1>3. CASE UNCHANGED <<plan, snapAt>>
  BY <1>3
<1>4. QED
  BY <1>1, <1>2, <1>3
  DEF ChangesNext, SignIn, SignOut, IdleOut, ApprovalLapses, LocksLapse, OtherRequest,
      LeaseExpires, Tick, Restart, txVars, rowVars, storeVars

\* However captures, clean-ups and the ends of sessions follow each other, the store
\* holds at most its capacity.
THEOREM StoreBounded == ChangesSpec => []StoreHasRoom
<1>1. ChangesInit => StoreHasRoom
  <2> SUFFICES ASSUME ChangesInit PROVE StoreHasRoom
    OBVIOUS
  <2>1. RowsOf(Occupied) = {}
    BY DEF ChangesInit, Occupied, RowsOf
  <2>2. CountOf(Occupied) = 0
    BY <2>1, FS_EmptySet DEF CountOf
  <2>3. CountOf(Occupied) <= MaxSnapshots
    BY <2>2, BoundsTyped
  <2>4. QED BY <2>3 DEF StoreHasRoom, Occupied
<1>2. TxInv /\ StoreHasRoom /\ [ChangesNext]_changeVars => StoreHasRoom'
  <2> SUFFICES ASSUME TxInv, StoreHasRoom, [ChangesNext]_changeVars PROVE StoreHasRoom'
    OBVIOUS
  <2>1. CASE UNCHANGED changeVars
    <3>1. snapAt' = snapAt /\ plan' = plan
      BY <2>1 DEF changeVars, txVars, rowVars, storeVars
    <3>2. QED BY <3>1, NoNewRows
  <2>2. CASE ChangesNext
    BY <2>2, SnapshotMoves, CaptureHasRoom, NoNewRows
  <2>3. QED BY <2>1, <2>2
<1>3. QED
  BY <1>1, <1>2, TxInvariant, PTL DEF ChangesSpec

-----------------------------------------------------------------------------
(* Transactions and the lease that pays for them *)

\* Spending a plan is one call of consume.
LEMMA PlanConsumes ==
    ASSUME TxInv, NEW s \in Sessions, NEW t \in Txns, PlanAuthorized(s, plan[t]),
           Spend(Cardinality(plan[t])), UNCHANGED <<generation, env>>
    PROVE  AuthorityNext
<1> DEFINE n == Cardinality(plan[t])
<1>1. n \in Nat
  BY PlansFinite, FS_CardinalityType
<1>2. lease.used \in Nat /\ lease.budget \in Nat
  BY DEF TxInv, AuthorityInv, AuthorityTypeOK, Leases
<1>3. n \in 1..lease.budget
  BY <1>1, <1>2 DEF PlanAuthorized, CanSpend
<1>4. ActiveFor(s) /\ CanSpend(n)
  BY DEF PlanAuthorized
<1>5. Consume(s, n)
  BY <1>4 DEF Consume
<1>6. QED BY <1>3, <1>5 DEF AuthorityNext, AuthorityRequest

\* Whatever a request about a transaction, a sign-in or the clock does to the lease
\* is something the authority service does, or nothing.
LEMMA LeaseFollows ==
    ASSUME TxInv, [ChangesNext]_changeVars
    PROVE  [AuthorityNext]_authorityVars
<1>1. CASE \E s \in Sessions, t \in Txns : Planning(s, t)
  <2>1. PICK s \in Sessions, t \in Txns : Planning(s, t)
    BY <1>1
  <2>2. CASE \E p \in SUBSET Actions : Create(s, t, p)
    BY <2>2 DEF Create
  <2>3. ASSUME NEW u, NEW p, NEW n, Revise(s, t, u, p, n)
        PROVE  UNCHANGED authorityVars
    BY <2>3 DEF Revise
  <2>4. CASE Preview(s, t) \/ Approve(s, t) \/ CancelPlan(s, t)
    BY <2>4 DEF Preview, Approve, CancelPlan, Close
  <2>5. QED
    BY <2>1, <2>2, <2>3, <2>4 DEF Planning, SkipHost
<1>2. CASE \E s \in Sessions, t \in Txns : Carrying(s, t)
  <2>1. PICK s \in Sessions, t \in Txns : Carrying(s, t)
    BY <1>2
  <2>2. CASE \E whole, password, open \in BOOLEAN, n \in 0..4 :
                Simulate(s, t, whole, password, open, n)
    BY <2>2, PlanConsumes DEF Simulate, Simulating, CanSimulate
  <2>3. CASE SimulateLocked(s, t)
    BY <2>3, PlanConsumes DEF SimulateLocked, CanSimulate
  <2>4. CASE ForgetLease
    BY <2>4 DEF AuthorityNext
  <2>5. CASE UNCHANGED authorityVars
    BY <2>5
  <2>6. QED
    BY <2>1, <2>2, <2>3, <2>4, <2>5
    DEF Carrying, CaptureOnly, SimulateKilled, Advance, AdvanceKilled, Accept, Rollback, Close
<1>3. CASE \E s \in Sessions : SignIn(s) \/ SignOut(s) \/ IdleOut(s)
  <2>1. PICK s \in Sessions : SignIn(s) \/ SignOut(s) \/ IdleOut(s)
    BY <1>3
  <2>2. CASE SignOut(s) /\ lease.owner = s
    BY <2>2 DEF SignOut, AuthorityNext, AuthorityRequest, StopSession
  <2>3. QED
    BY <2>1, <2>2 DEF SignIn, SignOut, IdleOut, SameLease, authorityVars
<1>4. CASE OtherRequest \/ LeaseExpires \/ Restart
  BY <1>4 DEF OtherRequest, LeaseExpires, Restart, AuthorityNext, AuthorityRequest
<1>5. CASE Tick
  BY <1>5 DEF Tick, AuthorityNext, Expire, authorityVars, TxInv, AuthorityInv, AuthorityTypeOK
<1>6. CASE \E t \in Txns : ApprovalLapses(t) \/ LocksLapse(t)
  BY <1>6 DEF ApprovalLapses, LocksLapse
<1>7. CASE UNCHANGED changeVars
  BY <1>7 DEF changeVars
<1>8. QED
  BY <1>1, <1>2, <1>3, <1>4, <1>5, <1>6, <1>7 DEF ChangesNext

\* Change transactions, sign-ins and restarts use the lease as the authority service
\* allows it, so what holds of a lease holds of theirs.
THEOREM ChangesUseLease == ChangesSpec => AuthoritySpec
<1>1. ChangesInit => AuthorityInit
  BY DEF ChangesInit
<1>2. QED
  BY <1>1, LeaseFollows, TxInvariant, PTL DEF ChangesSpec, AuthoritySpec

\* The lease that paid is one that was armed, and what began under the current one
\* is paid for.
PaidInv ==
    /\ \A t \in Txns : runs[t] > 0 => paidUnder[t] <= generation
    /\ ExecutionsArePaid

\* How the history of executions moves: it stands still, or one plan that the
\* current lease covers begins.
LEMMA RunMoves ==
    ASSUME TxInv, [ChangesNext]_changeVars
    PROVE  \/ \A u \in Txns : runs'[u] > 0 => /\ runs[u] > 0
                                              /\ paidUnder'[u] = paidUnder[u]
                                              /\ plan'[u] = plan[u]
           \/ \E s \in Sessions, t \in Txns :
                 /\ PlanAuthorized(s, plan[t])
                 /\ Spend(Cardinality(plan[t])) \/ ToObserve
                 /\ generation' = generation /\ plan' = plan
                 /\ \A u \in Txns \ {t} : runs'[u] = runs[u] /\ paidUnder'[u] = paidUnder[u]
                 /\ paidUnder'[t] = lease.gen
<1>0. /\ plan \in [Txns -> SUBSET Actions] /\ runs \in [Txns -> Nat]
      /\ paidUnder \in [Txns -> Nat]
      /\ \A u \in Txns : txState[u] = "absent" => runs[u] = 0
  BY DEF TxInv, RowTypeOK, HistoryFits
<1>1. CASE \E s \in Sessions, t \in Txns : Planning(s, t)
  <2>1. PICK s \in Sessions, t \in Txns : Planning(s, t)
    BY <1>1
  <2>2. CASE \E p \in SUBSET Actions : Create(s, t, p)
    BY <2>2, <1>0 DEF Create, historyVars
  <2>3. ASSUME NEW u \in Txns, NEW p, NEW n \in 1..2, Revise(s, t, u, p, n)
        PROVE  \A v \in Txns : runs'[v] > 0 => /\ runs[v] > 0
                                              /\ paidUnder'[v] = paidUnder[v]
                                              /\ plan'[v] = plan[v]
    BY <2>3, <1>0 DEF Revise, historyVars
  <2>4. CASE Preview(s, t) \/ Approve(s, t) \/ CancelPlan(s, t)
    BY <2>4 DEF Preview, Approve, CancelPlan, Close, historyVars
  <2>5. QED
    BY <2>1, <2>2, <2>3, <2>4 DEF Planning, SkipHost
<1>2. CASE \E s \in Sessions, t \in Txns : Carrying(s, t)
  <2>1. PICK s \in Sessions, t \in Txns : Carrying(s, t)
    BY <1>2
  <2>2. ASSUME NEW whole, NEW password, NEW open \in BOOLEAN, NEW n \in 0..4,
               Simulating(s, t, whole, password, open, n),
               Spend(Cardinality(plan[t])) \/ ToObserve, generation' = generation
        PROVE  \/ UNCHANGED <<plan, runs, paidUnder>>
               \/ /\ PlanAuthorized(s, plan[t])
                  /\ Spend(Cardinality(plan[t])) \/ ToObserve
                  /\ generation' = generation /\ plan' = plan
                  /\ \A u \in Txns \ {t} : runs'[u] = runs[u] /\ paidUnder'[u] = paidUnder[u]
                  /\ paidUnder'[t] = lease.gen
    BY <2>2, <1>0 DEF Simulating, CanSimulate, Staged, rowVars
  <2>3. ASSUME NEW password, Advancing(s, t, password),
               AdvanceRow(t, password) \/ UNCHANGED <<rowVars, historyVars>>
        PROVE  UNCHANGED <<plan, runs, paidUnder>>
    BY <2>3 DEF AdvanceRow, rowVars, historyVars
  <2>4. CASE \/ Accept(s, t) \/ CaptureOnly(s, t) \/ SimulateLocked(s, t)
             \/ \E n \in 1..2 : Rollback(s, t, n)
    BY <2>4 DEF Accept, CaptureOnly, SimulateLocked, Rollback, Close, rowVars, historyVars
  <2>5. QED
    BY <2>1, <2>2, <2>3, <2>4
    DEF Carrying, Simulate, SimulateKilled, ForgetLease, Advance, AdvanceKilled
<1>3. CASE UNCHANGED <<plan, historyVars>>
  BY <1>3 DEF historyVars
<1>4. QED
  BY <1>1, <1>2, <1>3
  DEF ChangesNext, SignIn, SignOut, IdleOut, ApprovalLapses, LocksLapse, OtherRequest,
      LeaseExpires, Tick, Restart, txVars, rowVars, changeVars

\* The actions of some transactions are finite in number.
LEMMA ActionsFinite ==
    ASSUME TxInv, NEW ts \in SUBSET Txns
    PROVE  IsFiniteSet(ActionsOf(ts)) /\ Cardinality(ActionsOf(ts)) \in Nat
<1>1. IsFiniteSet(ts) /\ IsFiniteSet(Actions)
  BY TxnsFinite, ActionsTyped, FS_Subset
<1>2. IsFiniteSet(ts \X Actions)
  BY <1>1, FS_Product
<1>3. ActionsOf(ts) \subseteq ts \X Actions
  BY DEF ActionsOf
<1>4. IsFiniteSet(ActionsOf(ts))
  BY <1>2, <1>3, FS_Subset
<1>5. QED BY <1>4, FS_CardinalityType

\* Executions that are not new stay paid for, whatever happens to the lease.
LEMMA OldRunsPaid ==
    ASSUME TxInv, TxInv', PaidInv, [AuthorityNext]_authorityVars,
           \A u \in Txns : runs'[u] > 0 => /\ runs[u] > 0
                                          /\ paidUnder'[u] = paidUnder[u]
                                          /\ plan'[u] = plan[u]
    PROVE  PaidInv'
<1>0. AuthorityInv /\ generation \in Nat /\ paidUnder \in [Txns -> Nat]
      /\ lease.used \in Nat /\ lease'.used \in Nat
  BY DEF TxInv, RowTypeOK, AuthorityInv, AuthorityTypeOK, Leases
<1>1. \/ lease' = Observe /\ generation' \in {generation, generation + 1}
      \/ /\ lease.mode # "observe" /\ generation' = generation
         /\ lease'.gen = lease.gen /\ lease'.used >= lease.used
      \/ lease'.gen = generation + 1 /\ generation' = generation + 1
  BY <1>0, GenerationStep
<1>2. \A t \in Txns : runs'[t] > 0 => paidUnder'[t] <= generation
  BY DEF PaidInv
<1>3. \A t \in Txns : runs'[t] > 0 => paidUnder'[t] <= generation'
  BY <1>0, <1>1, <1>2
<1>4. ExecutionsArePaid'
  <2>1. CASE lease' = Observe
    BY <2>1 DEF ExecutionsArePaid, Observe
  <2>2. CASE lease'.gen = generation + 1
    <3>1. Begun' = {}
      BY <1>0, <1>2, <2>2 DEF Begun
    <3>2. ActionsOf(Begun)' = {}
      BY <3>1 DEF ActionsOf
    <3>3. Cardinality(ActionsOf(Begun)') = 0
      BY <3>2, FS_EmptySet
    <3>4. Cardinality(ActionsOf(Begun)') <= lease'.used
      BY <1>0, <3>3
    <3>5. QED BY <3>4 DEF ExecutionsArePaid
  <2>3. CASE lease.mode # "observe" /\ lease'.gen = lease.gen /\ lease'.used >= lease.used
    <3>1. ActionsOf(Begun)' \subseteq ActionsOf(Begun)
      BY <2>3 DEF ActionsOf, Begun
    <3>2. Begun \in SUBSET Txns
      BY DEF Begun
    <3>3. IsFiniteSet(ActionsOf(Begun)) /\ Cardinality(ActionsOf(Begun)) \in Nat
      BY <3>2, ActionsFinite
    <3>4. IsFiniteSet(ActionsOf(Begun)')
          /\ Cardinality(ActionsOf(Begun)') <= Cardinality(ActionsOf(Begun))
      BY <3>1, <3>3, FS_Subset
    <3>5. Cardinality(ActionsOf(Begun)') \in Nat
      BY <3>4, FS_CardinalityType
    <3>6. Cardinality(ActionsOf(Begun)) <= lease.used
      BY <2>3 DEF PaidInv, ExecutionsArePaid
    <3>7. Cardinality(ActionsOf(Begun)') <= lease'.used
      BY <1>0, <2>3, <3>3, <3>4, <3>5, <3>6
    <3>8. QED BY <3>7 DEF ExecutionsArePaid
  <2>4. QED BY <1>1, <2>1, <2>2, <2>3
<1>5. QED BY <1>3, <1>4 DEF PaidInv

\* An execution that begins is paid for by its lease, or loses it at once.
LEMMA NewRunPaid ==
    ASSUME TxInv, PaidInv, NEW s \in Sessions, NEW t \in Txns,
           PlanAuthorized(s, plan[t]),
           Spend(Cardinality(plan[t])) \/ ToObserve,
           generation' = generation, plan' = plan,
           \A u \in Txns \ {t} : runs'[u] = runs[u] /\ paidUnder'[u] = paidUnder[u],
           paidUnder'[t] = lease.gen
    PROVE  PaidInv'
<1> DEFINE own == {t} \X plan[t]
<1>1. /\ lease.mode # "observe" /\ lease \in Leases
      /\ lease.gen \in Nat /\ lease.gen <= generation /\ lease.used \in Nat
  BY NoneIsNoSession
  DEF PlanAuthorized, ActiveFor, TxInv, AuthorityInv, AuthorityTypeOK, Observe, Leases
<1>2. \A u \in Txns : runs'[u] > 0 => paidUnder'[u] <= generation'
  BY <1>1 DEF PaidInv
<1>3. CASE ToObserve
  BY <1>2, <1>3 DEF PaidInv, ExecutionsArePaid, ToObserve, Observe
<1>4. CASE Spend(Cardinality(plan[t]))
  <2>1. lease'.gen = lease.gen /\ lease'.used = lease.used + Cardinality(plan[t])
    BY <1>1, <1>4 DEF Spend, Leases
  <2>2. ActionsOf(Begun)' \subseteq ActionsOf(Begun) \cup own
    BY <2>1 DEF ActionsOf, Begun
  <2>3. /\ IsFiniteSet(own) /\ Cardinality(own) = Cardinality(plan[t])
        /\ Cardinality(plan[t]) \in Nat
    BY PlansFinite, PairsWithOne
  <2>4. Begun \in SUBSET Txns
    BY DEF Begun
  <2>5. IsFiniteSet(ActionsOf(Begun)) /\ Cardinality(ActionsOf(Begun)) \in Nat
    BY <2>4, ActionsFinite
  <2>6. /\ IsFiniteSet(ActionsOf(Begun) \cup own)
        /\ IsFiniteSet(ActionsOf(Begun) \cap own)
        /\ Cardinality(ActionsOf(Begun) \cup own)
             = Cardinality(ActionsOf(Begun)) + Cardinality(own)
                 - Cardinality(ActionsOf(Begun) \cap own)
    BY <2>3, <2>5, FS_Union, FS_Intersection
  <2>7. Cardinality(ActionsOf(Begun) \cap own) \in Nat
    BY <2>6, FS_CardinalityType
  <2>8. /\ IsFiniteSet(ActionsOf(Begun)')
        /\ Cardinality(ActionsOf(Begun)') <= Cardinality(ActionsOf(Begun) \cup own)
    BY <2>2, <2>6, FS_Subset
  <2>9. Cardinality(ActionsOf(Begun)') \in Nat
    BY <2>8, FS_CardinalityType
  <2>10. Cardinality(ActionsOf(Begun)) <= lease.used
    BY <1>1 DEF PaidInv, ExecutionsArePaid
  <2>11. Cardinality(ActionsOf(Begun)') <= lease'.used
    BY <1>1, <2>1, <2>3, <2>5, <2>6, <2>7, <2>8, <2>9, <2>10
  <2>12. QED BY <1>2, <2>11 DEF PaidInv, ExecutionsArePaid
<1>5. QED BY <1>3, <1>4

\* No execution began under the current lease that was not paid for in full, through
\* failing records, kills, other leases and restarts.
THEOREM RunsPaid == ChangesSpec => []ExecutionsArePaid
<1>1. ChangesInit => PaidInv
  BY DEF ChangesInit, AuthorityInit, PaidInv, ExecutionsArePaid, Observe
<1>2. TxInv /\ TxInv' /\ PaidInv /\ [ChangesNext]_changeVars => PaidInv'
  BY RunMoves, LeaseFollows, OldRunsPaid, NewRunPaid
<1>3. PaidInv => ExecutionsArePaid
  BY DEF PaidInv
<1>4. QED
  BY <1>1, <1>2, <1>3, TxInvariant, PTL DEF ChangesSpec

-----------------------------------------------------------------------------
(* Transactions as approvals *)

\* A transaction seen as an approval: creating it issues one, beginning to carry it
\* out uses it.
Created == {t \in Txns : txState[t] # "absent"}
Shot == INSTANCE OneShot WITH Ids <- Txns, issued <- Created, uses <- runs

\* One request creates a transaction at most, or begins one that exists and never
\* began.
LEMMA ShotFollows ==
    ASSUME TxInv, ChangesNext
    PROVE  \/ UNCHANGED <<Created, runs>>
           \/ \E t \in Txns :
                 \/ t \notin Created /\ Created' = Created \cup {t} /\ runs' = runs
                 \/ /\ t \in Created /\ Created' = Created
                    /\ runs[t] = 0 /\ runs' = [runs EXCEPT ![t] = 1]
<1>0. /\ txState \in [Txns -> TxStates] /\ runs \in [Txns -> Nat]
      /\ \A t \in Txns : txState[t] \in Unexecuted => runs[t] = 0
  BY DEF TxInv, RowTypeOK, HistoryFits
<1>1. CASE \E s \in Sessions, t \in Txns : Planning(s, t)
  <2>1. PICK s \in Sessions, t \in Txns : Planning(s, t)
    BY <1>1
  <2>2. runs' = runs
    BY <2>1
    DEF Planning, Create, Revise, SkipHost, Preview, Approve, CancelPlan, Close, historyVars
  <2>3. CASE \E p \in SUBSET Actions : Create(s, t, p)
    <3>1. t \notin Created /\ Created' = Created \cup {t}
      BY <2>3, <1>0 DEF Create, Created
    <3>2. QED BY <2>2, <3>1
  <2>4. ASSUME NEW u \in Txns, NEW p, NEW n \in 1..2, Revise(s, t, u, p, n)
        PROVE  u \notin Created /\ Created' = Created \cup {u}
    <3>1. /\ txState[u] = "absent" /\ txState[t] # "absent" /\ u # t
          /\ txState' = [txState EXCEPT ![u] = "planned",
                                        ![t] = IF n = 2 THEN "cancelled" ELSE @]
      BY <2>4 DEF Revise, Unexecuted
    <3>2. \A v \in Txns : txState'[v] # "absent" <=> txState[v] # "absent" \/ v = u
      BY <3>1, <1>0
    <3>3. QED BY <3>1, <3>2 DEF Created
  <2>5. CASE Preview(s, t) \/ Approve(s, t) \/ CancelPlan(s, t)
    <3>1. Created' = Created
      BY <2>5, <1>0
      DEF Preview, CanPreview, Handles, Approve, CancelPlan, Close, Created
    <3>2. QED BY <2>2, <3>1
  <2>6. QED
    BY <2>1, <2>2, <2>3, <2>4, <2>5 DEF Planning, SkipHost
<1>2. CASE \E s \in Sessions, t \in Txns : Carrying(s, t)
  <2>1. PICK s \in Sessions, t \in Txns : Carrying(s, t)
    BY <1>2
  <2>2. ASSUME NEW whole, NEW password, NEW open \in BOOLEAN, NEW n \in 0..4,
               Simulating(s, t, whole, password, open, n)
        PROVE  \/ UNCHANGED <<Created, runs>>
               \/ /\ t \in Created /\ Created' = Created
                  /\ runs[t] = 0 /\ runs' = [runs EXCEPT ![t] = 1]
    <3>1. txState[t] = "approved" /\ runs[t] = 0
      BY <2>2, <1>0 DEF Simulating, CanSimulate, Unexecuted
    <3>2. CASE n = 0
      BY <2>2, <3>2 DEF Simulating, Staged, rowVars, Created
    <3>3. CASE n \in 1..4
      <4>1. /\ txState' = [txState EXCEPT ![t] =
                   IF open /\ n = 2 THEN "failed" ELSE SimulatedState[n]]
            /\ runs' = [runs EXCEPT ![t] = 1]
        BY <2>2, <3>1, <3>3, <1>0 DEF Simulating, Staged
      <4>2. txState'[t] # "absent"
        BY <4>1, <3>3, <1>0 DEF SimulatedState
      <4>3. QED BY <3>1, <4>1, <4>2, <1>0 DEF Created
    <3>4. QED BY <3>2, <3>3
  <2>3. ASSUME NEW password, Advancing(s, t, password),
               AdvanceRow(t, password) \/ UNCHANGED <<rowVars, historyVars>>
        PROVE  UNCHANGED <<Created, runs>>
    BY <2>3, <1>0
    DEF Advancing, AdvanceRow, NextState, rowVars, historyVars, Created
  <2>4. CASE Accept(s, t) \/ \E n \in 1..2 : Rollback(s, t, n)
    BY <2>4, <1>0
    DEF Accept, Rollback, Handles, Close, rowVars, historyVars, Created
  <2>5. CASE CaptureOnly(s, t) \/ SimulateLocked(s, t)
    BY <2>5 DEF CaptureOnly, SimulateLocked, rowVars, historyVars, Created
  <2>6. QED
    BY <2>1, <2>2, <2>3, <2>4, <2>5
    DEF Carrying, Simulate, SimulateKilled, Advance, AdvanceKilled
<1>3. CASE UNCHANGED <<txState, runs>>
  BY <1>3 DEF Created
<1>4. QED
  BY <1>1, <1>2, <1>3
  DEF ChangesNext, SignIn, SignOut, IdleOut, ApprovalLapses, LocksLapse, OtherRequest,
      LeaseExpires, Tick, Restart, txVars, rowVars, historyVars

\* Through lost records, kills, revisions and retries a transaction keeps the promise
\* of an approval: created once, begun at most once.
THEOREM ChangesAreOneShot == ChangesSpec => Shot!ShotSpec
<1>1. ChangesInit => Shot!ShotInit
  BY DEF ChangesInit, Shot!ShotInit, Created
<1>2. TxInv /\ [ChangesNext]_changeVars => [Shot!ShotNext]_(Shot!shotVars)
  <2> SUFFICES ASSUME TxInv, [ChangesNext]_changeVars
               PROVE  [Shot!ShotNext]_(Shot!shotVars)
    OBVIOUS
  <2>1. CASE ChangesNext
    BY <2>1, ShotFollows DEF Shot!ShotNext, Shot!Issue, Shot!Use, Shot!shotVars
  <2>2. CASE UNCHANGED changeVars
    BY <2>2 DEF changeVars, txVars, rowVars, historyVars, Shot!shotVars, Created
  <2>3. QED BY <2>1, <2>2
<1>3. QED
  BY <1>1, <1>2, TxInvariant, PTL DEF ChangesSpec, Shot!ShotSpec
=============================================================================
