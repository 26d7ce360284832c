-------------------------- MODULE AuthorityProofs ----------------------------
(***************************************************************************)
(* What holds of the authority lease for every set of sessions, hosts and  *)
(* arm requests.  Each step lemma is about one action of the service and   *)
(* is reused where the service is composed with its callers.               *)
(***************************************************************************)
EXTENDS Authority, TLAPS

\* The conjuncts that are preserved together.
AuthorityInv ==
    /\ AuthorityTypeOK
    /\ ScopeStaysInLab
    /\ BudgetHolds
    /\ ArmIsOnRecord

\* Dropping the lease reaches a state that satisfies the invariant, whatever
\* the host table looks like.
LEMMA ToObserveInv ==
    ASSUME ToObserve, generation' \in Nat, env' \in [Hosts -> Environments]
    PROVE  AuthorityInv'
<1>1. lease' = Observe /\ overdue' = FALSE /\ unrecorded' = {}
  BY DEF ToObserve
<1>2. Observe \in Leases /\ Observe.mode = "observe" /\ Observe.hosts = {}
      /\ Observe.used = 0 /\ Observe.budget = 0
  BY DEF Observe, Leases, Modes, Statuses
<1>3. AuthorityTypeOK'
  BY <1>1, <1>2 DEF AuthorityTypeOK
<1>4. QED
  BY <1>1, <1>2, <1>3
  DEF AuthorityInv, ScopeStaysInLab, BudgetHolds, ArmIsOnRecord, AllLab

\* Arming installs a lease that the invariant holds of.
LEMMA ArmInv ==
    ASSUME AuthorityInv, NEW s \in Sessions, NEW r \in Requests,
           NEW stored \in BOOLEAN, Arm(s, r, stored)
    PROVE  AuthorityInv'
<1>0. r \in ArmRequest
  BY RequestsTyped
<1>1. generation' \in Nat /\ env' \in [Hosts -> Environments]
  BY DEF Arm, AuthorityInv, AuthorityTypeOK
<1>2. CASE stored
  <2>1. Install(s, r) /\ unrecorded' = {} /\ ValidArm(r) /\ env' = env
        /\ generation' = generation + 1 /\ generation \in Nat
    BY <1>2 DEF Arm, AuthorityInv, AuthorityTypeOK
  <2>2. lease' \in Leases /\ lease'.mode # "observe" /\ lease'.owner # None
        /\ lease'.gen \in 1..generation' /\ overdue' = FALSE
    BY <1>0, <2>1, NoneIsNoSession
    DEF Install, Leases, ValidArm, ArmRequest, Statuses, Modes
  <2>3. AuthorityTypeOK'
    BY <1>1, <2>1, <2>2 DEF AuthorityTypeOK
  <2>4. ScopeStaysInLab'
    BY <2>1 DEF Install, ScopeStaysInLab, ValidArm, AllLab
  <2>5. BudgetHolds'
    BY <1>0, <2>1 DEF Install, BudgetHolds, ArmRequest
  <2>6. QED BY <2>1, <2>3, <2>4, <2>5 DEF AuthorityInv, ArmIsOnRecord
<1>3. CASE ~stored
  BY <1>1, <1>3, ToObserveInv DEF Arm
<1>4. QED BY <1>2, <1>3

\* Pausing and resuming change nothing but the status.
LEMMA PauseResumeInv ==
    ASSUME AuthorityInv, NEW s \in Sessions, NEW stored \in BOOLEAN,
           Pause(s, stored) \/ Resume(s, stored)
    PROVE  AuthorityInv'
<1>1. PICK st \in {"active", "paused"} : lease' = [lease EXCEPT !.status = st]
  BY DEF Pause, Resume
<1>2. lease.mode # "observe"
  BY DEF Pause, Resume, AuthorityInv, AuthorityTypeOK, Observe
<1>3. /\ overdue' = overdue /\ generation' = generation /\ env' = env
      /\ unrecorded' \subseteq {"armed", "paused", "resumed"}
      /\ "armed" \notin unrecorded'
  BY DEF Pause, Resume, Note, AuthorityInv, AuthorityTypeOK, ArmIsOnRecord
<1>4. lease' \in Leases /\ lease'.mode = lease.mode /\ lease'.gen = lease.gen
      /\ lease'.owner = lease.owner /\ lease'.hosts = lease.hosts
      /\ lease'.caps = lease.caps /\ lease'.used = lease.used
      /\ lease'.budget = lease.budget
  BY <1>1 DEF AuthorityInv, AuthorityTypeOK, Leases, Statuses
<1>5. AuthorityTypeOK'
  BY <1>2, <1>3, <1>4 DEF AuthorityInv, AuthorityTypeOK
<1>6. QED
  BY <1>3, <1>4, <1>5
  DEF AuthorityInv, ScopeStaysInLab, BudgetHolds, ArmIsOnRecord, AllLab

\* Spending within the budget keeps the invariant.
LEMMA SpendInv ==
    ASSUME AuthorityInv, NEW n \in Nat, lease.mode # "observe", CanSpend(n), Spend(n),
           UNCHANGED <<generation, env>>
    PROVE  AuthorityInv'
<1>1. lease' = [lease EXCEPT !.used = lease.used + n] /\ lease \in Leases
  BY DEF Spend, AuthorityInv, AuthorityTypeOK
<1>2. lease' \in Leases /\ lease'.mode = lease.mode /\ lease'.gen = lease.gen
      /\ lease'.owner = lease.owner /\ lease'.hosts = lease.hosts
      /\ lease'.caps = lease.caps /\ lease'.used = lease.used + n
      /\ lease'.budget = lease.budget
  BY <1>1 DEF Leases
<1>3. AuthorityTypeOK'
  BY <1>2 DEF Spend, AuthorityInv, AuthorityTypeOK
<1>4. QED
  BY <1>2, <1>3
  DEF Spend, CanSpend, AuthorityInv, ScopeStaysInLab, BudgetHolds, ArmIsOnRecord, AllLab

\* A host entry changes: the lease that covers it is dropped, any other lease
\* keeps its hosts as they were.
LEMMA ReplaceHostInv ==
    ASSUME AuthorityInv, NEW h \in Hosts, NEW e \in Environments, ReplaceHost(h, e)
    PROVE  AuthorityInv'
<1>1. generation' \in Nat /\ env' \in [Hosts -> Environments]
  BY DEF ReplaceHost, AuthorityInv, AuthorityTypeOK
<1>2. CASE h \in lease.hosts
  BY <1>1, <1>2, ToObserveInv DEF ReplaceHost
<1>3. CASE h \notin lease.hosts
  <2>1. SameLease /\ env' = [env EXCEPT ![h] = e] /\ generation' = generation
    BY <1>3 DEF ReplaceHost
  <2>2. AuthorityTypeOK'
    BY <1>1, <2>1 DEF AuthorityInv, AuthorityTypeOK, SameLease
  <2>3. AllLab(lease.hosts) => AllLab(lease.hosts)'
    BY <1>3, <2>1 DEF AllLab, SameLease, AuthorityInv, AuthorityTypeOK, Leases
  <2>4. QED
    BY <2>1, <2>2, <2>3
    DEF AuthorityInv, ScopeStaysInLab, BudgetHolds, ArmIsOnRecord, SameLease
<1>4. QED BY <1>2, <1>3

\* Every request to the service preserves the invariant.
LEMMA AuthorityRequestInv == AuthorityInv /\ AuthorityRequest => AuthorityInv'
<1> SUFFICES ASSUME AuthorityInv, AuthorityRequest PROVE AuthorityInv'
  OBVIOUS
<1>0. generation \in Nat /\ env \in [Hosts -> Environments]
  BY DEF AuthorityInv, AuthorityTypeOK
<1>1. CASE \E s \in Sessions, r \in Requests, stored \in BOOLEAN : Arm(s, r, stored)
  BY <1>1, ArmInv
<1>2. CASE \E s \in Sessions, stored \in BOOLEAN : Pause(s, stored)
  BY <1>2, PauseResumeInv
<1>3. CASE \E s \in Sessions, stored \in BOOLEAN : Resume(s, stored)
  BY <1>3, PauseResumeInv
<1>4. CASE \E s \in Sessions, emergency \in BOOLEAN : Stop(s, emergency)
  BY <1>0, <1>4, ToObserveInv DEF Stop
<1>5. CASE \E s \in Sessions : StopSession(s)
  BY <1>0, <1>5, ToObserveInv DEF StopSession
<1>6. CASE NoticeExpiry
  BY <1>0, <1>6, ToObserveInv DEF NoticeExpiry
<1>7. CASE \E h \in Hosts, e \in Environments : ReplaceHost(h, e)
  BY <1>7, ReplaceHostInv
<1>8. CASE \E s \in Sessions, n \in 1..lease.budget : Consume(s, n)
  <2>1. PICK s \in Sessions, n \in 1..lease.budget : Consume(s, n)
    BY <1>8
  <2>2. lease.mode # "observe"
    BY <2>1, NoneIsNoSession
    DEF Consume, ActiveFor, AuthorityInv, AuthorityTypeOK, Observe
  <2>3. QED BY <2>1, <2>2, SpendInv DEF Consume
<1>9. QED
  BY <1>1, <1>2, <1>3, <1>4, <1>5, <1>6, <1>7, <1>8 DEF AuthorityRequest, SessionRequest

\* The clock and a restart preserve it too.
LEMMA ExpireInv == AuthorityInv /\ Expire => AuthorityInv'
  BY DEF Expire, AuthorityInv, AuthorityTypeOK, ScopeStaysInLab, BudgetHolds,
         ArmIsOnRecord, AllLab

LEMMA ForgetLeaseInv == AuthorityInv /\ ForgetLease => AuthorityInv'
<1> SUFFICES ASSUME AuthorityInv, ForgetLease PROVE AuthorityInv'
  OBVIOUS
<1>1. ToObserve /\ generation' \in Nat /\ env' \in [Hosts -> Environments]
  BY DEF ForgetLease, AuthorityInv, AuthorityTypeOK
<1>2. QED BY <1>1, ToObserveInv

LEMMA AuthorityInitInv == AuthorityInit => AuthorityInv
<1>1. Observe \in Leases /\ Observe.mode = "observe" /\ Observe.hosts = {}
      /\ Observe.used = 0 /\ Observe.budget = 0
  BY DEF Observe, Leases, Modes, Statuses
<1> SUFFICES ASSUME AuthorityInit PROVE AuthorityInv
  OBVIOUS
<1>2. AuthorityTypeOK
  BY <1>1 DEF AuthorityInit, AuthorityTypeOK
<1>3. QED
  BY <1>1, <1>2
  DEF AuthorityInit, AuthorityInv, ScopeStaysInLab, BudgetHolds, ArmIsOnRecord, AllLab

LEMMA AuthorityStutterInv == AuthorityInv /\ UNCHANGED authorityVars => AuthorityInv'
  BY DEF authorityVars, AuthorityInv, AuthorityTypeOK, ScopeStaysInLab, BudgetHolds,
         ArmIsOnRecord, AllLab

\* The types of the lease, its scope in the lab, its budget and the record of its
\* arming hold in every reachable state of the service.
THEOREM AuthorityInvariant == AuthoritySpec => []AuthorityInv
<1>1. AuthorityInv /\ [AuthorityNext]_authorityVars => AuthorityInv'
  BY AuthorityRequestInv, ExpireInv, ForgetLeaseInv, AuthorityStutterInv DEF AuthorityNext
<1>2. QED BY <1>1, AuthorityInitInv, PTL DEF AuthoritySpec

\* A lease of an unattended mode, or with host scripts, only ever covers enrolled
\* lab machines: the environment check inside authorize never fires.
THEOREM LabScope == AuthoritySpec => []ScopeStaysInLab
<1>1. AuthorityInv => ScopeStaysInLab BY DEF AuthorityInv
<1>2. QED BY <1>1, AuthorityInvariant, PTL

\* The actions paid for under a lease never exceed the budget it was armed with.
THEOREM Budget == AuthoritySpec => []BudgetHolds
<1>1. AuthorityInv => BudgetHolds BY DEF AuthorityInv
<1>2. QED BY <1>1, AuthorityInvariant, PTL

\* What one step can do to an existing lease: drop it, leave it, move its status,
\* or spend more of its budget.
LEMMA LeaseStep ==
    ASSUME AuthorityInv, AuthorityNext, lease.mode # "observe"
    PROVE  \/ lease' = Observe
           \/ lease' = lease
           \/ ~overdue /\ \E n \in Nat : lease' = [lease EXCEPT !.used = lease.used + n]
           \/ lease.status = "active" /\ lease' = [lease EXCEPT !.status = "paused"]
           \/ ~overdue /\ lease' = [lease EXCEPT !.status = "active"]
<1>1. CASE \E s \in Sessions, n \in 1..lease.budget : Consume(s, n)
  BY <1>1 DEF Consume, ActiveFor, Spend
<1>2. CASE \E s \in Sessions, stored \in BOOLEAN : Pause(s, stored) \/ Resume(s, stored)
  BY <1>2 DEF Pause, Resume
<1>3. CASE Expire \/ ForgetLease \/ NoticeExpiry
  BY <1>3 DEF Expire, ForgetLease, NoticeExpiry, ToObserve
<1>4. CASE \E h \in Hosts, e \in Environments : ReplaceHost(h, e)
  BY <1>4 DEF ReplaceHost, ToObserve, SameLease
<1>5. CASE \/ \E s \in Sessions, emergency \in BOOLEAN : Stop(s, emergency)
           \/ \E s \in Sessions : StopSession(s)
  BY <1>5 DEF Stop, StopSession, ToObserve
<1>6. CASE \E s \in Sessions, r \in Requests, stored \in BOOLEAN : Arm(s, r, stored)
  BY <1>6 DEF Arm
<1>7. QED
  BY <1>1, <1>2, <1>3, <1>4, <1>5, <1>6 DEF AuthorityNext, AuthorityRequest, SessionRequest

\* Generations tell leases apart: a step drops the lease, keeps it without a refund,
\* or installs one with a generation that was never used.
LEMMA GenerationStep ==
    ASSUME AuthorityInv, [AuthorityNext]_authorityVars
    PROVE  \/ lease' = Observe /\ generation' \in {generation, generation + 1}
           \/ /\ lease.mode # "observe" /\ generation' = generation
              /\ lease'.gen = lease.gen /\ lease'.used >= lease.used
           \/ lease'.gen = generation + 1 /\ generation' = generation + 1
<1>0. lease \in Leases /\ lease.used \in Nat
      /\ (lease.mode = "observe" => lease = Observe /\ ~overdue)
  BY DEF AuthorityInv, AuthorityTypeOK, Leases
<1>1. CASE \E s \in Sessions, r \in Requests, stored \in BOOLEAN : Arm(s, r, stored)
  BY <1>1 DEF Arm, Install, ToObserve
<1>2. CASE ~\E s \in Sessions, r \in Requests, stored \in BOOLEAN : Arm(s, r, stored)
  <2>1. generation' = generation
    BY <1>2
    DEF AuthorityNext, AuthorityRequest, SessionRequest, Pause, Resume, Stop, StopSession,
        NoticeExpiry, ReplaceHost, Consume, Expire, ForgetLease, authorityVars
  <2>2. CASE lease.mode # "observe" /\ AuthorityNext
    BY <1>0, <2>1, <2>2, LeaseStep DEF Leases
  <2>3. CASE lease.mode = "observe" /\ AuthorityNext
    <3>1. lease' \in {lease, Observe}
      BY <1>0, <1>2, <2>3, NoneIsNoSession
      DEF AuthorityNext, AuthorityRequest, SessionRequest, Pause, Resume, Stop, StopSession,
          NoticeExpiry, ReplaceHost, Consume, ActiveFor, Expire, ForgetLease, ToObserve,
          SameLease, Observe
    <3>2. QED BY <1>0, <2>1, <2>3, <3>1
  <2>4. CASE UNCHANGED authorityVars
    BY <1>0, <2>4 DEF authorityVars
  <2>5. QED BY <2>2, <2>3, <2>4
<1>3. QED BY <1>1, <1>2

\* A lease keeps the scope, owner and budget it was armed with until it is dropped.
THEOREM GrantFixed == AuthoritySpec => GrantIsFixed
<1> DEFINE Kept == lease.mode # "observe" =>
                     \/ lease' = Observe
                     \/ /\ lease'.used >= lease.used
                        /\ lease' = [lease EXCEPT !.used = lease'.used,
                                                  !.status = lease'.status]
<1>1. AuthorityInv /\ [AuthorityNext]_authorityVars => [Kept]_authorityVars
  <2> SUFFICES ASSUME AuthorityInv, AuthorityNext, lease.mode # "observe",
                      lease' # Observe
               PROVE  /\ lease'.used >= lease.used
                      /\ lease' = [lease EXCEPT !.used = lease'.used,
                                                !.status = lease'.status]
    OBVIOUS
  <2>1. lease \in Leases
    BY DEF AuthorityInv, AuthorityTypeOK
  <2>2. CASE lease' = lease
    <3>1. lease.used \in Nat /\ lease' = [lease EXCEPT !.used = lease.used,
                                                     !.status = lease.status]
      BY <2>1, <2>2 DEF Leases
    <3>2. QED BY <2>2, <3>1
  <2>3. CASE \E n \in Nat : lease' = [lease EXCEPT !.used = lease.used + n]
    <3>1. PICK n \in Nat : lease' = [lease EXCEPT !.used = lease.used + n]
      BY <2>3
    <3>2. lease'.used = lease.used + n /\ lease'.status = lease.status
      BY <2>1, <3>1 DEF Leases
    <3>3. lease' = [lease EXCEPT !.used = lease'.used, !.status = lease'.status]
      BY <2>1, <3>1, <3>2 DEF Leases
    <3>4. QED BY <2>1, <3>2, <3>3 DEF Leases
  <2>4. CASE \E st \in Statuses : lease' = [lease EXCEPT !.status = st]
    <3>1. PICK st \in Statuses : lease' = [lease EXCEPT !.status = st]
      BY <2>4
    <3>2. lease'.used = lease.used /\ lease'.status = st
      BY <2>1, <3>1 DEF Leases
    <3>3. lease' = [lease EXCEPT !.used = lease'.used, !.status = lease'.status]
      BY <2>1, <3>1, <3>2 DEF Leases
    <3>4. QED BY <2>1, <3>2, <3>3 DEF Leases
  <2>5. QED
    BY <2>2, <2>3, <2>4, LeaseStep DEF Statuses
<1>2. QED
  BY <1>1, AuthorityInvariant, PTL DEF AuthoritySpec, GrantIsFixed

\* After its deadline a lease pays for nothing and is not resumed.
THEOREM ExpiredIsWorthless == AuthoritySpec => NothingAfterExpiry
<1> DEFINE Worthless == overdue =>
                          \/ lease' = Observe
                          \/ lease'.used = lease.used
                             /\ (lease'.status = "active" => lease.status = "active")
<1>1. AuthorityInv /\ [AuthorityNext]_authorityVars => [Worthless]_authorityVars
  <2> SUFFICES ASSUME AuthorityInv, AuthorityNext, overdue, lease' # Observe
               PROVE  /\ lease'.used = lease.used
                      /\ lease'.status = "active" => lease.status = "active"
    OBVIOUS
  <2>1. lease \in Leases /\ lease.mode # "observe"
    BY DEF AuthorityInv, AuthorityTypeOK
  <2>2. QED
    BY <2>1, LeaseStep DEF Leases
<1>2. QED
  BY <1>1, AuthorityInvariant, PTL DEF AuthoritySpec, NothingAfterExpiry

\* In every state the lease is well formed, within the lab and within its budget.
THEOREM LeaseSound == AuthoritySpec => []LeaseHolds
<1>1. AuthorityInv => LeaseHolds
  BY DEF AuthorityInv, LeaseHolds
<1>2. QED BY <1>1, AuthorityInvariant, PTL

\* Over time it is neither changed nor outlived.
THEOREM GrantSound == AuthoritySpec => GrantHolds
  BY GrantFixed, ExpiredIsWorthless, PTL DEF GrantHolds

\* No lease is armed without its audit record, since a failing append disarms it.
THEOREM ArmRecorded == AuthoritySpec => []ArmIsOnRecord
<1>1. AuthorityInv => ArmIsOnRecord
  BY DEF AuthorityInv
<1>2. QED BY <1>1, AuthorityInvariant, PTL
=============================================================================
