--------------------------- MODULE ApprovalsProofs ----------------------------
(***************************************************************************)
(* What holds of restarts and backups for every set of sessions, hosts,    *)
(* leases and tickets, and every capacity.  The invariant of the lease is  *)
(* the one of AuthorityProofs: the composition adds no step to it.         *)
(***************************************************************************)
EXTENDS Approvals, AuthorityProofs, FiniteSetTheorems

\* A ticket whose token was never used has sent nothing.
UnusedIsUnsent ==
    \A t \in Tickets : stage[t] \in {"none", "looking", "open"} => sent[t] = 0

\* What Store leaves behind: only the token of t is new, and t is the only
\* ticket whose stage moves.
LEMMA StoreEffect ==
    ASSUME ApprovalsTypeOK, NEW t \in Tickets, t \notin approvals, Store(t, ticket[t])
    PROVE  /\ approvals' \subseteq approvals \cup {t}
           /\ stage' \in [Tickets -> Stages]
           /\ t \in approvals' => stage'[t] = "open"
           /\ \A u \in Tickets : u # t => stage'[u] = stage[u]
BY DEF Store, ApprovalsTypeOK, Stages

-----------------------------------------------------------------------------
(* Types *)

\* The steps of the composition keep the invariant of the lease.
LEMMA LeaseKept == AuthorityInv /\ [Next]_vars => AuthorityInv'
<1> SUFFICES ASSUME AuthorityInv, [Next]_vars PROVE AuthorityInv'
  OBVIOUS
<1>1. CASE UNCHANGED authorityVars
  BY <1>1, AuthorityStutterInv
<1>2. CASE \E h \in Hosts, e \in Environments : ReplaceHost(h, e)
  BY <1>2, AuthorityRequestInv DEF AuthorityRequest
<1>3. CASE LeaseMoves
  BY <1>3, AuthorityRequestInv, ExpireInv DEF LeaseMoves, AuthorityRequest
<1>4. CASE Restart
  BY <1>4, ForgetLeaseInv DEF Restart
<1>5. QED
  BY <1>1, <1>2, <1>3, <1>4
  DEF Next, Preview, PreviewRestart, IssueRestart, PreviewFails, PreviewBackup,
      Run, Execute, Answer, End, Lapse, ChangeHost, vars

\* env changes only in ChangeHost.
LEMMA TablesKept ==
    ASSUME ApprovalsTypeOK, [Next]_vars
    PROVE  /\ table' \in [Hosts -> Policies]
           /\ \A h \in Hosts : env'[h] = "absent" => table'[h] = {}
<1>1. ASSUME NEW h \in Hosts, NEW e \in Environments, NEW policy \in Policies,
             ChangeHost(h, e, policy)
      PROVE  /\ table' \in [Hosts -> Policies]
             /\ \A g \in Hosts : env'[g] = "absent" => table'[g] = {}
  <2>1. {} \in Policies
    BY DEF Policies
  <2>2. table' \in [Hosts -> Policies]
    <3>1. CASE e = "absent"
      BY <1>1, <2>1, <3>1 DEF ChangeHost, ApprovalsTypeOK
    <3>2. CASE e # "absent" /\ env[h] = "absent"
      BY <1>1, <3>2 DEF ChangeHost, ApprovalsTypeOK
    <3>3. CASE e # "absent" /\ env[h] # "absent"
      BY <1>1, <3>3 DEF ChangeHost, ApprovalsTypeOK
    <3>4. QED BY <3>1, <3>2, <3>3
  <2>3. \A g \in Hosts : g # h => env'[g] = env[g] /\ table'[g] = table[g]
    BY <1>1 DEF ChangeHost, ReplaceHost, ApprovalsTypeOK, AuthorityTypeOK
  <2>4. env'[h] = e /\ (e = "absent" => table'[h] = {})
    BY <1>1 DEF ChangeHost, ReplaceHost, ApprovalsTypeOK, AuthorityTypeOK
  <2>5. QED
    BY <2>2, <2>3, <2>4 DEF ApprovalsTypeOK
<1>2. CASE UNCHANGED <<env, table>>
  BY <1>2 DEF ApprovalsTypeOK
<1>3. CASE LeaseMoves
  BY <1>3, <1>2
  DEF LeaseMoves, SessionRequest, StopSession, Consume, NoticeExpiry, Expire,
      Arm, Pause, Resume, Stop
<1>4. CASE Restart
  BY <1>4, <1>2 DEF Restart, ForgetLease
<1>5. QED
  BY <1>1, <1>2, <1>3, <1>4
  DEF Next, Preview, PreviewRestart, IssueRestart, PreviewFails, PreviewBackup,
      Run, Execute, Answer, End, Lapse, vars, authorityVars

\* The conjuncts about tickets alone.
TicketsOK ==
    /\ ticket \in [Tickets -> Wish]
    /\ stage \in [Tickets -> Stages]
    /\ approvals \subseteq Tickets /\ late \subseteq Tickets /\ logged \subseteq Tickets
    /\ sent \in [Tickets -> Nat]
    /\ \A t \in approvals : stage[t] = "open"

LEMMA TicketsKept ==
    ASSUME ApprovalsTypeOK, [Next]_vars
    PROVE  TicketsOK'
<1> USE DEF ApprovalsTypeOK, TicketsOK
<1>1. ASSUME NEW t \in Tickets, PreviewRestart(t) \/ PreviewFails(t) \/ Answer(t) \/ End(t)
      PROVE  TicketsOK'
  BY <1>1 DEF PreviewRestart, PreviewFails, Answer, End, Stages
<1>2. ASSUME NEW t \in Tickets, IssueRestart(t) \/ PreviewBackup(t)
      PROVE  TicketsOK'
  <2>1. t \notin approvals /\ Store(t, ticket[t]) /\ UNCHANGED <<ticket, late, sent, logged>>
    BY <1>2 DEF IssueRestart, PreviewBackup
  <2>2. QED
    BY <2>1, StoreEffect
<1>3. ASSUME NEW t \in Tickets, NEW s \in Sessions, NEW stored \in BOOLEAN,
             Execute(t, s, stored)
      PROVE  TicketsOK'
  BY <1>3 DEF Execute, Send, InTable, Stages
<1>4. ASSUME NEW t \in Tickets, Lapse(t)
      PROVE  TicketsOK'
  BY <1>4 DEF Lapse
<1>5. CASE Restart
  BY <1>5 DEF Restart, Stages
<1>6. CASE UNCHANGED approvalVars
  BY <1>6 DEF approvalVars
<1>7. QED
  BY <1>1, <1>2, <1>3, <1>4, <1>5, <1>6
  DEF Next, Preview, Run, ChangeHost, LeaseMoves, vars

\* The composition is well typed, and a token is in a table only while it can
\* still be used.
THEOREM ApprovalsTyping == Spec => [](AuthorityInv /\ ApprovalsTypeOK)
<1>1. Init => AuthorityInv /\ ApprovalsTypeOK
  <2> SUFFICES ASSUME Init PROVE AuthorityInv /\ ApprovalsTypeOK
    OBVIOUS
  <2>1. AuthorityInv
    BY AuthorityInitInv DEF Init
  <2>2. ApprovalsTypeOK
    BY <2>1 DEF Init, InitApprovals, AuthorityInv, ApprovalsTypeOK, Stages
  <2>3. QED BY <2>1, <2>2
<1>2. AuthorityInv /\ ApprovalsTypeOK /\ [Next]_vars => (AuthorityInv /\ ApprovalsTypeOK)'
  BY LeaseKept, TablesKept, TicketsKept DEF AuthorityInv, ApprovalsTypeOK, TicketsOK
<1>3. QED
  BY <1>1, <1>2, PTL DEF Spec

-----------------------------------------------------------------------------
(* One use *)

LEMMA UseKept ==
    ASSUME ApprovalsTypeOK, UnusedIsUnsent, OneUse, SentIsLogged, [Next]_vars
    PROVE  UnusedIsUnsent' /\ OneUse' /\ SentIsLogged'
<1> USE DEF UnusedIsUnsent, OneUse, SentIsLogged
<1>1. ASSUME NEW t \in Tickets, PreviewRestart(t) \/ PreviewFails(t) \/ Answer(t) \/ End(t)
      PROVE  UnusedIsUnsent' /\ OneUse' /\ SentIsLogged'
  BY <1>1 DEF PreviewRestart, PreviewFails, Answer, End, ApprovalsTypeOK
<1>2. ASSUME NEW t \in Tickets, IssueRestart(t) \/ PreviewBackup(t)
      PROVE  UnusedIsUnsent' /\ OneUse' /\ SentIsLogged'
  <2>1. sent[t] = 0 /\ UNCHANGED <<sent, logged>>
    BY <1>2 DEF IssueRestart, PreviewBackup
  <2>2. \A u \in Tickets : u # t => stage'[u] = stage[u]
    BY <1>2, StoreEffect DEF IssueRestart, PreviewBackup, ApprovalsTypeOK
  <2>3. QED BY <2>1, <2>2
<1>3. ASSUME NEW t \in Tickets, NEW s \in Sessions, NEW stored \in BOOLEAN,
             Execute(t, s, stored)
      PROVE  UnusedIsUnsent' /\ OneUse' /\ SentIsLogged'
  <2>1. sent[t] = 0
    BY <1>3 DEF Execute, InTable, ApprovalsTypeOK
  <2>2. QED
    BY <1>3, <2>1 DEF Execute, Send, ApprovalsTypeOK
<1>4. CASE Restart
  BY <1>4 DEF Restart
<1>5. CASE UNCHANGED <<stage, sent, logged>>
  BY <1>5
<1>6. QED
  BY <1>1, <1>2, <1>3, <1>4, <1>5
  DEF Next, Preview, Run, Lapse, ChangeHost, LeaseMoves, approvalVars, vars

\* An approval runs one command at most, and never one without a record.
THEOREM ApprovalsAreSpent == Spec => [](OneUse /\ SentIsLogged)
<1>1. Init => UnusedIsUnsent /\ OneUse /\ SentIsLogged
  BY DEF Init, InitApprovals, UnusedIsUnsent, OneUse, SentIsLogged
<1>2. ApprovalsTypeOK /\ (UnusedIsUnsent /\ OneUse /\ SentIsLogged) /\ [Next]_vars
        => (UnusedIsUnsent /\ OneUse /\ SentIsLogged)'
  BY UseKept
<1>3. QED
  BY <1>1, <1>2, ApprovalsTyping, PTL DEF Spec

-----------------------------------------------------------------------------
(* Grants *)

\* A command is sent by Execute alone, which asks the lease, the host table and
\* the clock in the same step.
THEOREM CommandsAreGranted == Spec => SentUnderGrant
<1> DEFINE Granting(t) ==
        /\ lease.status = "active" /\ ~overdue
        /\ lease.owner = ticket[t].session
        /\ ticket[t].host \in lease.hosts
        /\ CapabilityOf(ticket[t].kind) \in lease.caps
        /\ Allowed(ticket[t])
        /\ t \notin late
<1>1. ApprovalsTypeOK /\ [Next]_vars =>
        [\A t \in Tickets : sent'[t] > sent[t] => Granting(t)]_vars
  <2> SUFFICES ASSUME ApprovalsTypeOK, [Next]_vars, NEW t \in Tickets, sent'[t] > sent[t]
               PROVE  Granting(t)
    OBVIOUS
  <2>1. ASSUME NEW u \in Tickets, NEW s \in Sessions, NEW stored \in BOOLEAN,
               Execute(u, s, stored)
        PROVE  Granting(t)
    <3>1. u = t /\ Allowed(ticket[t])
      BY <2>1 DEF Execute, Send, ApprovalsTypeOK
    <3>2. QED
      BY <2>1, <3>1 DEF Execute, InTable, Granted, Authorized, ActiveFor, InScope
  <2>2. CASE UNCHANGED sent
    BY <2>2 DEF ApprovalsTypeOK
  <2>3. QED
    BY <2>1, <2>2
    DEF Next, Preview, PreviewRestart, IssueRestart, PreviewFails, PreviewBackup,
        Run, Answer, End, Lapse, ChangeHost, LeaseMoves, Restart, approvalVars, vars
<1>2. QED
  BY <1>1, ApprovalsTyping, PTL DEF Spec, SentUnderGrant

-----------------------------------------------------------------------------
(* Capacity *)

\* Fewer tokens of the same tickets stay within the capacity.
LEMMA FewerFit ==
    ASSUME ApprovalsTypeOK, PendingFits, UNCHANGED ticket, approvals' \subseteq approvals
    PROVE  PendingFits'
<1> SUFFICES ASSUME NEW kind \in Kinds
             PROVE  Cardinality(OfKind(kind, approvals)') <= MaxPending
  BY DEF PendingFits
<1>1. OfKind(kind, approvals)' \subseteq OfKind(kind, approvals)
  BY DEF OfKind
<1>2. IsFiniteSet(OfKind(kind, approvals))
  BY TicketsFinite, FS_Subset DEF OfKind, ApprovalsTypeOK
<1>3. /\ Cardinality(OfKind(kind, approvals)') <= Cardinality(OfKind(kind, approvals))
      /\ Cardinality(OfKind(kind, approvals)) \in Nat
      /\ Cardinality(OfKind(kind, approvals)') \in Nat
  BY <1>1, <1>2, FS_Subset, FS_CardinalityType
<1>4. Cardinality(OfKind(kind, approvals)) <= MaxPending
  BY DEF PendingFits
<1>5. QED
  BY <1>3, <1>4, PendingBounded

\* A new approval is stored only where there is room for it.
LEMMA StoreFits ==
    ASSUME ApprovalsTypeOK, PendingFits, UNCHANGED ticket,
           NEW t \in Tickets, Store(t, ticket[t])
    PROVE  PendingFits'
<1> DEFINE rest == approvals \ (OfKind(ticket[t].kind, approvals) \cap late)
<1>1. CASE approvals' = rest
  BY <1>1, FewerFit
<1>2. CASE /\ approvals' = rest \cup {t}
           /\ ~(Cardinality(OfKind(ticket[t].kind, rest)) >= MaxPending)
  <2> SUFFICES ASSUME NEW kind \in Kinds
               PROVE  Cardinality(OfKind(kind, approvals)') <= MaxPending
    BY DEF PendingFits
  <2>0. IsFiniteSet(OfKind(kind, rest)) /\ IsFiniteSet(OfKind(kind, approvals))
    BY TicketsFinite, FS_Subset DEF OfKind, ApprovalsTypeOK
  <2>1. CASE kind = ticket[t].kind
    <3>1. OfKind(kind, approvals)' = OfKind(kind, rest) \cup {t}
      BY <1>2, <2>1 DEF OfKind
    <3>2. /\ Cardinality(OfKind(kind, rest)) \in Nat
          /\ \/ Cardinality(OfKind(kind, rest) \cup {t}) = Cardinality(OfKind(kind, rest))
             \/ Cardinality(OfKind(kind, rest) \cup {t}) = Cardinality(OfKind(kind, rest)) + 1
      BY <2>0, FS_AddElement, FS_CardinalityType
    <3>3. ~(Cardinality(OfKind(kind, rest)) >= MaxPending)
      BY <1>2, <2>1
    <3>4. QED
      BY <3>1, <3>2, <3>3, PendingBounded
  <2>2. CASE kind # ticket[t].kind
    <3>1. OfKind(kind, approvals)' = OfKind(kind, approvals)
      BY <1>2, <2>2 DEF OfKind
    <3>2. QED
      BY <3>1 DEF PendingFits
  <2>3. QED BY <2>1, <2>2
<1>3. QED
  BY <1>1, <1>2 DEF Store

\* The tables of approvals stay within their capacity, whatever overlaps.
THEOREM CapacityHolds == Spec => []PendingFits
<1>1. Init => PendingFits
  <2> SUFFICES ASSUME Init, NEW kind \in Kinds
               PROVE  Cardinality(OfKind(kind, approvals)) <= MaxPending
    BY DEF PendingFits
  <2>1. OfKind(kind, approvals) = {}
    BY DEF Init, InitApprovals, OfKind
  <2>2. QED
    BY <2>1, FS_EmptySet, PendingBounded
<1>2. ApprovalsTypeOK /\ PendingFits /\ [Next]_vars => PendingFits'
  <2> SUFFICES ASSUME ApprovalsTypeOK, PendingFits, [Next]_vars PROVE PendingFits'
    OBVIOUS
  <2>1. ASSUME NEW t \in Tickets, IssueRestart(t) \/ PreviewBackup(t)
        PROVE  PendingFits'
    BY <2>1, StoreFits DEF IssueRestart, PreviewBackup
  <2>2. CASE UNCHANGED ticket /\ approvals' \subseteq approvals
    BY <2>2, FewerFit
  <2>3. QED
    BY <2>1, <2>2
    DEF Next, Preview, PreviewRestart, PreviewFails, Run, Execute, Answer, End, Lapse,
        ChangeHost, LeaseMoves, Restart, approvalVars, vars
<1>3. QED
  BY <1>1, <1>2, ApprovalsTyping, PTL DEF Spec

\* The tables are well formed and within capacity, and each approval is spent once
\* and on record.
THEOREM ApprovalsSound == Spec => []ApprovalsHold
<1>1. ApprovalsTypeOK /\ OneUse /\ PendingFits /\ SentIsLogged => ApprovalsHold
  BY DEF ApprovalsHold
<1>2. QED BY <1>1, ApprovalsTyping, ApprovalsAreSpent, CapacityHolds, PTL

-----------------------------------------------------------------------------
(* What the approvals are built on *)

\* Restarts, backups and the changes of the host table use the lease as the authority
\* service allows it.
THEOREM ApprovalsUseLease == Spec => AuthoritySpec
<1>1. Init => AuthorityInit
  BY DEF Init
<1>2. [Next]_vars => [AuthorityNext]_authorityVars
  <2> SUFFICES ASSUME [Next]_vars PROVE [AuthorityNext]_authorityVars
    OBVIOUS
  <2>1. CASE UNCHANGED authorityVars
    BY <2>1
  <2>2. CASE \E h \in Hosts, e \in Environments : ReplaceHost(h, e)
    BY <2>2 DEF AuthorityNext, AuthorityRequest
  <2>3. CASE LeaseMoves
    BY <2>3 DEF LeaseMoves, AuthorityNext, AuthorityRequest
  <2>4. CASE Restart
    BY <2>4 DEF Restart, AuthorityNext
  <2>5. QED
    BY <2>1, <2>2, <2>3, <2>4
    DEF Next, Preview, PreviewRestart, IssueRestart, PreviewFails, PreviewBackup,
        Run, Execute, Answer, End, Lapse, ChangeHost, vars
<1>3. QED
  BY <1>1, <1>2, PTL DEF Spec, AuthoritySpec

\* The tickets whose preview was answered, and the promise of OneShot for them: asking
\* for a preview issues an approval, sending the command uses it.
Asked == {t \in Tickets : stage[t] # "none"}
Shot == INSTANCE OneShot WITH Ids <- Tickets, issued <- Asked, uses <- sent

\* Whatever overlaps, an approval is issued once and sends one command at most.
THEOREM ApprovalsAreOneShot == Spec => Shot!ShotSpec
<1>1. Init => Shot!ShotInit
  BY DEF Init, InitApprovals, Shot!ShotInit, Asked
<1>2. ApprovalsTypeOK /\ UnusedIsUnsent /\ [Next]_vars => [Shot!ShotNext]_(Shot!shotVars)
  <2> SUFFICES ASSUME ApprovalsTypeOK, UnusedIsUnsent, [Next]_vars
               PROVE  \/ \E t \in Tickets : Shot!Issue(t) \/ Shot!Use(t)
                      \/ UNCHANGED <<Asked, sent>>
    BY DEF Shot!ShotNext, Shot!shotVars
  <2>0. stage \in [Tickets -> Stages] /\ sent \in [Tickets -> Nat]
    BY DEF ApprovalsTypeOK
  <2>1. ASSUME NEW t \in Tickets, PreviewRestart(t) \/ PreviewBackup(t)
        PROVE  Shot!Issue(t)
    <3>1. stage[t] = "none" /\ sent' = sent
      BY <2>1 DEF PreviewRestart, PreviewBackup
    <3>2. stage'[t] # "none" /\ \A u \in Tickets : u # t => stage'[u] = stage[u]
      BY <2>0, <2>1 DEF PreviewRestart, PreviewBackup, Store
    <3>3. t \notin Asked /\ Asked' = Asked \cup {t}
      BY <3>1, <3>2 DEF Asked
    <3>4. QED BY <3>1, <3>3 DEF Shot!Issue
  <2>2. ASSUME NEW t \in Tickets, NEW s \in Sessions, NEW stored \in BOOLEAN,
               Execute(t, s, stored)
        PROVE  Shot!Use(t) \/ UNCHANGED <<Asked, sent>>
    <3>1. stage[t] = "open" /\ sent[t] = 0
      BY <2>2 DEF Execute, InTable, ApprovalsTypeOK, UnusedIsUnsent
    <3>2. stage' \in {[stage EXCEPT ![t] = "acting"], [stage EXCEPT ![t] = "done"]}
          /\ sent' \in {sent, [sent EXCEPT ![t] = 1]}
      BY <2>0, <2>2, <3>1 DEF Execute, Send
    <3>3. t \in Asked /\ Asked' = Asked
      BY <2>0, <3>1, <3>2 DEF Asked
    <3>4. QED BY <3>1, <3>2, <3>3 DEF Shot!Use
  <2>3. ASSUME NEW t \in Tickets,
               IssueRestart(t) \/ PreviewFails(t) \/ Answer(t) \/ End(t)
        PROVE  UNCHANGED <<Asked, sent>>
    <3>1. stage[t] # "none" /\ sent' = sent
      BY <2>3 DEF IssueRestart, PreviewFails, Answer, End
    <3>2. stage'[t] # "none" /\ \A u \in Tickets : u # t => stage'[u] = stage[u]
      BY <2>0, <2>3 DEF IssueRestart, PreviewFails, Answer, End, Store
    <3>3. QED BY <3>1, <3>2 DEF Asked
  <2>4. CASE Restart
    <3>1. sent' = sent /\ \A t \in Tickets : (stage'[t] # "none") = (stage[t] # "none")
      BY <2>4 DEF Restart
    <3>2. QED BY <3>1 DEF Asked
  <2>5. CASE UNCHANGED <<stage, sent>>
    BY <2>5 DEF Asked
  <2>6. QED
    BY <2>1, <2>2, <2>3, <2>4, <2>5
    DEF Next, Preview, Run, Lapse, ChangeHost, LeaseMoves, approvalVars, vars
<1>3. Init => UnusedIsUnsent /\ OneUse /\ SentIsLogged
  BY DEF Init, InitApprovals, UnusedIsUnsent, OneUse, SentIsLogged
<1>4. ApprovalsTypeOK /\ (UnusedIsUnsent /\ OneUse /\ SentIsLogged) /\ [Next]_vars
        => (UnusedIsUnsent /\ OneUse /\ SentIsLogged)'
  BY UseKept
<1>5. QED
  BY <1>1, <1>2, <1>3, <1>4, ApprovalsTyping, PTL DEF Spec, Shot!ShotSpec
=============================================================================
