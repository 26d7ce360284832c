------------------------------ MODULE Approvals -------------------------------
(***************************************************************************)
(* Approval-gated service restarts and backup jobs: remediation.py and     *)
(* backups.py, their routes in web.py, and the authority lease they ask.   *)
(*                                                                         *)
(* preview stores an approval under a secret token; execute takes it out   *)
(* again and sends a fixed command to the machine.  Both ask the lease     *)
(* first.  The preview of a restart awaits the machine before the approval *)
(* is stored, and both executions await it afterwards: stops, expiries,    *)
(* changes of the host table and other requests happen in between.         *)
(*                                                                         *)
(* A ticket stands for one preview and the token it may have led to.  The  *)
(* two services differ in their capability and in what they await; each    *)
(* has a table of approvals of its own.                                    *)
(***************************************************************************)
EXTENDS Authority

CONSTANTS
    Targets,     \* service units and backup jobs
    Tickets,     \* bound: the previews a behaviour may ask for
    MaxPending   \* MAX_PENDING_APPROVALS

ASSUME PendingBounded == MaxPending \in Nat
ASSUME TicketsFinite  == IsFiniteSet(Tickets)

VARIABLES
    table,      \* restart_services and backup_jobs of each host
    ticket,     \* whose preview it is, and of what
    stage,      \* how far the preview and the execution got
    approvals,  \* the tickets whose token is in a table of approvals
    late,       \* the tickets whose expires_at has passed
    sent,       \* observer: how often the command of a ticket was sent
    logged      \* observer: tickets whose attempt the audit log holds

approvalVars == <<ticket, stage, approvals, late, sent, logged>>
vars == <<authorityVars, table, approvalVars>>

Kinds == {"restart", "backup"}
Stages == {"none", "looking", "open", "acting", "verifying", "done"}
CapabilityOf(kind) == IF kind = "restart" THEN "services" ELSE "backups"
Policies == SUBSET (Kinds \X Targets)
Wish == [kind : Kinds, session : Sessions, host : Hosts, target : Targets]

\* _authorize: the host is known and its policy allows the action.
Allowed(w) == env[w.host] # "absent" /\ <<w.kind, w.target>> \in table[w.host]

\* The lease lets the owner of the request act.
Granted(w) == Authorized(w.session, w.host, CapabilityOf(w.kind))

OfKind(kind, set) == {t \in set : ticket[t].kind = kind}

InitApprovals ==
    /\ ticket \in [Tickets -> Wish]
    /\ stage = [t \in Tickets |-> "none"]
    /\ approvals = {} /\ late = {} /\ logged = {}
    /\ sent = [t \in Tickets |-> 0]

Init ==
    /\ AuthorityInit
    /\ table \in [Hosts -> Policies]
    /\ \A h \in Hosts : env[h] = "absent" => table[h] = {}
    /\ InitApprovals

-----------------------------------------------------------------------------
(* Preview *)

\* _discard_expired, the capacity, and the new approval.
Store(t, w) ==
    LET rest == approvals \ (OfKind(w.kind, approvals) \cap late)
    IN  IF Cardinality(OfKind(w.kind, rest)) >= MaxPending
        THEN approvals' = rest /\ stage' = [stage EXCEPT ![t] = "done"]
        ELSE approvals' = rest \cup {t} /\ stage' = [stage EXCEPT ![t] = "open"]

\* preview_restart asks the machine for the state of the service.
PreviewRestart(t) ==
    /\ stage[t] = "none" /\ ticket[t].kind = "restart"
    /\ Granted(ticket[t]) /\ Allowed(ticket[t])
    /\ stage' = [stage EXCEPT ![t] = "looking"]
    /\ UNCHANGED <<authorityVars, table, ticket, approvals, late, sent, logged>>

\* The state was read; the approval is stored for whoever asked, without
\* another look at the lease or the host table.
IssueRestart(t) ==
    /\ stage[t] = "looking"
    /\ Store(t, ticket[t])
    /\ UNCHANGED <<authorityVars, table, ticket, late, sent, logged>>

\* The state could not be read, or the log not be written.
PreviewFails(t) ==
    /\ stage[t] = "looking"
    /\ stage' = [stage EXCEPT ![t] = "done"]
    /\ UNCHANGED <<authorityVars, table, ticket, approvals, late, sent, logged>>

\* The preview of a backup asks nobody.
PreviewBackup(t) ==
    /\ stage[t] = "none" /\ ticket[t].kind = "backup"
    /\ Granted(ticket[t]) /\ Allowed(ticket[t])
    /\ Store(t, ticket[t])
    /\ UNCHANGED <<authorityVars, table, ticket, late, sent, logged>>

-----------------------------------------------------------------------------
(* Execution *)

\* approval_scope: the token is in the table, in time, and this session's.
InTable(t, s) == t \in approvals /\ t \notin late /\ ticket[t].session = s

\* The attempt is written down, and if that works the command is sent.
Send(t, stored) ==
    IF Allowed(ticket[t]) /\ stored
    THEN /\ logged' = logged \cup {t}
         /\ sent' = [sent EXCEPT ![t] = @ + 1]
         /\ stage' = [stage EXCEPT ![t] = "acting"]
    ELSE /\ stage' = [stage EXCEPT ![t] = "done"]
         /\ UNCHANGED <<logged, sent>>

\* Faulty variant of Execute: the approval stays in the table.
ExecuteAgain(t, s, stored) ==
    /\ InTable(t, s)
    /\ Granted(ticket[t])
    /\ sent[t] < 2
    /\ Send(t, stored)
    /\ UNCHANGED <<authorityVars, table, ticket, approvals, late>>

\* Faulty variant of Execute: the lease was asked when the preview was.
ExecuteUngranted(t, s, stored) ==
    /\ InTable(t, s)
    /\ approvals' = approvals \ {t}
    /\ Send(t, stored)
    /\ UNCHANGED <<authorityVars, table, ticket, late>>

\* The route asks the table and the lease, then the service takes the token
\* out, and only then looks at the host table and writes the attempt down: a
\* request that fails there has used the approval up.
Execute(t, s, stored) ==
    /\ InTable(t, s)
    /\ Granted(ticket[t])
    /\ approvals' = approvals \ {t}
    /\ Send(t, stored)
    /\ UNCHANGED <<authorityVars, table, ticket, late>>

\* The machine answers.  A restart is looked at once more; a backup is over.
Answer(t) ==
    /\ stage[t] = "acting"
    /\ stage' = [stage EXCEPT ![t] = IF ticket[t].kind = "restart" THEN "verifying" ELSE "done"]
    /\ UNCHANGED <<authorityVars, table, ticket, approvals, late, sent, logged>>

\* The execution ends with a result or an exception.
End(t) ==
    /\ stage[t] \in {"acting", "verifying"}
    /\ stage' = [stage EXCEPT ![t] = "done"]
    /\ UNCHANGED <<authorityVars, table, ticket, approvals, late, sent, logged>>

-----------------------------------------------------------------------------
(* Surroundings *)

\* 120 seconds have passed since the approval was stored.
Lapse(t) ==
    /\ t \in approvals \ late
    /\ late' = late \cup {t}
    /\ UNCHANGED <<authorityVars, table, ticket, stage, approvals, sent, logged>>

\* A host is enrolled, reclassified or removed: authority, remediation and
\* backups are given the new table in one step; the approvals stay.
ChangeHost(h, e, policy) ==
    /\ ReplaceHost(h, e)
    /\ table' = [table EXCEPT ![h] = IF e = "absent" THEN {}
                                     ELSE IF env[h] = "absent" THEN policy ELSE @]
    /\ UNCHANGED approvalVars

\* The lease moves without the approvals.
LeaseMoves ==
    /\ \/ \E s \in Sessions : SessionRequest(s) \/ StopSession(s)
       \/ \E s \in Sessions, n \in 1..lease.budget : Consume(s, n)
       \/ NoticeExpiry
       \/ Expire
    /\ UNCHANGED <<table, approvalVars>>

\* The process starts again: lease and approvals were in its memory.
Restart ==
    /\ ForgetLease
    /\ approvals' = {}
    /\ stage' = [t \in Tickets |-> IF stage[t] = "none" THEN "none" ELSE "done"]
    /\ UNCHANGED <<table, ticket, late, sent, logged>>

Preview(t) == PreviewRestart(t) \/ IssueRestart(t) \/ PreviewFails(t) \/ PreviewBackup(t)

Run(t) ==
    \/ \E s \in Sessions, stored \in BOOLEAN : Execute(t, s, stored)
    \/ Answer(t)
    \/ End(t)

Next ==
    \/ \E t \in Tickets : Preview(t) \/ Run(t) \/ Lapse(t)
    \/ \E h \in Hosts, e \in Environments, policy \in Policies : ChangeHost(h, e, policy)
    \/ LeaseMoves
    \/ Restart

Spec == Init /\ [][Next]_vars

-----------------------------------------------------------------------------
(* Properties *)

\* Types, and where the tokens are: a token is in a table exactly while its
\* preview is done and it has not been used, and a host that is not enrolled
\* has no policy.
ApprovalsTypeOK ==
    /\ AuthorityTypeOK
    /\ table \in [Hosts -> Policies]
    /\ ticket \in [Tickets -> Wish]
    /\ stage \in [Tickets -> Stages]
    /\ approvals \subseteq Tickets /\ late \subseteq Tickets /\ logged \subseteq Tickets
    /\ sent \in [Tickets -> Nat]
    /\ \A t \in approvals : stage[t] = "open"
    /\ \A h \in Hosts : env[h] = "absent" => table[h] = {}

\* An approval is good for one command, however often and by whomever its
\* token is presented (execute_restart, execute).
OneUse == \A t \in Tickets : sent[t] <= 1

\* A command goes out only while the lease of the very session that asked for
\* the preview covers the host and the capability, the host table still allows
\* it and the approval is in time, whatever happened to any of them since the
\* preview.
SentUnderGrant ==
    [][\A t \in Tickets :
          sent'[t] > sent[t] =>
              /\ lease.status = "active" /\ ~overdue
              /\ lease.owner = ticket[t].session
              /\ ticket[t].host \in lease.hosts
              /\ CapabilityOf(ticket[t].kind) \in lease.caps
              /\ Allowed(ticket[t])
              /\ t \notin late]_vars

\* The table of a service never holds more approvals than its capacity, even
\* when many previews await their machines at once (_discard_expired and the
\* check are after the await).
PendingFits == \A kind \in Kinds : Cardinality(OfKind(kind, approvals)) <= MaxPending

\* No command is sent that the audit log does not hold an attempt of.
SentIsLogged == \A t \in Tickets : sent[t] > 0 => t \in logged

\* The approvals in every state: there is room for them, and each is one command
\* at most, which is on record (preview_restart, execute_restart, preview, execute).
ApprovalsHold == ApprovalsTypeOK /\ OneUse /\ PendingFits /\ SentIsLogged
=============================================================================
