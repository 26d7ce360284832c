----------------------------- MODULE ScriptJobs ------------------------------
(***************************************************************************)
(* Reviewed one-use script jobs: dynamic_execution.py, host_scripts.py,    *)
(* dynamic_transport.py and the two remote helpers, on top of the lease of *)
(* Authority.                                                              *)
(*                                                                         *)
(* A job is a row of a SQLite table; it outlives the process.  The         *)
(* coroutine of DynamicJobs.run that executes it does not: it lives in one *)
(* asyncio event loop together with every request handler.  Code between   *)
(* two awaits runs alone (`holder' is the job whose coroutine has the      *)
(* loop), but meanwhile the clock moves, the remote machines work and the  *)
(* process may be killed.  The helper on the machine is a process of its   *)
(* own; it outlives the connection and the backend.                        *)
(*                                                                         *)
(* There are two services with a table each: jobs in the isolated sandbox  *)
(* (DynamicJobs) and jobs on the host itself (HostJobs).                   *)
(***************************************************************************)
EXTENDS Authority

CONSTANTS
    Jobs,          \* job ids (uuid4); a behaviour creates each at most once
    SandboxJobs,   \* the ids drawn by DynamicJobs; the others by HostJobs
    SessionLimit   \* jobs one session may prepare (100 in the code)

ASSUME JobsFinite   == IsFiniteSet(Jobs)
ASSUME SandboxJobsAreJobs == SandboxJobs \subseteq Jobs
ASSUME LimitTyped   == SessionLimit \in Nat
ASSUME NoneIsNoJob  == None \notin Jobs /\ None \notin Hosts

VARIABLES
    jobState,    \* column state
    jobOwner,    \* column session
    jobHost,     \* column host
    jobLease,    \* column lease: the generation the job was prepared under
    lapsed,      \* jobs past column expires (ten minutes of review)
    attempted,   \* jobs with a stored audit record "dynamic_execute attempted"
    succeeded,   \* jobs with a stored audit record "dynamic_completed success"
    pc,          \* where the coroutine of run() is
    task,        \* the asyncio task of the SSH runner
    holder,      \* the job whose coroutine holds the event loop, or None
    stopping,    \* the server was told to shut down and cancels its requests
    executing,   \* jobs whose scripts a remote helper is running
    launches     \* history: how often a helper began to run the job's scripts

tableVars  == <<jobState, jobOwner, jobHost, jobLease, lapsed>>
auditVars  == <<attempted, succeeded>>
memoryVars == <<pc, task, holder, stopping>>
remoteVars == <<executing, launches>>
jobVars    == <<tableVars, auditVars, memoryVars, remoteVars>>
vars       == <<authorityVars, jobVars>>

Ended     == {"verified", "verification_failed", "failed", "interrupted"}
JobStates == {"absent", "prepared", "running"} \cup Ended
PCs       == {"idle", "claimed", "reserved", "polling", "completing",
              "cancelling", "aborting"}
Returned  == {"passed", "flunked", "error"}
Tasks     == {"none", "created", "connecting", "remote", "cancelled"} \cup Returned

SameTable(j, k) == (j \in SandboxJobs) = (k \in SandboxJobs)

Running(j) == {k \in Jobs : SameTable(j, k) /\ jobState[k] = "running"}

-----------------------------------------------------------------------------
(* authorized(): the lease admits work of this kind on the host *)

Capability(j) == IF j \in SandboxJobs THEN "dynamic_scripts" ELSE "host_scripts"

JobModes(j) == IF j \in SandboxJobs THEN {"dynamic_sandbox"}
                                    ELSE {"guided", "autonomous_lab"}

\* HostJobs also looks at the live host table; DynamicJobs does not need to,
\* as its only mode is a lab mode.
Admitted(s, h, j) ==
    /\ Authorized(s, h, Capability(j))
    /\ lease.mode \in JobModes(j)
    /\ j \notin SandboxJobs => env[h] = "lab"

\* authorized() with the arguments of a job, compared with the job's lease.
StillAdmitted(j) ==
    Admitted(jobOwner[j], jobHost[j], j) /\ lease.gen = jobLease[j]

\* The lease such a call leaves behind.
AfterCheck(j) ==
    IF AuthorizeResets(jobOwner[j], jobHost[j], Capability(j))
    THEN ToObserve ELSE SameLease

-----------------------------------------------------------------------------
(* Effects shared by several steps of run() *)

LoopFree == holder = None
Serving  == LoopFree /\ ~stopping

\* _finish: the last write to the row; it looks neither at the state nor at the
\* lease.  The coroutine ends and gives the loop back.
End(j, state) ==
    /\ jobState' = [jobState EXCEPT ![j] = state]
    /\ pc' = [pc EXCEPT ![j] = "idle"]
    /\ holder' = None
    /\ UNCHANGED <<jobOwner, jobHost, jobLease, lapsed, stopping>>

\* The except branch: a task that is still at work is cancelled and awaited,
\* anything else ends at once.
Abandon(j, waiting, state) ==
    IF task[j] \in Returned
    THEN End(j, state) /\ UNCHANGED task
    ELSE /\ task' = [task EXCEPT ![j] = "cancelled"]
         /\ pc' = [pc EXCEPT ![j] = waiting]
         /\ holder' = None
         /\ UNCHANGED <<tableVars, stopping>>

SameEnv == UNCHANGED <<generation, env>>

-----------------------------------------------------------------------------
(* Operations *)

\* create(): the audit record "dynamic_prepared" is stored first, then the row.
Prepare(s, h, j) ==
    /\ Serving
    /\ jobState[j] = "absent"
    /\ Admitted(s, h, j)
    /\ Cardinality({k \in Jobs : SameTable(j, k) /\ jobOwner[k] = s}) < SessionLimit
    /\ jobState' = [jobState EXCEPT ![j] = "prepared"]
    /\ jobOwner' = [jobOwner EXCEPT ![j] = s]
    /\ jobHost' = [jobHost EXCEPT ![j] = h]
    /\ jobLease' = [jobLease EXCEPT ![j] = lease.gen]
    /\ UNCHANGED <<authorityVars, lapsed, auditVars, memoryVars, remoteVars>>

\* Ten minutes pass without a run.
ReviewLapses(j) ==
    /\ jobState[j] = "prepared"
    /\ lapsed' = lapsed \cup {j}
    /\ UNCHANGED <<authorityVars, jobState, jobOwner, jobHost, jobLease,
                   auditVars, memoryVars, remoteVars>>

\* Faulty variant of MayClaim: a job that failed may be tried again.
MayClaimFailed(j) ==
    /\ jobState[j] \in {"prepared", "failed"}
    /\ lease.gen = jobLease[j]
    /\ j \notin lapsed
    /\ Cardinality(Running(j)) < lease.concurrency
    /\ \A k \in Running(j) : jobHost[k] # jobHost[j]

\* Faulty variant of MayClaim: the host lock is forgotten.
MayClaimSharedHost(j) ==
    /\ jobState[j] = "prepared"
    /\ lease.gen = jobLease[j]
    /\ j \notin lapsed
    /\ Cardinality(Running(j)) < lease.concurrency

\* Rows of the table that keep another job from starting.
MayClaim(j) ==
    /\ jobState[j] = "prepared"
    /\ lease.gen = jobLease[j]
    /\ j \notin lapsed
    /\ Cardinality(Running(j)) < lease.concurrency
    /\ \A k \in Running(j) : jobHost[k] # jobHost[j]

\* run(), up to the commit that marks the row running.  The caller signed in as
\* the owner and has just repeated the password; that is the approval of a host
\* job.
Claim(j) ==
    /\ Serving
    /\ Admitted(jobOwner[j], jobHost[j], j)
    /\ MayClaim(j)
    /\ jobState' = [jobState EXCEPT ![j] = "running"]
    /\ pc' = [pc EXCEPT ![j] = "claimed"]
    /\ holder' = j
    /\ UNCHANGED <<authorityVars, jobOwner, jobHost, jobLease, lapsed, auditVars,
                   task, stopping, remoteVars>>

\* Faulty variant of Reserve: the action is not paid for.
ReserveUnpaid(j, stored) ==
    /\ pc[j] = "claimed"
    /\ ActiveFor(jobOwner[j]) /\ CanSpend(1)
    /\ SameLease
    /\ IF stored
       THEN /\ attempted' = attempted \cup {j}
            /\ pc' = [pc EXCEPT ![j] = "reserved"]
            /\ UNCHANGED <<tableVars, holder, stopping>>
       ELSE End(j, "failed") /\ UNCHANGED attempted
    /\ SameEnv
    /\ UNCHANGED <<succeeded, task, remoteVars>>

\* run(): consume one action and store the audit record of the attempt.
Reserve(j, stored) ==
    /\ pc[j] = "claimed"
    /\ ActiveFor(jobOwner[j]) /\ CanSpend(1)
    /\ Spend(1)
    /\ IF stored
       THEN /\ attempted' = attempted \cup {j}
            /\ pc' = [pc EXCEPT ![j] = "reserved"]
            /\ UNCHANGED <<tableVars, holder, stopping>>
       ELSE End(j, "failed") /\ UNCHANGED attempted
    /\ SameEnv
    /\ UNCHANGED <<succeeded, task, remoteVars>>

\* consume() refuses: the lease ran out of time or of actions since the claim.
ReserveDenied(j) ==
    /\ pc[j] = "claimed"
    /\ ~(ActiveFor(jobOwner[j]) /\ CanSpend(1))
    /\ IF overdue THEN ToObserve ELSE SameLease
    /\ End(j, "failed")
    /\ SameEnv
    /\ UNCHANGED <<auditVars, task, remoteVars>>

\* run(): authority is checked again, a host job's approval is put on record,
\* and the runner's task is created; from here on the coroutine waits.
Start(j) ==
    /\ pc[j] = "reserved"
    /\ StillAdmitted(j)
    /\ task' = [task EXCEPT ![j] = "created"]
    /\ pc' = [pc EXCEPT ![j] = "polling"]
    /\ holder' = None
    /\ UNCHANGED <<authorityVars, tableVars, auditVars, stopping, remoteVars>>

\* The second check refuses, or a host job's approval cannot be recorded.
StartDenied(j) ==
    /\ pc[j] = "reserved"
    /\ ~StillAdmitted(j) \/ j \notin SandboxJobs
    /\ AfterCheck(j)
    /\ End(j, "failed")
    /\ SameEnv
    /\ UNCHANGED <<auditVars, task, remoteVars>>

\* The poll of run(), at most 0.25 s after the last one or when the task
\* returns, finds the authority gone or replaced.
PollDenied(j) ==
    /\ pc[j] = "polling" /\ LoopFree
    /\ ~StillAdmitted(j)
    /\ AfterCheck(j)
    /\ Abandon(j, "cancelling", "failed")
    /\ SameEnv
    /\ UNCHANGED <<auditVars, remoteVars>>

\* Faulty variant of Record: the authority is not looked at once the task is done.
RecordUnchecked(j, stored) ==
    /\ pc[j] = "polling" /\ LoopFree
    /\ task[j] \in {"passed", "flunked"}
    /\ IF stored
       THEN /\ succeeded' = IF task[j] = "passed" THEN succeeded \cup {j} ELSE succeeded
            /\ pc' = [pc EXCEPT ![j] = "completing"]
            /\ holder' = j
            /\ UNCHANGED <<tableVars, stopping>>
       ELSE End(j, "failed") /\ UNCHANGED succeeded
    /\ UNCHANGED <<authorityVars, attempted, task, remoteVars>>

\* Faulty variant of Record: a failing audit log is ignored.
RecordUnstored(j, stored) ==
    /\ pc[j] = "polling" /\ LoopFree
    /\ StillAdmitted(j)
    /\ task[j] \in {"passed", "flunked"}
    /\ succeeded' = IF stored /\ task[j] = "passed" THEN succeeded \cup {j} ELSE succeeded
    /\ pc' = [pc EXCEPT ![j] = "completing"]
    /\ holder' = j
    /\ UNCHANGED <<tableVars, stopping, authorityVars, attempted, task, remoteVars>>

\* The poll finds the authority intact and the task returned: its outcome is
\* put on record.  The row is written afterwards, in another database.
Record(j, stored) ==
    /\ pc[j] = "polling" /\ LoopFree
    /\ StillAdmitted(j)
    /\ task[j] \in {"passed", "flunked"}
    /\ IF stored
       THEN /\ succeeded' = IF task[j] = "passed" THEN succeeded \cup {j} ELSE succeeded
            /\ pc' = [pc EXCEPT ![j] = "completing"]
            /\ holder' = j
            /\ UNCHANGED <<tableVars, stopping>>
       ELSE End(j, "failed") /\ UNCHANGED succeeded
    /\ UNCHANGED <<authorityVars, attempted, task, remoteVars>>

\* The poll finds that the runner raised.
RunnerFailed(j) ==
    /\ pc[j] = "polling" /\ LoopFree
    /\ StillAdmitted(j)
    /\ task[j] = "error"
    /\ End(j, "failed")
    /\ UNCHANGED <<authorityVars, auditVars, task, remoteVars>>

\* run(): the last write of a job that ran to its end.
Finish(j) ==
    /\ pc[j] = "completing"
    /\ End(j, IF task[j] = "passed" THEN "verified" ELSE "verification_failed")
    /\ UNCHANGED <<authorityVars, auditVars, task, remoteVars>>

\* asyncio.timeout(timeout_seconds + 30) around the polling loop.
Timeout(j) ==
    /\ pc[j] = "polling" /\ LoopFree
    /\ Abandon(j, "cancelling", "failed")
    /\ UNCHANGED <<authorityVars, auditVars, remoteVars>>

\* The cancelled task has ended; the except branch goes on.
CancelDone(j) ==
    /\ LoopFree
    /\ \/ pc[j] = "cancelling" /\ End(j, "failed")
       \/ pc[j] = "aborting" /\ End(j, "interrupted")
    /\ UNCHANGED <<authorityVars, auditVars, task, remoteVars>>

\* The server shuts down: no more requests, pending ones are cancelled.
Shutdown ==
    /\ Serving
    /\ stopping' = TRUE
    /\ UNCHANGED <<authorityVars, tableVars, auditVars, pc, task, holder, remoteVars>>

Cancel(j) ==
    /\ stopping /\ LoopFree
    /\ pc[j] = "polling"
    /\ Abandon(j, "aborting", "interrupted")
    /\ UNCHANGED <<authorityVars, auditVars, remoteVars>>

\* A cancellation that arrives while the except branch awaits its task leaves
\* that branch before the row is written.
CancelAgain(j) ==
    /\ stopping /\ LoopFree
    /\ pc[j] \in {"cancelling", "aborting"}
    /\ pc' = [pc EXCEPT ![j] = "idle"]
    /\ UNCHANGED <<authorityVars, tableVars, auditVars, task, holder, stopping, remoteVars>>

\* Faulty variant of Restart: rows are left as they were.
RestartKeepsRows ==
    /\ ForgetLease
    /\ UNCHANGED jobState
    /\ pc' = [j \in Jobs |-> "idle"]
    /\ task' = [j \in Jobs |-> "none"]
    /\ holder' = None
    /\ stopping' = FALSE
    /\ UNCHANGED <<jobOwner, jobHost, jobLease, lapsed, auditVars, remoteVars>>

\* Faulty variant of Restart: every job that was used is marked interrupted.
RestartMarksAll ==
    /\ ForgetLease
    /\ jobState' = [j \in Jobs |-> IF jobState[j] \in {"absent", "prepared"}
                                   THEN jobState[j] ELSE "interrupted"]
    /\ pc' = [j \in Jobs |-> "idle"]
    /\ task' = [j \in Jobs |-> "none"]
    /\ holder' = None
    /\ stopping' = FALSE
    /\ UNCHANGED <<jobOwner, jobHost, jobLease, lapsed, auditVars, remoteVars>>

\* The process ends, at any point or to complete a shutdown, and starts again.
\* The lease and the coroutines are gone; __init__ marks the rows that say
\* running as interrupted.  Helpers on the machines go on.
Restart ==
    /\ ForgetLease
    /\ jobState' = [j \in Jobs |-> IF jobState[j] = "running" THEN "interrupted"
                                                             ELSE jobState[j]]
    /\ pc' = [j \in Jobs |-> "idle"]
    /\ task' = [j \in Jobs |-> "none"]
    /\ holder' = None
    /\ stopping' = FALSE
    /\ UNCHANGED <<jobOwner, jobHost, jobLease, lapsed, auditVars, remoteVars>>

-----------------------------------------------------------------------------
(* The runner's task and the remote helper *)

\* The task checks the host table again before it connects.
Connect(j) ==
    /\ task[j] = "created" /\ LoopFree
    /\ task' = [task EXCEPT ![j] = IF env[jobHost[j]] = "lab" THEN "connecting" ELSE "error"]
    /\ UNCHANGED <<authorityVars, tableVars, auditVars, pc, holder, stopping, remoteVars>>

\* Faulty variant of LockHolders: a lock file per job instead of one per helper.
LockHoldersOwn(j) == {k \in executing : k = j}

\* Jobs that hold the lock file of the helper job j would run under.
LockHolders(j) == {k \in executing : SameTable(j, k) /\ jobHost[k] = jobHost[j]}

\* The helper takes its lock without waiting, reads the scripts and runs them;
\* if another helper has the lock it exits at once.
Deliver(j) ==
    /\ task[j] = "connecting"
    /\ IF LockHolders(j) = {}
       THEN /\ task' = [task EXCEPT ![j] = "remote"]
            /\ executing' = executing \cup {j}
            /\ launches' = [launches EXCEPT ![j] = @ + 1]
       ELSE /\ task' = [task EXCEPT ![j] = "error"]
            /\ UNCHANGED remoteVars
    /\ UNCHANGED <<authorityVars, tableVars, auditVars, pc, holder, stopping>>

\* The connection cannot be made, breaks, or the runner's own timeout fires;
\* the helper may go on.
Disconnect(j) ==
    /\ task[j] \in {"connecting", "remote"}
    /\ task' = [task EXCEPT ![j] = "error"]
    /\ UNCHANGED <<authorityVars, tableVars, auditVars, pc, holder, stopping, remoteVars>>

\* The helper ends: the scripts ran and the verifier's verdict is all passing
\* ("passed"), or is not ("flunked"), or the helper itself failed.  Nobody
\* hears of it when the connection is gone.
RemoteExit(j, result) ==
    /\ j \in executing
    /\ executing' = executing \ {j}
    /\ task' = [task EXCEPT ![j] = IF @ = "remote" THEN result ELSE @]
    /\ UNCHANGED <<authorityVars, tableVars, auditVars, pc, holder, stopping, launches>>

-----------------------------------------------------------------------------
Init ==
    /\ AuthorityInit
    /\ jobState = [j \in Jobs |-> "absent"]
    /\ jobOwner = [j \in Jobs |-> None]
    /\ jobHost = [j \in Jobs |-> None]
    /\ jobLease = [j \in Jobs |-> 0]
    /\ lapsed = {} /\ attempted = {} /\ succeeded = {} /\ executing = {}
    /\ pc = [j \in Jobs |-> "idle"]
    /\ task = [j \in Jobs |-> "none"]
    /\ holder = None
    /\ stopping = FALSE
    /\ launches = [j \in Jobs |-> 0]

\* Another handler of the web API, and the clock.
OtherRequest == Serving /\ AuthorityRequest /\ UNCHANGED jobVars
Clock        == Expire /\ UNCHANGED jobVars

\* What the coroutine of a job does by itself once it was claimed.
Controller(j) ==
    \/ \E stored \in BOOLEAN : Reserve(j, stored) \/ Record(j, stored)
    \/ ReserveDenied(j) \/ Start(j) \/ StartDenied(j)
    \/ PollDenied(j) \/ RunnerFailed(j) \/ Finish(j)
    \/ Timeout(j) \/ CancelDone(j)

Remote(j) ==
    \/ Connect(j) \/ Deliver(j) \/ Disconnect(j)
    \/ \E result \in Returned : RemoteExit(j, result)

Next ==
    \/ OtherRequest \/ Clock \/ Shutdown \/ Restart
    \/ \E j \in Jobs :
         \/ \E s \in Sessions, h \in Hosts : Prepare(s, h, j)
         \/ ReviewLapses(j) \/ Claim(j)
         \/ Controller(j) \/ Remote(j)
         \/ Cancel(j) \/ CancelAgain(j)

Spec == Init /\ [][Next]_vars

\* asyncio runs every ready coroutine, the timeout around the poll is a timer of
\* the loop, and a server that was told to stop is restarted by its supervisor.
\* Nothing is assumed of operators, of the remote machines or of the network.
Fairness ==
    /\ \A j \in Jobs : WF_vars(Controller(j))
    /\ WF_vars(stopping /\ Restart)

FairSpec == Spec /\ Fairness

-----------------------------------------------------------------------------
(* Properties *)

JobTypeOK ==
    /\ jobState \in [Jobs -> JobStates]
    /\ jobOwner \in [Jobs -> Sessions \cup {None}]
    /\ jobHost \in [Jobs -> Hosts \cup {None}]
    /\ jobLease \in [Jobs -> Nat]
    /\ lapsed \subseteq Jobs /\ attempted \subseteq Jobs /\ succeeded \subseteq Jobs
    /\ pc \in [Jobs -> PCs]
    /\ task \in [Jobs -> Tasks]
    /\ holder \in Jobs \cup {None}
    /\ stopping \in BOOLEAN
    /\ executing \subseteq Jobs
    /\ launches \in [Jobs -> Nat]

TypeOK == AuthorityTypeOK /\ JobTypeOK

\* How the row, the coroutine, the task, the remote helper and the audit log of a
\* job fit together; the invariant from which the proofs start.
RowOK(j) ==
    /\ jobLease[j] <= generation
    /\ jobState[j] = "absent" => jobLease[j] = 0
    /\ jobState[j] # "absent" => jobOwner[j] \in Sessions /\ jobHost[j] \in Hosts
    /\ jobState[j] \in {"absent", "prepared"} =>
          launches[j] = 0 /\ task[j] = "none" /\ j \notin attempted \cup succeeded
    /\ jobState[j] = "verified" =>
          launches[j] = 1 /\ j \notin executing /\ j \in attempted /\ j \in succeeded

CoroutineOK(j) ==
    /\ pc[j] # "idle" => jobState[j] = "running"
    /\ pc[j] \in {"claimed", "reserved", "completing"} <=> holder = j
    /\ pc[j] \in {"claimed", "reserved"} => task[j] = "none" /\ launches[j] = 0
    /\ pc[j] = "claimed" => j \notin attempted
    /\ pc[j] \notin {"idle", "claimed"} => j \in attempted
    /\ pc[j] = "completing" => task[j] \in {"passed", "flunked"}
                               /\ (task[j] = "passed" => j \in succeeded)

RemoteOK(j) ==
    /\ task[j] \in {"created", "connecting", "remote"} => pc[j] = "polling"
    /\ task[j] \in {"created", "connecting"} => launches[j] = 0
    /\ task[j] \in {"remote", "passed", "flunked"} => launches[j] = 1
    /\ task[j] \in {"passed", "flunked"} => j \notin executing
    /\ launches[j] <= 1
    /\ launches[j] > 0 => j \in attempted
    /\ j \in executing => launches[j] = 1

JobsFit == \A j \in Jobs : RowOK(j) /\ CoroutineOK(j) /\ RemoteOK(j)

\* A reviewed job is executed at most once in its whole life, whatever mix of
\* runs, failures, cancellations and restarts happens to it.
RunsOnce == \A j \in Jobs : launches[j] <= 1

\* Jobs of one lease for which a runner was ever started.
StartedUnder(g) == {j \in attempted : jobLease[j] = g}

\* The jobs started under the current lease never exceed its action budget, and
\* each of them was paid for.
StartsArePaid ==
    lease.mode # "observe" =>
        Cardinality(StartedUnder(lease.gen)) <= lease.used /\ lease.used <= lease.budget

\* Two jobs of one service are never in progress on the same host.
OneJobPerHost ==
    \A j, k \in Jobs :
        jobState[j] = "running" /\ jobState[k] = "running" /\ SameTable(j, k)
            /\ jobHost[j] = jobHost[k] => j = k

\* The jobs in progress under the current lease respect its concurrency.
ConcurrencyHolds ==
    \A j \in Jobs :
        lease.mode # "observe" =>
            Cardinality({k \in Running(j) : jobLease[k] = lease.gen}) <= lease.concurrency

\* The scripts of two jobs never run on one account at the same time, although
\* a helper can outlive the job, the connection and the backend that began it.
OneHelperPerHost ==
    \A j, k \in executing : SameTable(j, k) /\ jobHost[j] = jobHost[k] => j = k

\* Nothing was ever executed on a machine without an audit record of the attempt.
AttemptOnRecord == \A j \in Jobs : launches[j] > 0 => j \in attempted

\* A job reported verified was executed, its helper has ended, and the audit
\* log, which is another database, says so too, wherever a crash fell.
VerifiedIsBacked ==
    \A j \in Jobs : jobState[j] = "verified" =>
        /\ launches[j] = 1 /\ j \notin executing
        /\ j \in attempted /\ j \in succeeded

\* A success is put on record only while the very lease the job was prepared
\* under is active and holds the job's host.
SuccessUnderOwnLease ==
    [][\A j \in Jobs : j \in succeeded' \ succeeded =>
         /\ lease.status = "active" /\ ~overdue
         /\ lease.gen = jobLease[j] /\ jobHost[j] \in lease.hosts]_vars

\* The result of a job is final.
ResultIsFinal ==
    [][\A j \in Jobs : jobState[j] \in Ended => jobState'[j] = jobState[j]]_vars

\* A job in progress does not stay so for ever, even when its machine never
\* answers: it ends by itself, by the timeout or by a restart.
RunningEnds == \A j \in Jobs : jobState[j] = "running" ~> jobState[j] \in Ended

\* docs/HOST_SCRIPT_MODES.md: pause cancels the active SSH job.  So a job that
\* was in progress when its lease was paused is never reported verified.
PauseCancels ==
    \A j \in Jobs :
        [](jobState[j] = "running" /\ lease.status = "paused" /\ lease.gen = jobLease[j]
             => [](jobState[j] # "verified"))

\* The audit log, which is another database than the table of jobs, says of every
\* job what the table and the machines say, wherever a crash fell.
JobsOnRecord == AttemptOnRecord /\ VerifiedIsBacked

\* However many requests claim jobs at once, hosts and the concurrency of the lease
\* keep them apart (run, the claim).
JobsKeepApart == TypeOK /\ OneJobPerHost /\ ConcurrencyHolds
=============================================================================
