-------------------------- MODULE ScriptJobsProofs ---------------------------
(***************************************************************************)
(* Safety of the script jobs for every set of jobs, hosts, sessions and    *)
(* arm requests, and any number of leases and restarts.                    *)
(*                                                                         *)
(* CoreInv says how the row, the coroutine, the SSH task, the helper and   *)
(* the audit log of one job fit together.  It is inductive: one lemma per  *)
(* action.  The other properties are proved on top of it.                  *)
(***************************************************************************)
EXTENDS ScriptJobs, AuthorityProofs, FiniteSetTheorems

CoreInv == AuthorityInv /\ JobTypeOK /\ JobsFit

JobOK(j) == RowOK(j) /\ CoroutineOK(j) /\ RemoteOK(j)

\* The steps that concern one job.
JobStep(j) ==
    \/ \E s \in Sessions, h \in Hosts : Prepare(s, h, j)
    \/ ReviewLapses(j) \/ Claim(j)
    \/ Controller(j) \/ Remote(j)
    \/ Cancel(j) \/ CancelAgain(j)

-----------------------------------------------------------------------------
(* Steps that leave the jobs alone *)

LEMMA UnchangedJobs ==
    ASSUME CoreInv, UNCHANGED jobVars, generation' \in Nat, generation' >= generation
    PROVE  JobTypeOK' /\ JobsFit'
<1>1. JobTypeOK'
  BY DEF CoreInv, JobTypeOK, jobVars, tableVars, auditVars, memoryVars, remoteVars
<1>2. ASSUME NEW k \in Jobs PROVE (RowOK(k) /\ CoroutineOK(k) /\ RemoteOK(k))'
  <2>1. RowOK(k) /\ CoroutineOK(k) /\ RemoteOK(k) /\ jobLease[k] \in Nat /\ generation \in Nat
    BY DEF CoreInv, JobsFit, JobTypeOK, AuthorityInv, AuthorityTypeOK
  <2>2. QED
    BY <2>1 DEF RowOK, CoroutineOK, RemoteOK, jobVars, tableVars, auditVars,
                memoryVars, remoteVars
<1>3. QED BY <1>1, <1>2 DEF JobsFit

-----------------------------------------------------------------------------
(* Steps of one job *)

\* A step of a job never touches the host table and arms nothing.
LEMMA JobStepEnv ==
    ASSUME NEW j \in Jobs, JobStep(j)
    PROVE  generation' = generation /\ env' = env
  BY DEF JobStep, Controller, Remote, Prepare, ReviewLapses, Claim, Reserve,
         ReserveDenied, Start, StartDenied, PollDenied, Record, RunnerFailed, Finish,
         Timeout, CancelDone, Cancel, CancelAgain, Connect, Deliver, Disconnect,
         RemoteExit, SameEnv, authorityVars

\* The tables, the coroutines and the tasks keep their types.
LEMMA JobStepTypes ==
    ASSUME CoreInv, NEW j \in Jobs, JobStep(j)
    PROVE  JobTypeOK'
<1> USE DEF JobTypeOK, JobStates, Ended, PCs, Tasks, Returned,
            tableVars, auditVars, memoryVars, remoteVars
<1>0. JobTypeOK /\ lease.gen \in Nat
  BY DEF CoreInv, AuthorityInv, AuthorityTypeOK, Leases
<1>1. CASE \E s \in Sessions, h \in Hosts : Prepare(s, h, j)
  BY <1>0, <1>1 DEF Prepare, Admitted, Authorized, ActiveFor, Serving, LoopFree
<1>2. CASE ReviewLapses(j)
  BY <1>0, <1>2 DEF ReviewLapses
<1>3. CASE Claim(j)
  BY <1>0, <1>3 DEF Claim, MayClaim, Serving, LoopFree
<1>4. CASE \E stored \in BOOLEAN : Reserve(j, stored)
  BY <1>0, <1>4 DEF Reserve, End, SameEnv
<1>5. CASE ReserveDenied(j)
  BY <1>0, <1>5 DEF ReserveDenied, End, SameEnv
<1>6. CASE Start(j)
  BY <1>0, <1>6 DEF Start
<1>7. CASE StartDenied(j)
  BY <1>0, <1>7 DEF StartDenied, End, SameEnv
<1>8. CASE PollDenied(j)
  BY <1>0, <1>8 DEF PollDenied, Abandon, End, LoopFree, SameEnv
<1>9. CASE \E stored \in BOOLEAN : Record(j, stored)
  BY <1>0, <1>9 DEF Record, End, LoopFree
<1>10. CASE RunnerFailed(j)
  BY <1>0, <1>10 DEF RunnerFailed, End, LoopFree
<1>11. CASE Finish(j)
  BY <1>0, <1>11 DEF Finish, End
<1>12. CASE Timeout(j)
  BY <1>0, <1>12 DEF Timeout, Abandon, End, LoopFree
<1>13. CASE CancelDone(j)
  BY <1>0, <1>13 DEF CancelDone, End, LoopFree
<1>14. CASE Cancel(j)
  BY <1>0, <1>14 DEF Cancel, Abandon, End, LoopFree
<1>15. CASE CancelAgain(j)
  BY <1>0, <1>15 DEF CancelAgain, LoopFree
<1>16. CASE Connect(j)
  BY <1>0, <1>16 DEF Connect, LoopFree
<1>17. CASE Deliver(j)
  BY <1>0, <1>17 DEF Deliver
<1>18. CASE Disconnect(j)
  BY <1>0, <1>18 DEF Disconnect
<1>19. CASE \E result \in Returned : RemoteExit(j, result)
  BY <1>0, <1>19 DEF RemoteExit
<1>20. QED
  BY <1>1, <1>2, <1>3, <1>4, <1>5, <1>6, <1>7, <1>8, <1>9, <1>10, <1>11, <1>12, <1>13, <1>14, <1>15, <1>16, <1>17, <1>18, <1>19
  DEF JobStep, Controller, Remote

\* What the step does to job j keeps every job k fit; k may be j itself.
LEMMA JobStepFit ==
    ASSUME CoreInv, NEW j \in Jobs, NEW k \in Jobs, JobStep(j)
    PROVE  JobOK(k)'
<1> USE NoneIsNoJob
    DEF JobOK, RowOK, CoroutineOK, RemoteOK, tableVars, auditVars, memoryVars, remoteVars
<1>0. /\ JobOK(j) /\ JobOK(k)
      /\ JobTypeOK /\ generation \in Nat /\ generation' = generation
      /\ lease.gen \in Nat /\ lease.gen <= generation
  BY JobStepEnv
  DEF CoreInv, JobsFit, AuthorityInv, AuthorityTypeOK, Observe
<1>1. CASE \E s \in Sessions, h \in Hosts : Prepare(s, h, j)
  BY <1>0, <1>1 DEF Prepare, Admitted, Authorized, ActiveFor, Serving, LoopFree, JobTypeOK, Tasks, Returned
<1>2. CASE ReviewLapses(j)
  BY <1>0, <1>2 DEF ReviewLapses, JobTypeOK, Tasks, Returned
<1>3. CASE Claim(j)
  BY <1>0, <1>3 DEF Claim, MayClaim, Serving, LoopFree, JobTypeOK, Tasks, Returned
<1>4. CASE \E stored \in BOOLEAN : Reserve(j, stored)
  BY <1>0, <1>4 DEF Reserve, End, SameEnv, JobTypeOK, Tasks, Returned
<1>5. CASE ReserveDenied(j)
  BY <1>0, <1>5 DEF ReserveDenied, End, SameEnv, JobTypeOK, Tasks, Returned
<1>6. CASE Start(j)
  BY <1>0, <1>6 DEF Start, JobTypeOK, Tasks, Returned
<1>7. CASE StartDenied(j)
  BY <1>0, <1>7 DEF StartDenied, End, SameEnv, JobTypeOK, Tasks, Returned
<1>8. CASE PollDenied(j)
  BY <1>0, <1>8 DEF PollDenied, Abandon, End, LoopFree, SameEnv, JobTypeOK, Tasks, Returned
<1>9. CASE \E stored \in BOOLEAN : Record(j, stored)
  BY <1>0, <1>9 DEF Record, End, LoopFree, JobTypeOK, Tasks, Returned
<1>10. CASE RunnerFailed(j)
  BY <1>0, <1>10 DEF RunnerFailed, End, LoopFree, JobTypeOK, Tasks, Returned
<1>11. CASE Finish(j)
  BY <1>0, <1>11 DEF Finish, End, JobTypeOK, Tasks, Returned
<1>12. CASE Timeout(j)
  BY <1>0, <1>12 DEF Timeout, Abandon, End, LoopFree, JobTypeOK, Tasks, Returned
<1>13. CASE CancelDone(j)
  BY <1>0, <1>13 DEF CancelDone, End, LoopFree, JobTypeOK, Tasks, Returned
<1>14. CASE Cancel(j)
  BY <1>0, <1>14 DEF Cancel, Abandon, End, LoopFree, JobTypeOK, Tasks, Returned
<1>15. CASE CancelAgain(j)
  BY <1>0, <1>15 DEF CancelAgain, LoopFree, JobTypeOK, Tasks, Returned
<1>16. CASE Connect(j)
  BY <1>0, <1>16 DEF Connect, LoopFree, JobTypeOK, Tasks, Returned
<1>17. CASE Deliver(j)
  BY <1>0, <1>17 DEF Deliver, JobTypeOK, Tasks, Returned
<1>18. CASE Disconnect(j)
  BY <1>0, <1>18 DEF Disconnect, JobTypeOK, Tasks, Returned
<1>19. CASE \E result \in Returned : RemoteExit(j, result)
  BY <1>0, <1>19 DEF RemoteExit, JobTypeOK, Tasks, Returned
<1>20. QED
  BY <1>1, <1>2, <1>3, <1>4, <1>5, <1>6, <1>7, <1>8, <1>9, <1>10, <1>11, <1>12, <1>13, <1>14, <1>15, <1>16, <1>17, <1>18, <1>19
  DEF JobStep, Controller, Remote

\* A second look at the authority of a job drops the lease only when it has expired:
\* the hosts of an unattended lease stay in the lab.
LEMMA CheckExpires ==
    ASSUME CoreInv, NEW j \in Jobs, AfterCheck(j)
    PROVE  SameLease \/ (overdue /\ ToObserve)
<1>1. ScopeStaysInLab
  BY DEF CoreInv, AuthorityInv
<1>2. AuthorizeResets(jobOwner[j], jobHost[j], Capability(j)) => overdue
  BY <1>1 DEF AuthorizeResets, InScope, Ineligible, ScopeStaysInLab, AllLab
<1>3. QED BY <1>2 DEF AfterCheck

\* How a step of job j moves the lease: not at all, to Observe when it has expired,
\* or by paying for one action.
LEMMA JobStepLease ==
    ASSUME CoreInv, NEW j \in Jobs, JobStep(j)
    PROVE  \/ SameLease \/ (overdue /\ ToObserve)
           \/ /\ \E stored \in BOOLEAN : Reserve(j, stored)
              /\ ActiveFor(jobOwner[j]) /\ CanSpend(1) /\ Spend(1)
<1> USE DEF SameLease, authorityVars
<1>1. CASE \E s \in Sessions, h \in Hosts : Prepare(s, h, j)
  BY <1>1 DEF Prepare, Admitted, Authorized, ActiveFor, Serving, LoopFree
<1>2. CASE ReviewLapses(j)
  BY <1>2 DEF ReviewLapses
<1>3. CASE Claim(j)
  BY <1>3 DEF Claim, MayClaim, Serving, LoopFree
<1>4. CASE \E stored \in BOOLEAN : Reserve(j, stored)
  BY <1>4 DEF Reserve, End, SameEnv
<1>5. CASE ReserveDenied(j)
  BY <1>5 DEF ReserveDenied, End, SameEnv
<1>6. CASE Start(j)
  BY <1>6 DEF Start
<1>7. CASE StartDenied(j)
  BY <1>7, CheckExpires DEF StartDenied
<1>8. CASE PollDenied(j)
  BY <1>8, CheckExpires DEF PollDenied
<1>9. CASE \E stored \in BOOLEAN : Record(j, stored)
  BY <1>9 DEF Record, End, LoopFree
<1>10. CASE RunnerFailed(j)
  BY <1>10 DEF RunnerFailed, End, LoopFree
<1>11. CASE Finish(j)
  BY <1>11 DEF Finish, End
<1>12. CASE Timeout(j)
  BY <1>12 DEF Timeout, Abandon, End, LoopFree
<1>13. CASE CancelDone(j)
  BY <1>13 DEF CancelDone, End, LoopFree
<1>14. CASE Cancel(j)
  BY <1>14 DEF Cancel, Abandon, End, LoopFree
<1>15. CASE CancelAgain(j)
  BY <1>15 DEF CancelAgain, LoopFree
<1>16. CASE Connect(j)
  BY <1>16 DEF Connect, LoopFree
<1>17. CASE Deliver(j)
  BY <1>17 DEF Deliver
<1>18. CASE Disconnect(j)
  BY <1>18 DEF Disconnect
<1>19. CASE \E result \in Returned : RemoteExit(j, result)
  BY <1>19 DEF RemoteExit
<1>20. QED
  BY <1>1, <1>2, <1>3, <1>4, <1>5, <1>6, <1>7, <1>8, <1>9, <1>10, <1>11, <1>12, <1>13, <1>14, <1>15, <1>16, <1>17, <1>18, <1>19
  DEF JobStep, Controller, Remote

\* What a step of job j leaves of the rows of every job k.
LEMMA JobStepRows ==
    ASSUME CoreInv, NEW j \in Jobs, NEW k \in Jobs, JobStep(j)
    PROVE  /\ jobState[k] \in Ended => jobState'[k] = jobState[k]
           /\ jobState[k] # "absent" => /\ jobHost'[k] = jobHost[k]
                                        /\ jobLease'[k] = jobLease[k]
           /\ jobState'[k] = "running" => jobState[k] = "running" \/ (k = j /\ Claim(j))
           /\ k \in attempted' =>
                 k \in attempted \/ (k = j /\ \E stored \in BOOLEAN : Reserve(j, stored))
           /\ k \in attempted' => jobState[k] # "absent"
           /\ k \in executing' =>
                 \/ k \in executing
                 \/ k = j /\ LockHolders(j) = {} /\ executing' = executing \cup {j}
                    /\ jobState[j] = "running"
           /\ k \in executing' => jobState[k] # "absent"
<1> USE DEF tableVars, auditVars, remoteVars, Ended, JobOK, RowOK, CoroutineOK, RemoteOK,
            JobTypeOK
<1>0. JobOK(j) /\ JobOK(k) /\ JobTypeOK
  BY DEF CoreInv, JobsFit
<1>1. CASE \E s \in Sessions, h \in Hosts : Prepare(s, h, j)
  BY <1>0, <1>1 DEF Prepare, Admitted, Authorized, ActiveFor, Serving, LoopFree
<1>2. CASE ReviewLapses(j)
  BY <1>0, <1>2 DEF ReviewLapses
<1>3. CASE Claim(j)
  BY <1>0, <1>3 DEF Claim, MayClaim, Serving, LoopFree
<1>4. CASE \E stored \in BOOLEAN : Reserve(j, stored)
  BY <1>0, <1>4 DEF Reserve, End, SameEnv
<1>5. CASE ReserveDenied(j)
  BY <1>0, <1>5 DEF ReserveDenied, End, SameEnv
<1>6. CASE Start(j)
  BY <1>0, <1>6 DEF Start
<1>7. CASE StartDenied(j)
  BY <1>0, <1>7 DEF StartDenied, End, SameEnv
<1>8. CASE PollDenied(j)
  BY <1>0, <1>8 DEF PollDenied, Abandon, End, LoopFree, SameEnv
<1>9. CASE \E stored \in BOOLEAN : Record(j, stored)
  BY <1>0, <1>9 DEF Record, End, LoopFree
<1>10. CASE RunnerFailed(j)
  BY <1>0, <1>10 DEF RunnerFailed, End, LoopFree
<1>11. CASE Finish(j)
  BY <1>0, <1>11 DEF Finish, End
<1>12. CASE Timeout(j)
  BY <1>0, <1>12 DEF Timeout, Abandon, End, LoopFree
<1>13. CASE CancelDone(j)
  BY <1>0, <1>13 DEF CancelDone, End, LoopFree
<1>14. CASE Cancel(j)
  <2>1. jobState[j] = "running" /\ Abandon(j, "aborting", "interrupted")
        /\ UNCHANGED <<attempted, executing>>
    BY <1>0, <1>14 DEF Cancel
  <2>2. CASE task[j] \in Returned
    BY <1>0, <2>1, <2>2 DEF Abandon, End
  <2>3. CASE task[j] \notin Returned
    BY <1>0, <2>1, <2>3 DEF Abandon
  <2>4. QED BY <2>2, <2>3
<1>15. CASE CancelAgain(j)
  BY <1>0, <1>15 DEF CancelAgain, LoopFree
<1>16. CASE Connect(j)
  BY <1>0, <1>16 DEF Connect, LoopFree
<1>17. CASE Deliver(j)
  BY <1>0, <1>17 DEF Deliver
<1>18. CASE Disconnect(j)
  BY <1>0, <1>18 DEF Disconnect
<1>19. CASE \E result \in Returned : RemoteExit(j, result)
  BY <1>0, <1>19 DEF RemoteExit
<1>20. QED
  BY <1>1, <1>2, <1>3, <1>4, <1>5, <1>6, <1>7, <1>8, <1>9, <1>10, <1>11, <1>12, <1>13, <1>14, <1>15, <1>16, <1>17, <1>18, <1>19
  DEF JobStep, Controller, Remote

-----------------------------------------------------------------------------
(* The invariant *)

LEMMA CoreInit == Init => CoreInv
<1> SUFFICES ASSUME Init PROVE CoreInv
  OBVIOUS
<1>1. AuthorityInv
  BY AuthorityInitInv DEF Init
<1>2. JobTypeOK
  BY DEF Init, JobTypeOK, JobStates, Ended, PCs, Tasks
<1>3. ASSUME NEW j \in Jobs PROVE RowOK(j) /\ CoroutineOK(j) /\ RemoteOK(j)
  BY NoneIsNoJob
  DEF Init, AuthorityInit, RowOK, CoroutineOK, RemoteOK
<1>4. QED BY <1>1, <1>2, <1>3 DEF CoreInv, JobsFit

\* A step of a job leaves the lease's own invariant intact.
LEMMA JobStepAuthority ==
    ASSUME CoreInv, NEW j \in Jobs, JobStep(j)
    PROVE  AuthorityInv'
<1>1. AuthorityInv /\ generation' = generation /\ env' = env
  BY JobStepEnv DEF CoreInv
<1>2. CASE SameLease
  BY <1>1, <1>2, AuthorityStutterInv DEF SameLease, authorityVars
<1>3. CASE ToObserve
  BY <1>1, <1>3, ToObserveInv DEF AuthorityInv, AuthorityTypeOK
<1>4. CASE ActiveFor(jobOwner[j]) /\ CanSpend(1) /\ Spend(1)
  <2>1. lease.mode # "observe"
    BY <1>1, <1>4 DEF ActiveFor, AuthorityInv, AuthorityTypeOK, Observe
  <2>2. QED BY <1>1, <1>4, <2>1, SpendInv
<1>5. QED BY <1>2, <1>3, <1>4, JobStepLease

\* A restart interrupts what was running and forgets the rest of the memory.
LEMMA RestartFit == CoreInv /\ Restart => CoreInv'
<1> SUFFICES ASSUME CoreInv, Restart PROVE CoreInv'
  OBVIOUS
<1>1. AuthorityInv' /\ generation' = generation
  BY ForgetLeaseInv DEF CoreInv, Restart, ForgetLease
<1>2. JobTypeOK'
  BY DEF CoreInv, Restart, JobTypeOK, JobStates, Ended, PCs, Tasks,
         auditVars, remoteVars
<1>3. ASSUME NEW j \in Jobs PROVE (RowOK(j) /\ CoroutineOK(j) /\ RemoteOK(j))'
  <2>1. RowOK(j) /\ CoroutineOK(j) /\ RemoteOK(j)
    BY DEF CoreInv, JobsFit
  <2>2. QED
    BY <1>1, <2>1, NoneIsNoJob
    DEF Restart, RowOK, CoroutineOK, RemoteOK, auditVars, remoteVars
<1>4. QED BY <1>1, <1>2, <1>3 DEF CoreInv, JobsFit

\* Other requests, and the clock, change the lease only.
LEMMA OtherFit == CoreInv /\ (OtherRequest \/ Clock) => CoreInv'
<1> SUFFICES ASSUME CoreInv, OtherRequest \/ Clock PROVE CoreInv'
  OBVIOUS
<1>1. AuthorityInv' /\ UNCHANGED jobVars
  BY AuthorityRequestInv, ExpireInv DEF CoreInv, OtherRequest, Clock
<1>2. generation \in Nat /\ generation' \in Nat /\ generation' >= generation
  BY DEF CoreInv, AuthorityInv, AuthorityTypeOK, OtherRequest, Clock, AuthorityRequest, SessionRequest,
         Arm, Pause, Resume, Stop, StopSession, NoticeExpiry, ReplaceHost, Consume, Expire
<1>3. QED BY <1>1, <1>2, UnchangedJobs DEF CoreInv

LEMMA ShutdownFit == CoreInv /\ Shutdown => CoreInv'
  BY DEF CoreInv, Shutdown, Serving, JobTypeOK, JobsFit, RowOK, CoroutineOK, RemoteOK,
         AuthorityInv, AuthorityTypeOK, ScopeStaysInLab, BudgetHolds, ArmIsOnRecord,
         AllLab, authorityVars, tableVars, auditVars, remoteVars

LEMMA StutterFit == CoreInv /\ UNCHANGED vars => CoreInv'
<1> SUFFICES ASSUME CoreInv, UNCHANGED vars PROVE CoreInv'
  OBVIOUS
<1>1. AuthorityInv' /\ generation' \in Nat /\ generation' >= generation
  BY AuthorityStutterInv DEF vars, authorityVars, CoreInv, AuthorityInv, AuthorityTypeOK
<1>2. QED BY <1>1, UnchangedJobs DEF vars, CoreInv

LEMMA NextSplits == Next <=> \/ OtherRequest \/ Clock \/ Shutdown \/ Restart
                             \/ \E j \in Jobs : JobStep(j)
  BY DEF Next, JobStep

LEMMA CoreStep == CoreInv /\ [Next]_vars => CoreInv'
<1> SUFFICES ASSUME CoreInv, [Next]_vars PROVE CoreInv'
  OBVIOUS
<1>1. ASSUME NEW j \in Jobs, JobStep(j) PROVE CoreInv'
  <2>1. AuthorityInv' /\ JobTypeOK'
    BY <1>1, JobStepAuthority, JobStepTypes
  <2>2. \A k \in Jobs : JobOK(k)'
    BY <1>1, JobStepFit
  <2>3. QED BY <2>1, <2>2 DEF CoreInv, JobsFit, JobOK
<1>2. QED
  BY <1>1, OtherFit, ShutdownFit, RestartFit, StutterFit, NextSplits

\* The inductive invariant holds in every reachable state.
THEOREM CoreInvariant == Spec => []CoreInv
  BY CoreInit, CoreStep, PTL DEF Spec

-----------------------------------------------------------------------------
(* What the jobs are built on *)

\* Whatever a job does to the lease is something the authority service does.
LEMMA JobStepFollows ==
    ASSUME CoreInv, NEW j \in Jobs, JobStep(j)
    PROVE  [AuthorityNext]_authorityVars
<1>1. generation' = generation /\ env' = env
  BY JobStepEnv
<1>2. CASE SameLease
  BY <1>1, <1>2 DEF SameLease, authorityVars
<1>3. CASE overdue /\ ToObserve
  BY <1>1, <1>3 DEF AuthorityNext, AuthorityRequest, NoticeExpiry
<1>4. CASE /\ \E stored \in BOOLEAN : Reserve(j, stored)
           /\ ActiveFor(jobOwner[j]) /\ CanSpend(1) /\ Spend(1)
  <2>1. jobOwner[j] \in Sessions
    BY <1>4 DEF Reserve, CoreInv, JobsFit, CoroutineOK, RowOK
  <2>2. 1 \in 1..lease.budget
    BY <1>4 DEF CanSpend, CoreInv, AuthorityInv, AuthorityTypeOK, Leases
  <2>3. Consume(jobOwner[j], 1)
    BY <1>1, <1>4 DEF Consume
  <2>4. QED BY <2>1, <2>2, <2>3 DEF AuthorityNext, AuthorityRequest
<1>5. QED BY <1>2, <1>3, <1>4, JobStepLease

\* Jobs, their helpers and restarts use the lease as the authority service allows it,
\* so what holds of a lease holds of the one they run under.
THEOREM JobsUseLease == Spec => AuthoritySpec
<1>1. Init => AuthorityInit
  BY DEF Init
<1>2. CoreInv /\ [Next]_vars => [AuthorityNext]_authorityVars
  <2> SUFFICES ASSUME CoreInv, [Next]_vars PROVE [AuthorityNext]_authorityVars
    OBVIOUS
  <2>1. CASE \E j \in Jobs : JobStep(j)
    BY <2>1, JobStepFollows
  <2>2. CASE OtherRequest \/ Clock \/ Restart
    BY <2>2 DEF OtherRequest, Clock, Restart, AuthorityNext
  <2>3. CASE Shutdown \/ UNCHANGED vars
    BY <2>3 DEF Shutdown, vars
  <2>4. QED BY <2>1, <2>2, <2>3, NextSplits
<1>3. QED
  BY <1>1, <1>2, CoreInvariant, PTL DEF Spec, AuthoritySpec

\* A reviewed job seen as an approval: preparing it issues one, a helper that runs
\* its scripts uses it.
Prepared == {j \in Jobs : jobState[j] # "absent"}
Shot == INSTANCE OneShot WITH Ids <- Jobs, issued <- Prepared, uses <- launches

\* What a step of job j does to its row and its launches.
LEMMA JobStepShot ==
    ASSUME CoreInv, NEW j \in Jobs, JobStep(j)
    PROVE  \/ UNCHANGED <<Prepared, launches>>
           \/ jobState[j] = "absent" /\ Prepared' = Prepared \cup {j} /\ launches' = launches
           \/ /\ jobState[j] # "absent" /\ Prepared' = Prepared
              /\ launches[j] = 0 /\ launches' = [launches EXCEPT ![j] = 1]
<1>0. /\ jobState \in [Jobs -> JobStates] /\ launches \in [Jobs -> Nat]
      /\ RowOK(j) /\ CoroutineOK(j) /\ RemoteOK(j)
  BY DEF CoreInv, JobTypeOK, JobsFit
<1>1. CASE \E s \in Sessions, h \in Hosts : Prepare(s, h, j)
  BY <1>0, <1>1 DEF Prepare, Prepared, remoteVars
<1>2. CASE Deliver(j)
  <2>1. jobState' = jobState /\ jobState[j] # "absent" /\ launches[j] = 0
    BY <1>0, <1>2 DEF Deliver, tableVars, RowOK, RemoteOK
  <2>2. launches' \in {launches, [launches EXCEPT ![j] = 1]}
    BY <1>0, <1>2, <2>1 DEF Deliver, remoteVars
  <2>3. QED BY <2>1, <2>2 DEF Prepared
<1>3. CASE ~Deliver(j) /\ ~\E s \in Sessions, h \in Hosts : Prepare(s, h, j)
  <2>1. launches' = launches
    BY <1>3
    DEF JobStep, Controller, Remote, ReviewLapses, Claim, Reserve, ReserveDenied, Start,
        StartDenied, PollDenied, Record, RunnerFailed, Finish, Timeout, CancelDone, Cancel,
        CancelAgain, Connect, Disconnect, RemoteExit, remoteVars
  <2>2. /\ \A k \in Jobs \ {j} : jobState'[k] = jobState[k]
        /\ jobState'[j] = jobState[j] \/ (jobState[j] # "absent" /\ jobState'[j] # "absent")
    <3>1. ASSUME NEW st \in Ended, End(j, st), jobState[j] # "absent"
          PROVE  /\ \A k \in Jobs \ {j} : jobState'[k] = jobState[k]
                 /\ jobState[j] # "absent" /\ jobState'[j] # "absent"
      BY <1>0, <3>1 DEF End, Ended
    <3>2. CASE UNCHANGED jobState
      BY <3>2
    <3>3. CASE Claim(j)
      BY <1>0, <3>3 DEF Claim, MayClaim
    <3>4. CASE ~Claim(j) /\ jobState' # jobState
      <4>1. pc[j] # "idle" /\ \E st \in Ended : End(j, st)
        BY <1>3, <3>4
        DEF JobStep, Controller, Remote, ReviewLapses, Reserve, ReserveDenied, Start,
            StartDenied, PollDenied, Record, RunnerFailed, Finish, Timeout, CancelDone,
            Cancel, CancelAgain, Connect, Disconnect, RemoteExit, Abandon, tableVars, Ended
      <4>2. jobState[j] # "absent"
        BY <1>0, <4>1 DEF CoroutineOK
      <4>3. QED BY <3>1, <4>1, <4>2
    <3>5. QED BY <3>2, <3>3, <3>4
  <2>3. QED BY <2>1, <2>2 DEF Prepared
<1>4. QED BY <1>1, <1>2, <1>3

\* Through runs, failures, cancellations and restarts a reviewed job keeps the promise
\* of an approval: issued once, used at most once.
THEOREM JobsAreOneShot == Spec => Shot!ShotSpec
<1>1. Init => Shot!ShotInit
  BY DEF Init, Shot!ShotInit, Prepared
<1>2. CoreInv /\ [Next]_vars => [Shot!ShotNext]_(Shot!shotVars)
  <2> SUFFICES ASSUME CoreInv, [Next]_vars PROVE [Shot!ShotNext]_(Shot!shotVars)
    OBVIOUS
  <2>1. ASSUME NEW j \in Jobs, JobStep(j) PROVE [Shot!ShotNext]_(Shot!shotVars)
    BY <2>1, JobStepShot
    DEF Shot!ShotNext, Shot!Issue, Shot!Use, Shot!shotVars, Prepared
  <2>2. CASE Restart
    <3>1. launches' = launches
      BY <2>2 DEF Restart, remoteVars
    <3>2. \A j \in Jobs : (jobState'[j] # "absent") = (jobState[j] # "absent")
      BY <2>2 DEF Restart
    <3>3. Prepared' = Prepared
      BY <3>2 DEF Prepared
    <3>4. QED BY <3>1, <3>3 DEF Shot!shotVars
  <2>3. CASE OtherRequest \/ Clock \/ Shutdown \/ UNCHANGED vars
    <3>1. UNCHANGED <<jobState, launches>>
      BY <2>3 DEF OtherRequest, Clock, Shutdown, vars, jobVars, tableVars, remoteVars
    <3>2. QED BY <3>1 DEF Shot!shotVars, Prepared
  <2>4. QED BY <2>1, <2>2, <2>3, NextSplits
<1>3. QED
  BY <1>1, <1>2, CoreInvariant, PTL DEF Spec, Shot!ShotSpec

-----------------------------------------------------------------------------
(* What follows from it in every state *)

\* Every variable keeps its type.
THEOREM TypeCorrect == Spec => []TypeOK
<1>1. CoreInv => TypeOK
  BY DEF CoreInv, AuthorityInv, TypeOK
<1>2. QED BY <1>1, CoreInvariant, PTL

\* A reviewed job is executed at most once, across failures and restarts.
THEOREM ExecutedAtMostOnce == Spec => []RunsOnce
<1>1. CoreInv => RunsOnce
  BY DEF CoreInv, JobsFit, RemoteOK, RunsOnce
<1>2. QED BY <1>1, CoreInvariant, PTL

\* No execution without an audit record of the attempt.
THEOREM AttemptsOnRecord == Spec => []AttemptOnRecord
<1>1. CoreInv => AttemptOnRecord
  BY DEF CoreInv, JobsFit, RemoteOK, AttemptOnRecord
<1>2. QED BY <1>1, CoreInvariant, PTL

\* A verified job was executed once, has ended and is on record as a success.
THEOREM VerifiedBacked == Spec => []VerifiedIsBacked
<1>1. CoreInv => VerifiedIsBacked
  BY DEF CoreInv, JobsFit, RowOK, VerifiedIsBacked
<1>2. QED BY <1>1, CoreInvariant, PTL

-----------------------------------------------------------------------------
(* Mutual exclusion, budget and concurrency *)

\* Steps that are not steps of one job start nothing.
LEMMA QuietStepRows ==
    ASSUME CoreInv, NEW k \in Jobs,
           OtherRequest \/ Clock \/ Shutdown \/ Restart \/ UNCHANGED vars
    PROVE  /\ UNCHANGED <<jobHost, jobLease, attempted, executing>>
           /\ jobState'[k] = "running" => jobState[k] = "running"
           /\ jobState[k] \in Ended => jobState'[k] = jobState[k]
  BY DEF OtherRequest, Clock, Shutdown, Restart, vars, jobVars, tableVars, auditVars,
         remoteVars, Ended, CoreInv, JobTypeOK

\* Whoever steps, a row that is in progress after the step was in progress before
\* it, or was claimed by the step; hosts and leases of rows do not change.
LEMMA RowsPersist ==
    ASSUME CoreInv, [Next]_vars, NEW k \in Jobs
    PROVE  /\ jobState[k] \in Ended => jobState'[k] = jobState[k]
           /\ jobState[k] # "absent" => /\ jobHost'[k] = jobHost[k]
                                        /\ jobLease'[k] = jobLease[k]
           /\ jobState'[k] = "running" => jobState[k] = "running" \/ Claim(k)
           /\ k \in attempted' =>
                 k \in attempted \/ \E stored \in BOOLEAN : Reserve(k, stored)
           /\ k \in attempted' => jobState[k] # "absent"
           /\ k \in executing' =>
                 \/ k \in executing
                 \/ LockHolders(k) = {} /\ executing' = executing \cup {k}
           /\ k \in executing' => jobState[k] # "absent"
<1>1. CASE \E j \in Jobs : JobStep(j)
  BY <1>1, JobStepRows
<1>2. CASE OtherRequest \/ Clock \/ Shutdown \/ Restart \/ UNCHANGED vars
  <2>1. (k \in attempted \/ k \in executing) => jobState[k] # "absent"
    BY DEF CoreInv, JobsFit, RowOK, RemoteOK
  <2>2. QED BY <1>2, <2>1, QuietStepRows
<1>3. QED BY <1>1, <1>2, NextSplits

LEMMA ExclusionStep == CoreInv /\ OneJobPerHost /\ [Next]_vars => OneJobPerHost'
<1> SUFFICES ASSUME CoreInv, OneJobPerHost, [Next]_vars,
                    NEW j \in Jobs, NEW k \in Jobs,
                    jobState'[j] = "running", jobState'[k] = "running",
                    SameTable(j, k), jobHost'[j] = jobHost'[k]
             PROVE  j = k
  BY DEF OneJobPerHost, SameTable
<1>1. \A i \in {j, k} : jobState[i] = "running" \/ Claim(i)
  BY RowsPersist
<1>2. \A i \in {j, k} : Claim(i) =>
         /\ jobState[i] # "absent"
         /\ \A m \in Jobs : SameTable(i, m) /\ jobState[m] = "running" => jobHost[m] # jobHost[i]
         /\ \A m \in Jobs : jobState'[m] = "running" => m = i \/ jobState[m] = "running"
  BY DEF Claim, MayClaim, Running, CoreInv, JobTypeOK
<1>3. jobHost'[j] = jobHost[j] /\ jobHost'[k] = jobHost[k]
  BY <1>1, <1>2, RowsPersist
<1>4. SameTable(k, j)
  BY DEF SameTable
<1>5. QED
  BY <1>1, <1>2, <1>3, <1>4 DEF OneJobPerHost

\* Two jobs of one service are never in progress on the same host.
THEOREM JobExclusion == Spec => []OneJobPerHost
<1>1. Init => OneJobPerHost
  BY DEF Init, OneJobPerHost
<1>2. QED
  BY <1>1, ExclusionStep, CoreInvariant, PTL DEF Spec

LEMMA HelperStep == CoreInv /\ OneHelperPerHost /\ [Next]_vars => OneHelperPerHost'
<1> SUFFICES ASSUME CoreInv, OneHelperPerHost, [Next]_vars,
                    NEW j \in executing', NEW k \in executing',
                    SameTable(j, k), jobHost'[j] = jobHost'[k]
             PROVE  j = k
  BY DEF OneHelperPerHost, SameTable
<1>1. j \in Jobs /\ k \in Jobs
  BY CoreStep DEF CoreInv, JobTypeOK
<1>2. jobHost'[j] = jobHost[j] /\ jobHost'[k] = jobHost[k]
  BY <1>1, RowsPersist
<1>3. \A i \in {j, k} :
         i \in executing \/ (LockHolders(i) = {} /\ executing' = executing \cup {i})
  BY <1>1, RowsPersist
<1>4. \A i \in {j, k} : LockHolders(i) = {} =>
         \A m \in executing : ~(SameTable(i, m) /\ jobHost[m] = jobHost[i])
  BY DEF LockHolders
<1>5. SameTable(k, j)
  BY DEF SameTable
<1>6. QED
  BY <1>2, <1>3, <1>4, <1>5 DEF OneHelperPerHost

\* The scripts of two jobs of one service never run on one machine at a time.
THEOREM HelperExclusion == Spec => []OneHelperPerHost
<1>1. Init => OneHelperPerHost
  BY DEF Init, OneHelperPerHost
<1>2. QED
  BY <1>1, HelperStep, CoreInvariant, PTL DEF Spec

\* A lease after a step is a lease from before it, no less used and with the same
\* limits, or it was armed by the step under a fresh generation.
LEMMA LeaseContinues ==
    ASSUME CoreInv, [Next]_vars, lease'.mode # "observe"
    PROVE  \/ /\ lease.mode # "observe" /\ lease'.gen = lease.gen
              /\ lease'.concurrency = lease.concurrency
              /\ lease'.used \in Nat /\ lease'.used >= lease.used
           \/ lease'.gen = generation + 1 /\ lease'.used = 0 /\ UNCHANGED jobVars
<1> USE DEF Leases
<1>1. /\ AuthorityInv /\ lease \in Leases /\ Observe.mode = "observe"
      /\ lease.mode = "observe" => lease = Observe
  BY DEF CoreInv, AuthorityInv, AuthorityTypeOK, Observe
<1>2. CASE UNCHANGED lease
  BY <1>1, <1>2
<1>3. CASE lease' = Observe
  BY <1>1, <1>3
<1>4. CASE \E j \in Jobs : JobStep(j)
  <2>1. PICK j \in Jobs : JobStep(j)
    BY <1>4
  <2>2. CASE Spend(1) /\ ActiveFor(jobOwner[j])
    <3>1. lease.mode # "observe"
      BY <1>1, <2>2 DEF ActiveFor, Observe
    <3>2. lease' = [lease EXCEPT !.used = lease.used + 1]
      BY <2>2 DEF Spend
    <3>3. QED BY <1>1, <3>1, <3>2
  <2>3. QED
    BY <1>2, <1>3, <2>1, <2>2, JobStepLease DEF SameLease, ToObserve
<1>5. CASE OtherRequest \/ Clock
  <2>1. AuthorityNext /\ UNCHANGED jobVars
    BY <1>5 DEF OtherRequest, Clock, AuthorityNext
  <2>2. CASE lease.mode # "observe"
    <3>1. CASE \E n \in Nat : lease' = [lease EXCEPT !.used = lease.used + n]
      BY <1>1, <2>2, <3>1
    <3>2. CASE \E st \in Statuses : lease' = [lease EXCEPT !.status = st]
      BY <1>1, <2>2, <3>2
    <3>3. QED
      BY <1>1, <1>2, <1>3, <2>1, <2>2, <3>1, <3>2, LeaseStep DEF Statuses
  <2>3. CASE lease.mode = "observe"
    <3>1. lease = Observe
      BY <1>1, <2>3
    <3>2. lease.owner = None /\ lease.status = "inactive" /\ ~overdue
      BY <3>1, <1>1 DEF Observe, AuthorityInv, AuthorityTypeOK
    <3>3. \E s \in Sessions, r \in Requests, stored \in BOOLEAN : Arm(s, r, stored)
      BY <1>2, <1>3, <1>1, <2>1, <3>1, <3>2, NoneIsNoSession
      DEF AuthorityNext, AuthorityRequest, SessionRequest, Pause, Resume, Stop, StopSession, NoticeExpiry,
          ReplaceHost, Consume, Expire, ForgetLease, ToObserve, SameLease, ActiveFor
    <3>4. QED
      BY <1>1, <1>3, <2>1, <3>3 DEF Arm, Install, ToObserve
  <2>4. QED BY <2>2, <2>3
<1>6. CASE Shutdown \/ Restart \/ UNCHANGED vars
  BY <1>2, <1>3, <1>6
  DEF Shutdown, Restart, ForgetLease, ToObserve, vars, authorityVars
<1>7. QED BY <1>4, <1>5, <1>6, NextSplits

\* Every started job of the current lease was paid for with one action.
Paid == lease.mode # "observe" => Cardinality(StartedUnder(lease.gen)) <= lease.used

LEMMA PaidStep == CoreInv /\ Paid /\ [Next]_vars => Paid'
<1> SUFFICES ASSUME CoreInv, Paid, [Next]_vars, lease'.mode # "observe"
             PROVE  Cardinality(StartedUnder(lease.gen)') <= lease'.used
  BY DEF Paid, StartedUnder
<1> DEFINE S == StartedUnder(lease.gen)
           T == StartedUnder(lease.gen)'
<1>1. S \subseteq Jobs /\ T \subseteq Jobs /\ lease \in Leases
  BY CoreStep DEF CoreInv, JobTypeOK, StartedUnder, AuthorityInv, AuthorityTypeOK
<1>2. IsFiniteSet(S) /\ IsFiniteSet(T) /\ Cardinality(S) \in Nat /\ Cardinality(T) \in Nat
  BY <1>1, JobsFinite, FS_Subset, FS_CardinalityType
<1>3. CASE lease'.gen = generation + 1 /\ lease'.used = 0 /\ UNCHANGED jobVars
  <2>1. \A k \in Jobs : jobLease[k] <= generation /\ jobLease[k] \in Nat
    BY DEF CoreInv, JobsFit, RowOK, JobTypeOK
  <2>2. T = {}
    BY <1>1, <1>3, <2>1
    DEF StartedUnder, jobVars, tableVars, auditVars, CoreInv, AuthorityInv, AuthorityTypeOK
  <2>3. QED BY <1>3, <2>2, FS_EmptySet
<1>4. CASE /\ lease.mode # "observe" /\ lease'.gen = lease.gen
           /\ lease'.used \in Nat /\ lease'.used >= lease.used
  <2>1. Cardinality(S) <= lease.used /\ lease.used \in Nat
    BY <1>1, <1>4 DEF Paid, Leases
  <2>2. CASE T \subseteq S
    BY <1>2, <1>4, <2>1, <2>2, FS_Subset
  <2>3. CASE ~(T \subseteq S)
    <3>1. PICK k \in T : k \notin S
      BY <2>3
    <3>2. \A i \in T : i \in Jobs /\ i \in attempted' /\ jobLease'[i] = lease.gen
      BY <1>1, <1>4 DEF StartedUnder
    <3>3. \A i \in T : jobLease'[i] = jobLease[i]
      BY <3>2, RowsPersist
    <3>4. \E stored \in BOOLEAN : Reserve(k, stored)
      BY <3>1, <3>2, <3>3, RowsPersist DEF StartedUnder
    <3>5. attempted' \subseteq attempted \cup {k} /\ lease' = [lease EXCEPT !.used = lease.used + 1]
      BY <3>4 DEF Reserve, Spend
    <3>6. T \subseteq S \cup {k} /\ lease'.used = lease.used + 1
      BY <1>1, <3>2, <3>3, <3>5 DEF StartedUnder, Leases
    <3>7. Cardinality(T) <= Cardinality(S \cup {k}) /\ Cardinality(S \cup {k}) = Cardinality(S) + 1
      BY <1>2, <3>1, <3>6, FS_AddElement, FS_Subset
    <3>8. QED BY <1>2, <2>1, <3>6, <3>7
  <2>4. QED BY <2>2, <2>3
<1>5. QED BY <1>3, <1>4, LeaseContinues

\* The jobs started under a lease were all paid for and never exceed its budget.
THEOREM StartsPaid == Spec => []StartsArePaid
<1>1. Init => Paid
  BY DEF Init, AuthorityInit, Observe, Paid
<1>2. CoreInv /\ Paid => StartsArePaid
  BY DEF CoreInv, AuthorityInv, BudgetHolds, Paid, StartsArePaid
<1>3. QED
  BY <1>1, <1>2, PaidStep, CoreInvariant, PTL DEF Spec

\* Jobs in progress in the table of j that belong to the current lease.
InProgress(j) == {k \in Running(j) : jobLease[k] = lease.gen}

LEMMA ConcurrencyStep == CoreInv /\ ConcurrencyHolds /\ [Next]_vars => ConcurrencyHolds'
<1> SUFFICES ASSUME CoreInv, ConcurrencyHolds, [Next]_vars, NEW j \in Jobs,
                    lease'.mode # "observe"
             PROVE  Cardinality(InProgress(j)') <= lease'.concurrency
  BY DEF ConcurrencyHolds, InProgress, Running, SameTable
<1> DEFINE S == InProgress(j)
           T == InProgress(j)'
<1>1. S \subseteq Running(j) /\ Running(j) \subseteq Jobs /\ T \subseteq Jobs
  BY DEF InProgress, Running
<1>2. /\ IsFiniteSet(S) /\ IsFiniteSet(T) /\ IsFiniteSet(Running(j))
      /\ Cardinality(S) \in Nat /\ Cardinality(T) \in Nat /\ Cardinality(Running(j)) \in Nat
  BY <1>1, JobsFinite, FS_Subset, FS_CardinalityType
<1>3. lease'.concurrency \in Nat /\ lease.concurrency \in Nat
  BY CoreStep DEF CoreInv, AuthorityInv, AuthorityTypeOK, Leases
<1>4. \A k \in T : /\ SameTable(j, k) /\ jobState'[k] = "running"
                   /\ jobLease'[k] = lease'.gen
                   /\ jobState[k] = "running" \/ Claim(k)
  BY <1>1, RowsPersist DEF InProgress, Running, SameTable
<1>5. \A k \in T : jobState[k] # "absent" /\ jobLease'[k] = jobLease[k]
  BY <1>1, <1>4, RowsPersist DEF Claim, MayClaim
<1>6. CASE lease'.gen = generation + 1 /\ UNCHANGED jobVars
  <2>1. \A k \in Jobs : jobLease[k] <= generation /\ jobLease[k] \in Nat /\ generation \in Nat
    BY DEF CoreInv, JobsFit, RowOK, JobTypeOK, AuthorityInv, AuthorityTypeOK
  <2>2. T = {}
    BY <1>1, <1>4, <1>5, <1>6, <2>1
  <2>3. QED BY <1>3, <2>2, FS_EmptySet
<1>7. CASE /\ lease.mode # "observe" /\ lease'.gen = lease.gen
           /\ lease'.concurrency = lease.concurrency
  <2>1. Cardinality(S) <= lease.concurrency
    BY <1>7 DEF ConcurrencyHolds, InProgress
  <2>2. CASE \A k \in T : jobState[k] = "running"
    <3>1. T \subseteq S
      BY <1>1, <1>4, <1>5, <1>7, <2>2 DEF InProgress, Running
    <3>2. QED BY <1>2, <1>3, <1>7, <2>1, <3>1, FS_Subset
  <2>3. CASE \E k \in T : jobState[k] # "running"
    <3>1. PICK k \in T : jobState[k] # "running"
      BY <2>3
    <3>2. Claim(k) /\ SameTable(j, k)
      BY <1>4, <3>1
    <3>3. Running(k) = Running(j)
      BY <3>2 DEF Running, SameTable
    <3>4. Cardinality(Running(j)) < lease.concurrency
      BY <3>2, <3>3 DEF Claim, MayClaim
    <3>5. T \subseteq Running(j) \cup {k}
      BY <1>1, <1>4, <3>2 DEF Claim, Running, CoreInv, JobTypeOK
    <3>6. IsFiniteSet(Running(j) \cup {k})
          /\ Cardinality(Running(j) \cup {k}) = Cardinality(Running(j)) + 1
      <4> DEFINE R == Running(j)
      <4>1. IsFiniteSet(R) /\ k \notin R
        BY <1>2, <3>1 DEF Running
      <4> HIDE DEF R
      <4>2. IsFiniteSet(R \cup {k}) /\ Cardinality(R \cup {k}) = Cardinality(R) + 1
        BY <4>1, FS_AddElement
      <4>3. QED BY <4>2 DEF R
    <3>7. Cardinality(T) <= Cardinality(Running(j) \cup {k})
          /\ Cardinality(Running(j) \cup {k}) \in Nat
      BY <3>5, <3>6, FS_Subset, FS_CardinalityType
    <3>8. QED BY <1>2, <1>3, <1>7, <3>4, <3>6, <3>7
  <2>4. QED BY <2>2, <2>3
<1>8. QED BY <1>6, <1>7, LeaseContinues

\* The jobs in progress under the current lease respect its concurrency limit.
THEOREM ConcurrencyRespected == Spec => []ConcurrencyHolds
<1>1. Init => ConcurrencyHolds
  BY DEF Init, AuthorityInit, Observe, ConcurrencyHolds
<1>2. QED
  BY <1>1, ConcurrencyStep, CoreInvariant, PTL DEF Spec

-----------------------------------------------------------------------------
(* Action properties *)

\* The result of a job is final.
THEOREM ResultsFinal == Spec => ResultIsFinal
<1> DEFINE Final == \A j \in Jobs : jobState[j] \in Ended => jobState'[j] = jobState[j]
<1>1. CoreInv /\ [Next]_vars => [Final]_vars
  BY RowsPersist
<1>2. QED
  BY <1>1, CoreInvariant, PTL DEF Spec, ResultIsFinal

\* A success goes on record only under the active lease the job was prepared for.
THEOREM SuccessAuthorized == Spec => SuccessUnderOwnLease
<1> DEFINE Owned == \A j \in Jobs : j \in succeeded' \ succeeded =>
                      /\ lease.status = "active" /\ ~overdue
                      /\ lease.gen = jobLease[j] /\ jobHost[j] \in lease.hosts
<1>1. [Next]_vars => [Owned]_vars
  <2> SUFFICES ASSUME [Next]_vars, NEW k \in Jobs, k \in succeeded' \ succeeded
               PROVE  /\ lease.status = "active" /\ ~overdue
                      /\ lease.gen = jobLease[k] /\ jobHost[k] \in lease.hosts
    OBVIOUS
  <2>1. CASE \E j \in Jobs, stored \in BOOLEAN : Record(j, stored)
    BY <2>1
    DEF Record, StillAdmitted, Admitted, Authorized, ActiveFor, InScope
  <2>2. CASE ~\E j \in Jobs, stored \in BOOLEAN : Record(j, stored)
    BY <2>2
    DEF Next, Controller, Remote, OtherRequest, Clock, Shutdown, Restart, Prepare,
        ReviewLapses, Claim, Reserve, ReserveDenied, Start, StartDenied, PollDenied,
        RunnerFailed, Finish, Timeout, CancelDone, Cancel, CancelAgain, Connect, Deliver,
        Disconnect, RemoteExit, vars, jobVars, auditVars
  <2>3. QED BY <2>1, <2>2
<1>2. QED
  BY <1>1, PTL DEF Spec, SuccessUnderOwnLease

\* Both sides of the record: no execution before the attempt is stored, no verified
\* job without its success.
THEOREM JobsRecorded == Spec => []JobsOnRecord
<1>1. CoreInv => JobsOnRecord
  BY DEF CoreInv, JobsFit, RemoteOK, RowOK, AttemptOnRecord, VerifiedIsBacked, JobsOnRecord
<1>2. QED BY <1>1, CoreInvariant, PTL

\* Hosts and the concurrency of the lease keep jobs apart.
THEOREM JobsApart == Spec => []JobsKeepApart
<1>1. TypeOK /\ OneJobPerHost /\ ConcurrencyHolds => JobsKeepApart
  BY DEF JobsKeepApart
<1>2. QED BY <1>1, TypeCorrect, JobExclusion, ConcurrencyRespected, PTL
=============================================================================
