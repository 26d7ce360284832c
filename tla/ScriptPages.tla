------------------------------ MODULE ScriptPages -----------------------------
(***************************************************************************)
(* The pages that prepare scripts: ui/app/dynamic/page.tsx, which is also  *)
(* the page of host scripts, and ui/app/software/page.tsx, which prepares  *)
(* an installation and hands over to the review of it.                     *)
(*                                                                         *)
(* A draft stands for script, verifier and time limit; the fields a button *)
(* only asks to be filled (task, password) are filled when it is pressed.  *)
(* Of a job the backend keeps the draft and the machine it was prepared    *)
(* for, which its digest covers, and how far it got.                       *)
(***************************************************************************)
EXTENDS Browser

CONSTANTS
    Machines, Drafts,
    Wishes,      \* what the form of the software page can say
    JobIds       \* bound: the jobs a behaviour may prepare
ASSUME SomeMachine == Machines # {}
ASSUME NilIsNoJob == Nil \notin JobIds

VARIABLES
    scriptPage,    \* "software" or "scripts"
    scriptWanted,  \* the ?job= of the address
    scriptLoad,    \* "hosts", "saved", "done" or "failed"
    scriptHost, scriptDraft, scriptJob,
    scriptCall,    \* the request of act, preview or prepareInstall; busy
    scriptPolls,   \* polls whose effect is still active
    scriptJobs,    \* backend: the jobs
    softWish, softPlan

scriptVars == <<scriptPage, scriptWanted, scriptLoad, scriptHost, scriptDraft, scriptJob,
                scriptCall, scriptPolls, scriptJobs, softWish, softPlan>>
scriptForm == <<scriptHost, scriptDraft>>
softVars == <<softWish, softPlan>>

Job(id, draft, host, state) == [id |-> id, draft |-> draft, host |-> host, state |-> state]
Ended == {"ended"}   \* verified, failed, cancelled
NoJob == Job(Nil, Nil, Nil, "none")
FreeIds == {i \in JobIds : scriptJobs[i] = NoJob}

scriptBusy == scriptCall # Nil
Ask(kind, job) == [kind |-> kind, job |-> job, answer |-> "asked"]

ScriptInit ==
    /\ scriptPage = "software" /\ scriptWanted = Nil /\ scriptLoad = "hosts"
    /\ scriptHost = Nil /\ scriptDraft = CHOOSE d \in Drafts : TRUE
    /\ scriptJob = NoJob /\ scriptCall = Nil /\ scriptPolls = {}
    /\ scriptJobs = [i \in JobIds |-> NoJob]
    /\ softWish = CHOOSE w \in Wishes : TRUE
    /\ softPlan = Nil

-----------------------------------------------------------------------------
(* The effects *)

\* Faulty variant of Watch: the effect does not end when the job changes.
WatchOn(job) == scriptPolls
\* The polling effect is keyed by the id and the state of the job: a change of
\* either ends it, and the answers still under way are dropped.
Watch(job) ==
    IF job.id = scriptJob.id /\ job.state = scriptJob.state THEN scriptPolls ELSE {}

ShowJob(job) == scriptJob' = job /\ scriptPolls' = Watch(job)

\* Faulty variant of Poll: the timer runs only while the request of the run does.
PollWhileBusy ==
    /\ scriptPage = "scripts" /\ scriptJob.state = "running" /\ Open(scriptPolls) = {}
    /\ scriptBusy
    /\ scriptPolls' = scriptPolls \cup {Ask("poll", scriptJob)}
    /\ UNCHANGED <<scriptPage, scriptWanted, scriptLoad, scriptForm, scriptJob, scriptCall,
                   scriptJobs, softVars>>

\* A running job is asked for every second; bound: one unserved poll.
Poll ==
    /\ scriptPage = "scripts" /\ scriptJob.state = "running" /\ Open(scriptPolls) = {}
    /\ scriptPolls' = scriptPolls \cup {Ask("poll", scriptJob)}
    /\ UNCHANGED <<scriptPage, scriptWanted, scriptLoad, scriptForm, scriptJob, scriptCall,
                   scriptJobs, softVars>>

PollServed(p) ==
    /\ p \in Open(scriptPolls)
    /\ scriptPolls' = Serve(scriptPolls, p,
                            [p EXCEPT !.answer = "ok", !.job = scriptJobs[p.job.id]])
    /\ UNCHANGED <<scriptPage, scriptWanted, scriptLoad, scriptForm, scriptJob, scriptCall,
                   scriptJobs, softVars>>

PollAnswered(p) ==
    /\ p \in Answered(scriptPolls)
    /\ scriptJob' = p.job
    /\ scriptPolls' = Watch(p.job) \ {p}
    /\ UNCHANGED <<scriptPage, scriptWanted, scriptLoad, scriptForm, scriptCall, scriptJobs,
                   softVars>>

PollLost(p) ==
    /\ p \in scriptPolls
    /\ scriptPolls' = scriptPolls \ {p}
    /\ UNCHANGED <<scriptPage, scriptWanted, scriptLoad, scriptForm, scriptJob, scriptCall,
                   scriptJobs, softVars>>

\* Session and machines are there; the first machine is chosen.
ScriptHosts ==
    /\ scriptLoad = "hosts"
    /\ scriptHost' \in Machines
    /\ scriptLoad' = IF scriptPage = "scripts" /\ scriptWanted # Nil THEN "saved" ELSE "done"
    /\ UNCHANGED <<scriptPage, scriptWanted, scriptDraft, scriptJob, scriptCall, scriptPolls,
                   scriptJobs, softVars>>

\* The job of the address arrives and replaces what the page shows.
SavedArrives ==
    /\ scriptLoad = "saved" /\ scriptLoad' = "done"
    /\ LET job == scriptJobs[scriptWanted]
       IN  ShowJob(job) /\ scriptHost' = job.host /\ scriptDraft' = job.draft
    /\ UNCHANGED <<scriptPage, scriptWanted, scriptCall, scriptJobs, softVars>>

ScriptLoadFails ==
    /\ scriptLoad \in {"hosts", "saved"} /\ scriptLoad' = "failed"
    /\ UNCHANGED <<scriptPage, scriptWanted, scriptForm, scriptJob, scriptCall, scriptPolls,
                   scriptJobs, softVars>>

-----------------------------------------------------------------------------
(* The form and the buttons of the script page *)

\* Machine, script, verifier and time limit: each edit takes the job away.
EditScript(host, draft) ==
    /\ scriptPage = "scripts" /\ ~scriptBusy
    /\ host = scriptHost \/ (host \in Machines /\ draft = scriptDraft /\ scriptHost # Nil)
    /\ scriptHost' = host /\ scriptDraft' = draft
    /\ ShowJob(NoJob)
    /\ UNCHANGED <<scriptPage, scriptWanted, scriptLoad, scriptCall, scriptJobs, softVars>>

\* act, up to its first await.
Generate ==
    /\ scriptPage = "scripts" /\ ~scriptBusy /\ scriptHost # Nil
    /\ ShowJob(NoJob)
    /\ scriptCall' = Ask("generate", Job(Nil, Nil, scriptHost, "none"))
    /\ UNCHANGED <<scriptPage, scriptWanted, scriptLoad, scriptForm, scriptJobs, softVars>>

Prepare ==
    /\ scriptPage = "scripts" /\ ~scriptBusy /\ scriptHost # Nil
    /\ scriptCall' = Ask("prepare", Job(Nil, scriptDraft, scriptHost, "none"))
    /\ UNCHANGED <<scriptPage, scriptWanted, scriptLoad, scriptForm, scriptJob, scriptPolls,
                   scriptJobs, softVars>>

RunJob ==
    /\ scriptPage = "scripts" /\ ~scriptBusy /\ scriptJob.state = "prepared"
    /\ ShowJob([scriptJob EXCEPT !.state = "running"])
    /\ scriptCall' = Ask("run", scriptJob)
    /\ UNCHANGED <<scriptPage, scriptWanted, scriptLoad, scriptForm, scriptJobs, softVars>>

-----------------------------------------------------------------------------
(* The backend *)

\* A draft is written, a job filed, a running job read again, a plan made.
ActServed(draft) ==
    /\ scriptBusy /\ scriptCall.answer = "asked"
    /\ \/ /\ scriptCall.kind = "generate"
          /\ scriptCall' = [scriptCall EXCEPT !.answer = "ok", !.job.draft = draft]
          /\ UNCHANGED scriptJobs
       \/ /\ scriptCall.kind \in {"prepare", "install"}
          /\ FreeIds # {}
          /\ LET id == CHOOSE i \in FreeIds : TRUE
                 job == Job(id, scriptCall.job.draft, scriptCall.job.host, "prepared")
             IN  /\ scriptJobs' = [scriptJobs EXCEPT ![id] = job]
                 /\ scriptCall' = [scriptCall EXCEPT !.answer = "ok", !.job = job]
       \/ /\ scriptCall.kind = "refetch"
          /\ scriptCall' = [scriptCall EXCEPT !.answer = "ok",
                                              !.job = scriptJobs[scriptCall.job.id]]
          /\ UNCHANGED scriptJobs
       \/ /\ scriptCall.kind = "plan"
          /\ scriptCall' = [scriptCall EXCEPT !.answer = "ok"]
          /\ UNCHANGED scriptJobs
    /\ UNCHANGED <<scriptPage, scriptWanted, scriptLoad, scriptForm, scriptJob, scriptPolls,
                   softVars>>

\* A prepared job starts.
JobStarts ==
    /\ scriptBusy /\ scriptCall.kind = "run" /\ scriptCall.answer = "asked"
    /\ scriptJobs[scriptCall.job.id].state = "prepared"
    /\ scriptJobs' = [scriptJobs EXCEPT ![scriptCall.job.id].state = "running"]
    /\ UNCHANGED <<scriptPage, scriptWanted, scriptLoad, scriptForm, scriptJob, scriptCall,
                   scriptPolls, softVars>>

\* It ends, and so does the request that waits for it, if it still does.
JobEnds(id, state) ==
    /\ scriptJobs[id].state = "running" /\ state \in Ended
    /\ scriptJobs' = [scriptJobs EXCEPT ![id].state = state]
    /\ scriptCall' = IF /\ scriptBusy /\ scriptCall.kind = "run"
                        /\ scriptCall.answer = "asked" /\ scriptCall.job.id = id
                     THEN [scriptCall EXCEPT !.answer = "ok", !.job = scriptJobs'[id]]
                     ELSE scriptCall
    /\ UNCHANGED <<scriptPage, scriptWanted, scriptLoad, scriptForm, scriptJob, scriptPolls,
                   softVars>>

\* A refusal, or a lost connection; the second leaves the backend going on.
ActRefused ==
    /\ scriptBusy /\ scriptCall.answer # "failed"
    /\ scriptCall' = [scriptCall EXCEPT !.answer = "failed"]
    /\ UNCHANGED <<scriptPage, scriptWanted, scriptLoad, scriptForm, scriptJob, scriptPolls,
                   scriptJobs, softVars>>

-----------------------------------------------------------------------------
(* act, after its await *)

Generated ==
    /\ scriptBusy /\ scriptCall.kind = "generate" /\ scriptCall.answer = "ok"
    /\ scriptDraft' = scriptCall.job.draft /\ scriptCall' = Nil
    /\ UNCHANGED <<scriptPage, scriptWanted, scriptLoad, scriptHost, scriptJob, scriptPolls,
                   scriptJobs, softVars>>

\* The answer of prepare, run and the second look is the job to show.
JobAnswered ==
    /\ scriptBusy /\ scriptCall.kind \in {"prepare", "run", "refetch"} /\ scriptCall.answer = "ok"
    /\ ShowJob(scriptCall.job) /\ scriptCall' = Nil
    /\ UNCHANGED <<scriptPage, scriptWanted, scriptLoad, scriptForm, scriptJobs, softVars>>

\* A failed run is looked at once more; every other failure is only shown.
ActFailed ==
    /\ scriptBusy /\ scriptCall.answer = "failed"
    /\ scriptCall' = IF scriptCall.kind = "run" THEN Ask("refetch", scriptCall.job) ELSE Nil
    /\ UNCHANGED <<scriptPage, scriptWanted, scriptLoad, scriptForm, scriptJob, scriptPolls,
                   scriptJobs, softVars>>

-----------------------------------------------------------------------------
(* The software page *)

EditWish(wish) ==
    /\ scriptPage = "software" /\ ~scriptBusy
    /\ softWish' = wish /\ softPlan' = Nil
    /\ UNCHANGED <<scriptPage, scriptWanted, scriptLoad, scriptForm, scriptJob, scriptCall,
                   scriptPolls, scriptJobs>>

PreviewPlan ==
    /\ scriptPage = "software" /\ ~scriptBusy /\ scriptHost # Nil
    /\ softPlan' = Nil
    /\ scriptCall' = Ask("plan", Job(Nil, softWish, scriptHost, "none"))
    /\ UNCHANGED <<scriptPage, scriptWanted, scriptLoad, scriptForm, scriptJob, scriptPolls,
                   scriptJobs, softWish>>

PlanAnswered ==
    /\ scriptBusy /\ scriptCall.kind = "plan" /\ scriptCall.answer = "ok"
    /\ softPlan' = [wish |-> scriptCall.job.draft, host |-> scriptCall.job.host]
    /\ scriptCall' = Nil
    /\ UNCHANGED <<scriptPage, scriptWanted, scriptLoad, scriptForm, scriptJob, scriptPolls,
                   scriptJobs, softWish>>

ChooseSoftHost(host) ==
    /\ scriptPage = "software" /\ ~scriptBusy /\ scriptHost # Nil
    /\ scriptHost' = host /\ softPlan' = Nil
    /\ UNCHANGED <<scriptPage, scriptWanted, scriptLoad, scriptDraft, scriptJob, scriptCall,
                   scriptPolls, scriptJobs, softWish>>

\* An installation is a draft of its own, made from the form by the backend.
PrepareInstall ==
    /\ scriptPage = "software" /\ ~scriptBusy /\ scriptHost # Nil
    /\ scriptCall' = Ask("install", Job(Nil, softWish, scriptHost, "none"))
    /\ UNCHANGED <<scriptPage, scriptWanted, scriptLoad, scriptForm, scriptJob, scriptPolls,
                   scriptJobs, softVars>>

\* The job is filed; the browser goes to the review of it, a page that begins
\* from nothing.
InstallReview ==
    /\ scriptBusy /\ scriptCall.kind = "install" /\ scriptCall.answer = "ok"
    /\ scriptPage' = "scripts" /\ scriptWanted' = scriptCall.job.id /\ scriptLoad' = "hosts"
    /\ scriptHost' = Nil /\ scriptDraft' = CHOOSE d \in Drafts : TRUE
    /\ scriptCall' = Nil /\ ShowJob(NoJob) /\ softPlan' = Nil /\ softWish' = Nil
    /\ UNCHANGED scriptJobs

\* The user goes to the script page by its link.
VisitScripts ==
    /\ scriptPage = "software" /\ ~scriptBusy /\ FreeIds = JobIds
    /\ scriptPage' = "scripts" /\ scriptWanted' = Nil /\ scriptLoad' = "hosts"
    /\ scriptHost' = Nil /\ softPlan' = Nil /\ softWish' = Nil
    /\ UNCHANGED <<scriptDraft, scriptJob, scriptCall, scriptPolls, scriptJobs>>

-----------------------------------------------------------------------------
ScriptUser ==
    \/ \E h \in Machines \cup {Nil}, d \in Drafts : EditScript(h, d)
    \/ Generate \/ Prepare \/ RunJob
    \/ \E w \in Wishes : EditWish(w)
    \/ \E h \in Machines : ChooseSoftHost(h)
    \/ PreviewPlan \/ PrepareInstall \/ VisitScripts

ScriptAnswers ==
    \/ \E d \in Drafts : ActServed(d)
    \/ JobStarts
    \/ Generated \/ JobAnswered \/ ActFailed
    \/ PlanAnswered \/ InstallReview
    \/ ScriptHosts \/ SavedArrives

\* Every run has a time limit.
ScriptJobsEnd == \E i \in JobIds, s \in Ended : JobEnds(i, s)

\* What may go wrong, and need not.
ScriptFaults ==
    \/ \E p \in scriptPolls : PollLost(p)
    \/ ActRefused
    \/ ScriptLoadFails

\* A poll may be lost, but not every one.
PollReaches == \E p \in scriptPolls : PollServed(p)
PollApplied == \E p \in scriptPolls : PollAnswered(p)

ScriptNext ==
    \/ ScriptUser \/ ScriptAnswers \/ ScriptJobsEnd \/ ScriptFaults
    \/ Poll \/ PollReaches \/ PollApplied

-----------------------------------------------------------------------------
(* Properties *)

\* The job offered for approval is the one of the script, verifier and machine
\* on the screen ("Any edit requires a new prepared job"), as long as the
\* address named no job that is still loaded under the user's hands.
ReviewedIsShown ==
    scriptJob.id # Nil /\ scriptWanted = Nil =>
        scriptJob.draft = scriptDraft /\ scriptJob.host = scriptHost

\* The plan on the software page is the plan of the form above it.
PlanIsOfForm == softPlan # Nil => softPlan = [wish |-> softWish, host |-> scriptHost]

\* A job shown as running is followed to its end, whether the answer of the run
\* arrives or is lost: polling goes on until the page knows better.
RunIsFollowed == []<>(scriptJob.state # "running")

\* What the two pages offer to run or install is what they show (invalidate, the
\* polling effect, setPlan).
OfferIsShown == ReviewedIsShown /\ PlanIsOfForm
===============================================================================
