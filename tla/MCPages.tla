-------------------------------- MODULE MCPages -------------------------------
(***************************************************************************)
(* The web interface for TLC: one page, or one widget of the kit, mounted  *)
(* at a time, each over the part of the backend it talks to.               *)
(***************************************************************************)
EXTENDS Console, ScriptPages, ApprovalPage, VmsPage, ChangesPage, HistoryPage, Shell,
        AuthorityPanel, Sidebar, Carousel, Layers

CONSTANTS v1, v2, c1, c2, c3, c4, n1, k1

VARIABLE mounted
vars == <<mounted, chatVars, scriptVars, apVars, vmVars, cpVars, hpVars, shVars, auVars,
          sbVars, crVars, lyVars>>

\* The conversation c1 of v1 is stored, c1 and c2 of the history are of one VM.
StoredChats == [c \in Chats |-> IF c = c1 THEN v1 ELSE Nil]
HistoryVm == [c \in {c1, c2, c3} |-> IF c = c3 THEN v2 ELSE v1]

Pages == {"console", "scripts", "approval", "vms", "changes", "history", "shell", "authority",
          "sidebar", "carousel", "layers"}

\* What is not mounted starts, and stays, in one of its initial states.
Init ==
    /\ mounted \in Pages
    /\ ConsoleInit(StoredChats) /\ ScriptInit /\ ApInit
    /\ VmInit([n \in Names |-> IF n = n1 THEN "lab" ELSE Nil])
    /\ CpInit(IF mounted = "changes" THEN {k1} ELSE {}) /\ HpInit
    /\ ShInit /\ (mounted # "shell" => ~shMust)
    /\ AuInit
    /\ SbInit /\ (mounted # "sidebar" => sbKind = "icon" /\ sbParent = Nil /\ ~sbNarrow)
    /\ CrInit /\ (mounted # "carousel" => ~crLoop /\ crSlides = 1)
    /\ LyInit /\ (mounted # "layers" => lyKinds = {"dialog"})

\* Only the mounted page moves.
Alone ==
    /\ UNCHANGED mounted
    /\ mounted # "console" => UNCHANGED chatVars
    /\ mounted # "scripts" => UNCHANGED scriptVars
    /\ mounted # "approval" => UNCHANGED apVars
    /\ mounted # "vms" => UNCHANGED vmVars
    /\ mounted # "changes" => UNCHANGED cpVars
    /\ mounted # "history" => UNCHANGED hpVars
    /\ mounted # "shell" => UNCHANGED shVars
    /\ mounted # "authority" => UNCHANGED auVars
    /\ mounted # "sidebar" => UNCHANGED sbVars
    /\ mounted # "carousel" => UNCHANGED crVars
    /\ mounted # "layers" => UNCHANGED lyVars

Next ==
    /\ \/ mounted = "console" /\ ConsoleNext
       \/ mounted = "scripts" /\ ScriptNext
       \/ mounted = "approval" /\ ApNext
       \/ mounted = "vms" /\ VmNext
       \/ mounted = "changes" /\ CpNext
       \/ mounted = "history" /\ HpNext
       \/ mounted = "shell" /\ ShNext
       \/ mounted = "authority" /\ AuNext
       \/ mounted = "sidebar" /\ SbNext
       \/ mounted = "carousel" /\ CrNext
       \/ mounted = "layers" /\ LyNext
    /\ Alone

\* A request is answered or fails, and its answer is applied; removals, jobs and
\* navigations end as well; timers tick; and of the readings a timer repeats
\* some are served and applied, as long as it repeats them.
Answering ==
    /\ \/ mounted = "console" /\ ChatAnswers
       \/ mounted = "scripts" /\ ScriptAnswers
       \/ mounted = "vms" /\ VmAnswers
       \/ mounted = "changes" /\ CpAnswers
       \/ mounted = "shell" /\ ShAnswers
       \/ mounted = "authority" /\ AuAnswers
    /\ Alone
Ending ==
    /\ \/ mounted = "scripts" /\ ScriptJobsEnd
       \/ mounted = "vms" /\ VmRemovalAnswers
       \/ mounted = "shell" /\ RouterArrives
    /\ Alone
Timers ==
    /\ \/ mounted = "scripts" /\ Poll
       \/ mounted = "changes" /\ CpListAsked
       \/ mounted = "authority" /\ Tick
    /\ Alone
ReadingsServed ==
    /\ \/ mounted = "scripts" /\ PollReaches
       \/ mounted = "changes" /\ CpListServed
       \/ mounted = "authority" /\ AuReadingServed
    /\ Alone
ReadingsApplied ==
    /\ \/ mounted = "scripts" /\ PollApplied
       \/ mounted = "changes" /\ CpListArrives
       \/ mounted = "authority" /\ AuReadingApplied
    /\ Alone

Fairness ==
    /\ WF_vars(Answering) /\ WF_vars(Ending) /\ WF_vars(Timers)
    /\ SF_vars(ReadingsServed) /\ SF_vars(ReadingsApplied)

Spec == Init /\ [][Next]_vars /\ Fairness

\* While the gate is around a page it is settled again and again: it shows the page,
\* or says that the backend is away (ui/components/auth-gate.tsx).
GateSettles == []<>(mounted = "shell" => GateSettled)

\* Every wait of a page ends: the notices and disabled buttons of the console and
\* of the page of machines, and the splash (the finally branches).
WaitsEnd == ConsoleSettles /\ VmsSettle /\ GateSettles

\* What a page shows of the backend catches up with it, whatever answers are lost:
\* a running job, the transactions and the authority (the timers).
PagesFollow == RunIsFollowed /\ PageCatchesUp /\ BannerIsCorrected
===============================================================================
