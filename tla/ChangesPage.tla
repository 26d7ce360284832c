------------------------------ MODULE ChangesPage -----------------------------
(***************************************************************************)
(* The page of change transactions (ui/app/changes/page.tsx).              *)
(*                                                                         *)
(* A click is one request at a time, whose answer replaces the row; a      *)
(* timer reads the whole list every five seconds and replaces all rows,    *)
(* also while a click is under way, and in whatever order the lists come.  *)
(* Of the backend (changes.py) the page sees the state of a transaction    *)
(* and, once, the token of its approval.                                   *)
(***************************************************************************)
EXTENDS Browser

CONSTANTS
    Plans,        \* bound: transactions made
    Worked,       \* bound: those whose buttons are clicked
    MaxLists      \* bound: lists under way at once
ASSUME PageBounds == Worked \subseteq Plans /\ MaxLists \in Nat

VARIABLES
    cpRows,     \* items: the state each transaction is shown in, Nil if it is not there
    cpTokens,   \* tokens: the transactions this page was given the token of
    cpEditing,  \* editingId
    cpCall,     \* the request of call; busy
    cpLists,    \* the lists under way
    cpBack      \* backend: the transactions

cpVars == <<cpRows, cpTokens, cpEditing, cpCall, cpLists, cpBack>>

Unstarted == {"planned", "previewed", "approved"}
Staged == {"backed_up", "applying", "validating", "activating"}
Started == Staged \cup {"verifying", "accepted", "rolled_back"}
Terminal == {"cancelled", "dropped"}
ASSUME NilIsNoPlan == Nil \notin Plans
ASSUME NilIsNoState == Nil \notin Unstarted \cup Started \cup Terminal
\* A cancelled transaction keeps its preview; "dropped" is one that had any.
Cancelled(state) == IF state = "planned" THEN "cancelled" ELSE "dropped"

Requests == {"preview", "approve", "start", "advance", "accept", "rollback", "cancel",
             "skip", "save"}
cpBusy == cpCall # Nil

\* A page opened on what the backend has.
CpInit(made) ==
    /\ cpRows = [p \in Plans |-> Nil] /\ cpTokens = {}
    /\ cpEditing = Nil /\ cpCall = Nil /\ cpLists = {}
    /\ cpBack = [p \in Plans |-> IF p \in made THEN "planned" ELSE Nil]

-----------------------------------------------------------------------------
(* The list *)

\* load; lists asked for and not served yet are one, as their answers are.
LoadAgain ==
    /\ Open(cpLists) # {} \/ Cardinality(cpLists) < MaxLists
    /\ cpLists' = cpLists \cup {[answer |-> "asked", rows |-> Nil]}

\* On mounting and every five seconds.
AskList ==
    /\ Open(cpLists) = {} /\ LoadAgain
    /\ UNCHANGED <<cpRows, cpTokens, cpEditing, cpCall, cpBack>>

ListServed(l) ==
    /\ l \in Open(cpLists)
    /\ cpLists' = Serve(cpLists, l, [answer |-> "ok", rows |-> cpBack])
    /\ UNCHANGED <<cpRows, cpTokens, cpEditing, cpCall, cpBack>>

\* setItems, whatever happened since the list was read.
ListArrives(l) ==
    /\ l \in Answered(cpLists)
    /\ cpRows' = l.rows
    /\ cpLists' = cpLists \ {l}
    /\ UNCHANGED <<cpTokens, cpEditing, cpCall, cpBack>>

ListLost(l) ==
    /\ l \in cpLists /\ cpLists' = cpLists \ {l}
    /\ UNCHANGED <<cpRows, cpTokens, cpEditing, cpCall, cpBack>>

-----------------------------------------------------------------------------
(* The buttons *)

\* What a row offers for the state it shows.
Offers(p, request) ==
    CASE request = "preview" -> cpRows[p] = "planned"
      [] request = "approve" -> cpRows[p] = "previewed"
      [] request = "start" -> cpRows[p] = "approved" /\ p \in cpTokens
      [] request = "advance" -> cpRows[p] \in Staged
      [] request \in {"accept", "rollback"} -> cpRows[p] = "verifying"
      [] request \in {"cancel", "skip"} -> cpRows[p] \in Unstarted
      [] OTHER -> FALSE

\* The request call sends, for a row or for the form.
Asks(p, request) == [plan |-> p, request |-> request, answer |-> "asked", row |-> Nil]

\* Faulty variant of Click: start is shown as done before it is.
ClickAndShow(p, request) ==
    /\ ~cpBusy /\ Offers(p, request)
    /\ cpCall' = Asks(p, request)
    /\ cpRows' = IF request = "start" THEN [cpRows EXCEPT ![p] = "backed_up"] ELSE cpRows
    /\ UNCHANGED <<cpTokens, cpEditing, cpLists, cpBack>>

Click(p, request) ==
    /\ ~cpBusy /\ Offers(p, request)
    /\ cpCall' = Asks(p, request)
    /\ UNCHANGED <<cpRows, cpTokens, cpEditing, cpLists, cpBack>>

\* edit loads the form of a plan that can still be changed.
EditPlan(p) ==
    /\ ~cpBusy /\ cpRows[p] \in Unstarted
    /\ cpEditing' = p
    /\ UNCHANGED <<cpRows, cpTokens, cpCall, cpLists, cpBack>>

StopEditing ==
    /\ cpEditing # Nil /\ cpEditing' = Nil
    /\ UNCHANGED <<cpRows, cpTokens, cpCall, cpLists, cpBack>>

\* create: the form makes a new transaction, or revises the one being edited,
\* whatever has become of it since the form was loaded.
SavePlan ==
    /\ ~cpBusy
    /\ cpCall' = Asks(cpEditing, "save")
    /\ UNCHANGED <<cpRows, cpTokens, cpEditing, cpLists, cpBack>>

-----------------------------------------------------------------------------
(* The backend *)

NextStage(state) ==
    CASE state = "backed_up" -> "applying" [] state = "applying" -> "validating"
      [] state = "validating" -> "activating" [] OTHER -> "verifying"

\* What a transaction may become by a request; nothing when it is refused.
Becomes(state, request) ==
    CASE request = "preview" /\ state \in {"planned", "previewed"} -> {"previewed"}
      [] request = "approve" /\ state = "previewed" -> {"approved"}
      [] request = "start" /\ state = "approved" -> {"backed_up"}
      [] request = "advance" /\ state \in Staged -> {NextStage(state)}
      [] request = "accept" /\ state = "verifying" -> {"accepted"}
      [] request = "rollback" /\ state = "verifying" -> {"rolled_back"}
      [] request = "cancel" /\ state \in Unstarted -> {Cancelled(state)}
      [] OTHER -> {}

ClickServed ==
    /\ cpBusy /\ cpCall.answer = "asked" /\ cpCall.plan # Nil
    /\ \E new \in Becomes(cpBack[cpCall.plan], cpCall.request) :
         /\ cpBack' = [cpBack EXCEPT ![cpCall.plan] = new]
         /\ cpCall' = [cpCall EXCEPT !.answer = "ok", !.row = new]
    /\ UNCHANGED <<cpRows, cpTokens, cpEditing, cpLists>>

\* Faulty variant of SaveServed: a revised plan is cancelled as it was loaded.
SaveServedAnyway(new) ==
    /\ cpBusy /\ cpCall.answer = "asked" /\ cpCall.request \in {"save", "skip"}
    /\ cpBack[new] = Nil
    /\ cpBack' = [p \in Plans |->
         IF p = new THEN "planned" ELSE IF p = cpCall.plan THEN Cancelled(cpBack[p]) ELSE cpBack[p]]
    /\ cpCall' = [cpCall EXCEPT !.answer = "ok", !.plan = new, !.row = "planned"]
    /\ UNCHANGED <<cpRows, cpTokens, cpEditing, cpLists>>

\* A saved plan and one without a host are new transactions, and the one they
\* replace is cancelled, if it has not started.
SaveServed(new) ==
    /\ cpBusy /\ cpCall.answer = "asked" /\ cpCall.request \in {"save", "skip"}
    /\ cpBack[new] = Nil
    /\ cpCall.plan # Nil => cpBack[cpCall.plan] \in Unstarted
    /\ cpBack' = [p \in Plans |->
         IF p = new THEN "planned" ELSE IF p = cpCall.plan THEN Cancelled(cpBack[p]) ELSE cpBack[p]]
    /\ cpCall' = [cpCall EXCEPT !.answer = "ok", !.plan = new, !.row = "planned"]
    /\ UNCHANGED <<cpRows, cpTokens, cpEditing, cpLists>>

\* Refused, or the answer lost.
CallRefused ==
    /\ cpBusy /\ cpCall.answer # "failed"
    /\ cpCall' = [cpCall EXCEPT !.answer = "failed", !.row = Nil]
    /\ UNCHANGED <<cpRows, cpTokens, cpEditing, cpLists, cpBack>>

\* The answer is the row from now on, and a token is kept beside it; a saved plan
\* and a skipped host have the list read again.
CallAnswered ==
    /\ cpBusy /\ cpCall.answer = "ok"
    /\ cpTokens' = IF cpCall.request = "approve" THEN cpTokens \cup {cpCall.plan} ELSE cpTokens
    /\ cpRows' = [cpRows EXCEPT ![cpCall.plan] = cpCall.row]
    /\ cpEditing' = IF cpCall.request = "save" THEN Nil ELSE cpEditing
    /\ IF cpCall.request \in {"save", "skip"} THEN LoadAgain ELSE UNCHANGED cpLists
    /\ cpCall' = Nil
    /\ UNCHANGED cpBack

CallFails ==
    /\ cpBusy /\ cpCall.answer = "failed" /\ cpCall' = Nil
    /\ IF cpCall.request = "skip" THEN LoadAgain ELSE UNCHANGED cpLists
    /\ UNCHANGED <<cpRows, cpTokens, cpEditing, cpBack>>

-----------------------------------------------------------------------------
(* What is drawn *)

\* The stages a transaction has evidence of.
Evidence(state) ==
    CASE state = "backed_up" -> {"Backup"}
      [] state = "applying" -> {"Backup", "Apply"}
      [] state = "validating" -> {"Backup", "Apply", "Validate"}
      [] state = "activating" -> {"Backup", "Apply", "Validate", "Activate"}
      [] state \in {"verifying", "accepted"} ->
             {"Backup", "Apply", "Validate", "Activate", "Verify"}
      [] state = "rolled_back" ->
             {"Backup", "Apply", "Validate", "Activate", "Verify", "Rollback"}
      [] OTHER -> {}

\* completedSteps, for a plan with a service action.
CompletedSteps(state) ==
    {"Inspect", "Plan"}
      \cup (IF state \in {"planned", "cancelled"} THEN {} ELSE {"Preview"})
      \cup Evidence(state)
      \cup (IF "Validate" \in Evidence(state) THEN {"Activate"} ELSE {})

-----------------------------------------------------------------------------
CpUser ==
    \/ \E p \in Worked, r \in Requests : Click(p, r)
    \/ \E p \in Plans : EditPlan(p)
    \/ StopEditing \/ SavePlan

CpAnswers ==
    \/ ClickServed \/ (\E p \in Plans : SaveServed(p)) \/ CallRefused
    \/ CallAnswered \/ CallFails

CpListAsked == AskList
CpListServed == \E l \in cpLists : ListServed(l)
CpListArrives == \E l \in cpLists : ListArrives(l)
CpListLost == \E l \in cpLists : ListLost(l)

CpNext == CpUser \/ CpAnswers \/ CpListAsked \/ CpListServed \/ CpListArrives \/ CpListLost

-----------------------------------------------------------------------------
(* Properties *)

\* The page may lag behind the backend, but no answer, late list or failure
\* makes it draw a step as complete that the transaction did not get to
\* (completedSteps).
ProgressNotAhead ==
    \A p \in Plans :
        cpRows[p] # Nil => CompletedSteps(cpRows[p]) \subseteq CompletedSteps(cpBack[p])

\* A transaction that has started is not cancelled, neither by a form that was
\* loaded before it started nor by a button of a row that lags behind.
StartedIsKept ==
    [][\A p \in Plans : cpBack[p] \in Started => cpBack'[p] \in Started]_cpVars

\* The page catches up with the backend again and again, whatever answers are
\* lost, refused or overtaken: the list is read every five seconds.
PageCatchesUp == \A p \in Plans : []<>(cpRows[p] = cpBack[p])
===============================================================================
