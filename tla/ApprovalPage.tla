------------------------------ MODULE ApprovalPage ----------------------------
(***************************************************************************)
(* The two pages that turn an approval into an action: ui/app/backups and  *)
(* ui/app/remediation (page.tsx), which differ in wording only.            *)
(*                                                                         *)
(* A preview asks the backend for a token, the confirmation spends it; the *)
(* selects, Cancel and the password stay enabled while a request is under  *)
(* way.  The backend answers a preview with a new token, and a             *)
(* confirmation with what it did under the token, or not at all.           *)
(***************************************************************************)
EXTENDS Browser

CONSTANTS
    PolicyHosts, Actions,  \* what the policy offers
    Tokens                 \* bound: the previews a behaviour may ask for
ASSUME SomeAction == PolicyHosts # {} /\ Actions # {}

VARIABLES
    apLoaded,
    apHost, apAction,      \* the selection
    apPreview, apOutcome,  \* the cards on screen
    apCall,                \* the request under way; busy
    apIssued,              \* backend: what each token is for
    apSent                 \* observer: how often a token was sent

apVars == <<apLoaded, apHost, apAction, apPreview, apOutcome, apCall, apIssued, apSent>>

apBusy == apCall # Nil
First(set) == CHOOSE x \in set : TRUE
\* moved is an observer: the selection changed while the card was asked for.
Card(token, host, action) ==
    [token |-> token, host |-> host, action |-> action, moved |-> FALSE]
Subject(card) == <<card.host, card.action>>
Cards == [token : Tokens \cup {Nil}, host : PolicyHosts, action : Actions, moved : BOOLEAN]
Calls == [kind : {"preview", "execute"}, card : Cards, answer : {"asked", "ok", "failed"}]
ASSUME NilIsNothing == Nil \notin PolicyHosts \X Actions /\ Nil \notin Calls

ApInit ==
    /\ apLoaded = FALSE /\ apHost = Nil /\ apAction = Nil
    /\ apPreview = Nil /\ apOutcome = Nil /\ apCall = Nil
    /\ apIssued = [t \in Tokens |-> Nil]
    /\ apSent = [t \in Tokens |-> 0]

\* The policy arrives and the first host with an action is chosen.
LoadPolicy ==
    /\ ~apLoaded /\ apLoaded' = TRUE
    /\ apHost' = First(PolicyHosts) /\ apAction' = First(Actions)
    /\ UNCHANGED <<apPreview, apOutcome, apCall, apIssued, apSent>>

\* The selects are enabled while a preview is under way.
Moved ==
    apCall' = IF apBusy /\ apCall.kind = "preview"
              THEN [apCall EXCEPT !.card.moved = TRUE] ELSE apCall

ChooseHost(h) ==
    /\ apLoaded
    /\ apHost' = h /\ apAction' = First(Actions)
    /\ apPreview' = Nil /\ apOutcome' = Nil
    /\ Moved
    /\ UNCHANGED <<apLoaded, apIssued, apSent>>

\* Faulty variant of ChooseAction: the preview of the other action stays.
ChooseActionOnly(a) ==
    /\ apLoaded
    /\ apAction' = a
    /\ Moved
    /\ UNCHANGED <<apLoaded, apHost, apPreview, apOutcome, apIssued, apSent>>

ChooseAction(a) ==
    /\ apLoaded
    /\ apAction' = a /\ apPreview' = Nil
    /\ Moved
    /\ UNCHANGED <<apLoaded, apHost, apOutcome, apIssued, apSent>>

\* createPreview up to its await; a preview on screen stays there.
CreatePreview ==
    /\ apLoaded /\ ~apBusy
    /\ apOutcome' = Nil
    /\ apCall' = [kind |-> "preview", card |-> Card(Nil, apHost, apAction), answer |-> "asked"]
    /\ UNCHANGED <<apLoaded, apHost, apAction, apPreview, apIssued, apSent>>

\* if (!preview || busy) return
MayExecute == apPreview # Nil /\ ~apBusy

\* execute up to its await: the token of the card on screen is sent.
SendToken ==
    /\ MayExecute
    /\ apCall' = [kind |-> "execute", card |-> apPreview, answer |-> "asked"]
    /\ apSent' = [apSent EXCEPT ![apPreview.token] = @ + 1]
    /\ UNCHANGED <<apLoaded, apHost, apAction, apPreview, apOutcome, apIssued>>

\* Cancel is enabled at all times; it takes the card away, not the request.
CancelPreview ==
    /\ apPreview # Nil /\ apPreview' = Nil
    /\ UNCHANGED <<apLoaded, apHost, apAction, apOutcome, apCall, apIssued, apSent>>

\* The backend, which may also refuse or not be heard.
ApServed ==
    /\ apBusy /\ apCall.answer = "asked"
    /\ IF apCall.kind = "preview"
       THEN \E t \in Tokens :
              /\ apIssued[t] = Nil
              /\ apIssued' = [apIssued EXCEPT ![t] = Subject(apCall.card)]
              /\ apCall' = [apCall EXCEPT !.answer = "ok", !.card.token = t]
       ELSE apCall' = [apCall EXCEPT !.answer = "ok"] /\ UNCHANGED apIssued
    /\ UNCHANGED <<apLoaded, apHost, apAction, apPreview, apOutcome, apSent>>

ApRefused ==
    /\ apBusy /\ apCall.answer # "failed"
    /\ apCall' = [apCall EXCEPT !.answer = "failed"]
    /\ UNCHANGED <<apLoaded, apHost, apAction, apPreview, apOutcome, apIssued, apSent>>

PreviewArrives ==
    /\ apBusy /\ apCall.kind = "preview" /\ apCall.answer = "ok"
    /\ apPreview' = apCall.card /\ apCall' = Nil
    /\ UNCHANGED <<apLoaded, apHost, apAction, apOutcome, apIssued, apSent>>

OutcomeArrives ==
    /\ apBusy /\ apCall.kind = "execute" /\ apCall.answer = "ok"
    /\ apOutcome' = apCall.card /\ apPreview' = Nil /\ apCall' = Nil
    /\ UNCHANGED <<apLoaded, apHost, apAction, apIssued, apSent>>

\* Faulty variant of ApFails: the spent token stays on the screen.
ApFailsAndKeeps ==
    /\ apBusy /\ apCall.answer = "failed"
    /\ apCall' = Nil
    /\ UNCHANGED <<apLoaded, apHost, apAction, apPreview, apOutcome, apIssued, apSent>>

\* A failed preview leaves the card that was there, a failed execution none.
ApFails ==
    /\ apBusy /\ apCall.answer = "failed"
    /\ apPreview' = IF apCall.kind = "execute" THEN Nil ELSE apPreview
    /\ apCall' = Nil
    /\ UNCHANGED <<apLoaded, apHost, apAction, apOutcome, apIssued, apSent>>

ApUser ==
    \/ \E h \in PolicyHosts : ChooseHost(h)
    \/ \E a \in Actions : ChooseAction(a)
    \/ CreatePreview \/ SendToken \/ CancelPreview

ApAnswers == LoadPolicy \/ ApServed \/ ApRefused \/ PreviewArrives \/ OutcomeArrives \/ ApFails

ApNext == ApUser \/ ApAnswers

-----------------------------------------------------------------------------
(* Properties *)

\* The page implements the approval: whatever is clicked, cancelled or lost, a
\* token is sent at most once, and only one that was issued (execute, Cancel).
Tokens1 == INSTANCE OneShot WITH
    Ids <- Tokens, issued <- {t \in Tokens : apIssued[t] # Nil}, uses <- apSent
TokenOnce == Tokens1!ShotSpec

\* The token about to be confirmed was issued for what the card and the selects
\* above it say, unless the selection was changed while the preview was under
\* way: the answer is then shown for the selection of the request.
CardFitsSelection ==
    apPreview # Nil =>
        /\ apIssued[apPreview.token] = Subject(apPreview)
        /\ apPreview.moved \/ Subject(apPreview) = <<apHost, apAction>>

\* The outcome on screen is that of a token that was sent, and no token is
\* offered beside it.
OutcomeStandsAlone == apOutcome # Nil => apSent[apOutcome.token] > 0 /\ apPreview = Nil

\* The cards in every state: what is about to be confirmed, and what was done.
CardsHold == CardFitsSelection /\ OutcomeStandsAlone
===============================================================================
