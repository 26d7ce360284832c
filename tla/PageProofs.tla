------------------------------- MODULE PageProofs ------------------------------
(***************************************************************************)
(* What holds of the pages that turn an approval into an action, of the    *)
(* page of saved conversations, of the gate around every page and of the   *)
(* page of machines, for any policy and any number of previews,            *)
(* conversations, machines, host keys, sessions and answers under way.     *)
(***************************************************************************)
EXTENDS ApprovalPage, HistoryPage, Shell, VmsPage, FiniteSetTheorems, WellFoundedInduction, TLAPS

-----------------------------------------------------------------------------
(* Approvals: backups and remediation *)

ApSpec == ApInit /\ [][ApNext]_apVars

\* A card whose token was issued for what the card says.
Backs(card) ==
    /\ card.token \in Tokens
    /\ card \in Cards
    /\ apIssued[card.token] = Subject(card)

\* The request under way: a preview is for the selection unless that moved, an
\* execution for the card on screen unless that was taken away.
CallFits ==
    /\ apCall \in Calls
    /\ apCall.kind = "preview" =>
          /\ apOutcome = Nil
          /\ apCall.card.moved \/ Subject(apCall.card) = <<apHost, apAction>>
          /\ apCall.answer = "ok" => Backs(apCall.card) /\ apSent[apCall.card.token] = 0
          /\ apPreview # Nil => apSent[apPreview.token] = 0
    /\ apCall.kind = "execute" =>
          /\ Backs(apCall.card) /\ apSent[apCall.card.token] = 1
          /\ apPreview # Nil => apPreview = apCall.card

ApInv ==
    /\ apLoaded => apHost \in PolicyHosts /\ apAction \in Actions
    /\ apIssued \in [Tokens -> (PolicyHosts \X Actions) \cup {Nil}]
    /\ apSent \in [Tokens -> {0, 1}]
    /\ \A t \in Tokens : apSent[t] = 1 => apIssued[t] # Nil
    /\ apPreview # Nil =>
          /\ apLoaded /\ Backs(apPreview)
          /\ apPreview.moved \/ Subject(apPreview) = <<apHost, apAction>>
          /\ ~apBusy => apSent[apPreview.token] = 0
    /\ apOutcome # Nil =>
          apOutcome.token \in Tokens /\ apSent[apOutcome.token] = 1 /\ apPreview = Nil
    /\ apBusy => apLoaded /\ CallFits

-----------------------------------------------------------------------------
\* The selection moves: the cards go, and a preview under way is no longer for it.
LEMMA SelectionStep ==
    ASSUME ApInv,
           \/ \E h \in PolicyHosts : ChooseHost(h)
           \/ \E a \in Actions : ChooseAction(a)
    PROVE  ApInv'
<1>1. /\ apLoaded /\ apLoaded' = apLoaded
      /\ apHost' \in PolicyHosts /\ apAction' \in Actions
      /\ apPreview' = Nil /\ apOutcome' \in {Nil, apOutcome}
      /\ Moved /\ UNCHANGED <<apIssued, apSent>>
  <2>1. First(Actions) \in Actions
    BY SomeAction DEF First
  <2>2. QED BY <2>1 DEF ChooseHost, ChooseAction, ApInv
<1>2. apBusy' => CallFits'
  <2>1. CASE apBusy /\ apCall.kind = "preview"
    <3>1. /\ apCall' = [apCall EXCEPT !.card.moved = TRUE] /\ CallFits
      BY <1>1, <2>1 DEF Moved, ApInv
    <3>2. /\ apCall'.kind = "preview" /\ apCall'.answer = apCall.answer
          /\ apCall'.card.moved = TRUE /\ apCall'.card.token = apCall.card.token
          /\ Subject(apCall'.card) = Subject(apCall.card)
          /\ apCall' \in Calls /\ apCall'.card \in Cards
      BY <2>1, <3>1 DEF CallFits, Subject, Calls, Cards
    <3>3. Backs(apCall.card) => Backs(apCall.card)'
      BY <1>1, <3>2 DEF Backs
    <3>4. apCall'.answer = "ok" => Backs(apCall.card)' /\ apSent'[apCall'.card.token] = 0
      BY <1>1, <2>1, <3>1, <3>2, <3>3 DEF CallFits
    <3>5. apOutcome' = Nil
      BY <1>1, <2>1, <3>1 DEF CallFits
    <3>6. QED BY <1>1, <3>2, <3>4, <3>5 DEF CallFits
  <2>2. CASE ~(apBusy /\ apCall.kind = "preview")
    <3>1. apCall' = apCall
      BY <1>1, <2>2 DEF Moved
    <3>2. apBusy => CallFits /\ apCall.kind = "execute"
      BY <2>2 DEF ApInv, CallFits, Calls
    <3>3. apBusy' = apBusy
      BY <3>1 DEF apBusy
    <3>4. QED BY <1>1, <3>1, <3>2, <3>3 DEF CallFits, Backs
  <2>3. QED BY <2>1, <2>2
<1>3. QED BY <1>1, <1>2 DEF ApInv

\* A request is sent from the page.
LEMMA RequestStep ==
    ASSUME ApInv, CreatePreview \/ SendToken \/ CancelPreview
    PROVE  ApInv'
<1>1. CASE CreatePreview
  <2>1. CallFits'
    BY <1>1 DEF CreatePreview, ApInv, CallFits, Card, Cards, Calls, Subject, apBusy
  <2>2. QED BY <1>1, <2>1 DEF CreatePreview, ApInv, Backs, apBusy
<1>2. CASE SendToken
  <2>1. /\ apPreview # Nil /\ ~apBusy /\ apPreview.token \in Tokens
        /\ apSent[apPreview.token] = 0 /\ Backs(apPreview) /\ apOutcome = Nil
    BY <1>2 DEF SendToken, MayExecute, ApInv, Backs
  <2>2. /\ apSent' = [apSent EXCEPT ![apPreview.token] = 1]
        /\ apCall' = [kind |-> "execute", card |-> apPreview, answer |-> "asked"]
        /\ UNCHANGED <<apLoaded, apHost, apAction, apPreview, apOutcome, apIssued>>
    BY <1>2, <2>1 DEF SendToken, ApInv
  <2>3. CallFits'
    BY <2>1, <2>2 DEF CallFits, Calls, Backs, ApInv
  <2>4. apIssued[apPreview.token] # Nil
    BY <2>1, NilIsNothing DEF Backs, Subject, Cards
  <2>5. apLoaded
    BY <1>2, <2>1 DEF ApInv
  <2>6. /\ apSent' \in [Tokens -> {0, 1}]
        /\ \A t \in Tokens : apSent'[t] = 1 => apIssued'[t] # Nil
    BY <2>1, <2>2, <2>4 DEF ApInv
  <2>7. apBusy'
    BY <2>3, NilIsNothing DEF apBusy, CallFits
  <2>8. QED BY <2>1, <2>2, <2>3, <2>5, <2>6, <2>7 DEF ApInv, Backs
<1>3. CASE CancelPreview
  BY <1>3 DEF CancelPreview, ApInv, CallFits, Backs, apBusy
<1>4. QED BY <1>1, <1>2, <1>3

\* The backend answers, or nothing is heard of it.
LEMMA ServedStep ==
    ASSUME ApInv, ApServed \/ ApRefused
    PROVE  ApInv'
<1>1. CASE ApServed /\ apCall.kind = "preview"
  <2>1. PICK t \in Tokens :
           /\ apIssued[t] = Nil
           /\ apIssued' = [apIssued EXCEPT ![t] = Subject(apCall.card)]
           /\ apCall' = [apCall EXCEPT !.answer = "ok", !.card.token = t]
    BY <1>1 DEF ApServed
  <2>2. /\ apBusy /\ CallFits /\ apLoaded
        /\ UNCHANGED <<apLoaded, apHost, apAction, apPreview, apOutcome, apSent>>
    BY <1>1 DEF ApServed, ApInv
  <2>3. /\ apCall' \in Calls /\ apCall'.kind = "preview" /\ apCall'.card.token = t
        /\ Subject(apCall'.card) = Subject(apCall.card)
        /\ apCall'.card.moved = apCall.card.moved
        /\ Subject(apCall.card) \in PolicyHosts \X Actions
    BY <1>1, <2>1, <2>2 DEF CallFits, Calls, Cards, Subject
  <2>4. apSent[t] = 0 /\ (apPreview # Nil => apPreview.token # t)
    BY <2>1, NilIsNothing DEF ApInv, Backs, Subject, Cards
  <2>5. /\ apIssued' \in [Tokens -> (PolicyHosts \X Actions) \cup {Nil}]
        /\ apIssued'[t] = Subject(apCall.card)
        /\ \A u \in Tokens \ {t} : apIssued'[u] = apIssued[u]
    BY <2>1, <2>3 DEF ApInv
  <2>6. CallFits'
    <3>1. Backs(apCall.card)'
      BY <2>3, <2>5 DEF Backs, Calls
    <3>2. QED BY <1>1, <2>2, <2>3, <2>4, <3>1 DEF CallFits
  <2>7. apBusy'
    BY <2>3, NilIsNothing DEF apBusy
  <2>8. apPreview # Nil => Backs(apPreview)'
    BY <2>2, <2>4, <2>5 DEF ApInv, Backs
  <2>9. QED BY <2>2, <2>4, <2>5, <2>6, <2>7, <2>8 DEF ApInv
<1>2. CASE ApRefused \/ (ApServed /\ apCall.kind # "preview")
  <2>1. PICK answer \in {"ok", "failed"} :
           /\ apCall' = [apCall EXCEPT !.answer = answer]
           /\ answer = "ok" => apCall.kind # "preview"
    BY <1>2 DEF ApServed, ApRefused
  <2>2. /\ apBusy /\ CallFits /\ apLoaded
        /\ UNCHANGED <<apLoaded, apHost, apAction, apPreview, apOutcome, apIssued, apSent>>
    BY <1>2 DEF ApServed, ApRefused, ApInv
  <2>3. /\ apCall' \in Calls /\ apCall'.kind = apCall.kind
        /\ apCall'.card = apCall.card /\ apCall'.answer = answer
    BY <2>1, <2>2 DEF CallFits, Calls
  <2>4. CallFits'
    BY <2>1, <2>2, <2>3 DEF CallFits, Backs
  <2>5. apBusy'
    BY <2>3, NilIsNothing DEF apBusy
  <2>6. QED BY <2>2, <2>4, <2>5 DEF ApInv, Backs
<1>3. QED BY <1>1, <1>2

\* An answer reaches the page.
LEMMA ArrivalStep ==
    ASSUME ApInv, PreviewArrives \/ OutcomeArrives \/ ApFails
    PROVE  ApInv'
<1>1. ~apBusy' /\ apBusy /\ CallFits /\ apLoaded
      /\ UNCHANGED <<apLoaded, apHost, apAction, apIssued, apSent>>
  BY DEF PreviewArrives, OutcomeArrives, ApFails, ApInv, apBusy
<1>2. apCall.kind \in {"preview", "execute"}
  BY <1>1 DEF CallFits, Calls
<1>3. CASE PreviewArrives
  BY <1>1, <1>3 DEF PreviewArrives, CallFits, ApInv, Backs
<1>4. CASE OutcomeArrives
  BY <1>1, <1>4 DEF OutcomeArrives, CallFits, ApInv, Backs
<1>5. CASE ApFails
  BY <1>1, <1>2, <1>5 DEF ApFails, CallFits, ApInv, Backs
<1>6. QED BY <1>3, <1>4, <1>5

LEMMA LoadStep ==
    ASSUME ApInv, LoadPolicy
    PROVE  ApInv'
<1>1. First(PolicyHosts) \in PolicyHosts /\ First(Actions) \in Actions
  BY SomeAction DEF First
<1>2. apPreview = Nil /\ ~apBusy
  BY DEF LoadPolicy, ApInv
<1>3. QED BY <1>1, <1>2 DEF LoadPolicy, ApInv, apBusy

\* The cards, the selection, the request under way and the tokens fit together.
THEOREM ApInvariant == ApSpec => []ApInv
<1>1. ApInit => ApInv
  BY DEF ApInit, ApInv, apBusy
<1>2. ApInv /\ [ApNext]_apVars => ApInv'
  <2> SUFFICES ASSUME ApInv, [ApNext]_apVars PROVE ApInv'
    OBVIOUS
  <2>1. CASE UNCHANGED apVars
    BY <2>1 DEF apVars, ApInv, CallFits, Backs, apBusy
  <2>2. CASE ApNext
    BY <2>2, SelectionStep, RequestStep, ServedStep, ArrivalStep, LoadStep
    DEF ApNext, ApUser, ApAnswers
  <2>3. QED BY <2>1, <2>2
<1>3. QED BY <1>1, <1>2, PTL DEF ApSpec

-----------------------------------------------------------------------------
\* What is about to be confirmed is what the backend issued the token for and
\* what the selects say; the outcome is that of a token that was sent.
THEOREM CardsSound == ApSpec => []CardsHold
<1>1. ApInv => CardsHold
  BY DEF ApInv, Backs, CardsHold, CardFitsSelection, OutcomeStandsAlone
<1>2. QED BY <1>1, ApInvariant, PTL

\* The page implements the one-shot approval, whatever is clicked, cancelled or
\* lost: a token is sent once at most, and only after it was issued.
THEOREM TokensAreSpentOnce == ApSpec => TokenOnce
<1> DEFINE issued == {t \in Tokens : apIssued[t] # Nil}
<1>1. ApInit => Tokens1!ShotInit
  BY DEF ApInit, Tokens1!ShotInit
<1>2. ApInv /\ [ApNext]_apVars
        => [Tokens1!ShotNext]_Tokens1!shotVars
  <2> SUFFICES ASSUME ApInv, [ApNext]_apVars
               PROVE  \/ \E i \in Tokens : Tokens1!Issue(i) \/ Tokens1!Use(i)
                      \/ UNCHANGED <<issued, apSent>>
    BY DEF Tokens1!ShotNext, Tokens1!shotVars
  <2>1. CASE SendToken
    <3>1. /\ apPreview.token \in Tokens /\ apSent[apPreview.token] = 0
          /\ apIssued[apPreview.token] # Nil
      BY <2>1, NilIsNothing DEF SendToken, MayExecute, ApInv, Backs, Subject, Cards
    <3>2. /\ apSent' = [apSent EXCEPT ![apPreview.token] = 1]
          /\ apIssued' = apIssued
      BY <2>1, <3>1 DEF SendToken, ApInv
    <3>3. Tokens1!Use(apPreview.token)
      BY <3>1, <3>2 DEF Tokens1!Use
    <3>4. QED BY <3>1, <3>3
  <2>2. CASE ApServed /\ apCall.kind = "preview"
    <3>1. PICK t \in Tokens :
             /\ apIssued[t] = Nil
             /\ apIssued' = [apIssued EXCEPT ![t] = Subject(apCall.card)]
             /\ apSent' = apSent
      BY <2>2 DEF ApServed
    <3>2. Subject(apCall.card) \in PolicyHosts \X Actions
      BY <2>2 DEF ApServed, ApInv, CallFits, Calls, Cards, Subject
    <3>3. t \notin issued /\ issued' = issued \cup {t}
      BY <3>1, <3>2, NilIsNothing DEF ApInv
    <3>4. Tokens1!Issue(t)
      BY <3>1, <3>3 DEF Tokens1!Issue
    <3>5. QED BY <3>4
  <2>3. CASE UNCHANGED <<apIssued, apSent>>
    BY <2>3
  <2>4. QED
    BY <2>1, <2>2, <2>3
    DEF ApNext, ApUser, ApAnswers, ChooseHost, ChooseAction, CreatePreview, CancelPreview,
        LoadPolicy, ApServed, ApRefused, PreviewArrives, OutcomeArrives, ApFails, apVars
<1>3. QED
  BY <1>1, <1>2, ApInvariant, PTL DEF ApSpec, TokenOnce, Tokens1!ShotSpec

-----------------------------------------------------------------------------
(* Saved conversations *)

HpSpec == HpInit /\ [][HpNext]_hpVars

SavedVms == {VmOf[c] : c \in Saved} \cup {Nil}
Readings == [chat : Saved, host : SavedVms, current : BOOLEAN,
             answer : {"asked", "ok", "failed"}]

\* A reading that still counts is of the selected conversation, and so is what is
\* shown; a deletion nobody interfered with knows the page as it is.
HpInv ==
    /\ hpRows \subseteq Saved /\ hpBack \subseteq Saved
    /\ hpSelected \in Saved \cup {Nil} /\ hpHost \in SavedVms
    /\ \A r \in hpReads : r \in Readings /\ (r.current => r.chat = hpSelected)
    /\ hpDelete # Nil => hpLoaded /\ hpDelete.rows \subseteq Saved
    /\ hpDelete # Nil /\ ~hpRaced =>
          hpDelete.rows = hpRows /\ hpDelete.host = hpHost /\ hpDelete.selected = hpSelected
    /\ ~hpLoaded => hpSelected = Nil /\ hpRows = {}
    /\ SelectionHolds

-----------------------------------------------------------------------------
\* Whatever is selected, messages and readings of another conversation are disowned.
LEMMA SelectFits ==
    ASSUME HpInv, NEW chat \in Saved \cup {Nil}, NEW host \in SavedVms, Select(chat, host)
    PROVE  /\ hpSelected' = chat /\ hpHost' = host
           /\ \A r \in hpReads' : r \in Readings /\ (r.current => r.chat = chat)
           /\ MessagesOfSelected'
<1>1. CASE chat = hpSelected /\ host = hpHost
  BY <1>1 DEF Select, HpInv, SelectionHolds, MessagesOfSelected
<1>2. CASE ~(chat = hpSelected /\ host = hpHost)
  <2>1. /\ hpSelected' = chat /\ hpHost' = host /\ hpShown' = Nil
        /\ hpReads' = {[r EXCEPT !.current = FALSE] : r \in hpReads}
             \cup (IF chat = Nil THEN {}
                   ELSE {[chat |-> chat, host |-> host, current |-> TRUE,
                          answer |-> "asked"]})
    BY <1>2 DEF Select
  <2>2. ASSUME NEW r \in hpReads
        PROVE  /\ [r EXCEPT !.current = FALSE] \in Readings
               /\ [r EXCEPT !.current = FALSE].current = FALSE
    BY DEF HpInv, Readings
  <2>3. chat # Nil => [chat |-> chat, host |-> host, current |-> TRUE,
                       answer |-> "asked"] \in Readings
    BY DEF Readings
  <2>4. ASSUME NEW r \in hpReads'
        PROVE  r \in Readings /\ (r.current => r.chat = chat)
    <3>1. CASE \E q \in hpReads : r = [q EXCEPT !.current = FALSE]
      BY <2>2, <3>1
    <3>2. CASE chat # Nil /\ r = [chat |-> chat, host |-> host, current |-> TRUE,
                                 answer |-> "asked"]
      BY <2>3, <3>2
    <3>3. QED BY <2>1, <3>1, <3>2
  <2>5. QED BY <2>1, <2>4 DEF MessagesOfSelected
<1>3. QED BY <1>1, <1>2

\* The conversation that takes a place is one of the list and of the VM.
LEMMA FirstFits ==
    ASSUME NEW rows, NEW host, NEW chat \in FirstOf(rows, host), chat # Nil
    PROVE  chat \in rows /\ VmOf[chat] = host
  BY DEF FirstOf, OfVm

LEMMA LoadFits ==
    ASSUME HpInv, HpLoad \/ HpLoadFails
    PROVE  HpInv'
<1>1. CASE HpLoad
  <2>1. PICK first \in hpBack : \E chat \in FirstOf(hpBack, VmOf[first]) :
                                    Select(chat, VmOf[first])
    BY <1>1 DEF HpLoad
  <2>2. PICK chat \in FirstOf(hpBack, VmOf[first]) : Select(chat, VmOf[first])
    BY <2>1
  <2>3. chat \in hpBack /\ VmOf[chat] = VmOf[first]
    BY <2>1, <2>2 DEF FirstOf, OfVm
  <2>4. chat \in Saved
    BY <2>3 DEF HpInv
  <2>5. /\ hpSelected' = chat /\ hpHost' = VmOf[first] /\ VmOf[first] \in SavedVms
        /\ \A r \in hpReads' : r \in Readings /\ (r.current => r.chat = chat)
        /\ MessagesOfSelected'
    BY <2>2, <2>3, <2>4, SelectFits DEF SavedVms
  <2>6. /\ hpRows' = hpBack /\ hpLoaded' /\ hpDelete = Nil
        /\ UNCHANGED <<hpDelete, hpBack, hpRaced>>
    BY <1>1 DEF HpLoad, HpInv
  <2>7. QED
    BY <2>3, <2>4, <2>5, <2>6 DEF HpInv, SelectionHolds, SelectedIsListed
<1>2. CASE HpLoadFails
  BY <1>2
  DEF HpLoadFails, HpInv, SelectionHolds, MessagesOfSelected, SelectedIsListed
<1>3. QED BY <1>1, <1>2

\* A reading is shown only if nobody disowned it.
LEMMA ReadFits ==
    ASSUME HpInv, NEW r \in hpReads, ReadServed(r) \/ ReadApplied(r)
    PROVE  HpInv'
<1>1. UNCHANGED <<hpRows, hpHost, hpSelected, hpDelete, hpLoaded, hpBack, hpRaced>>
  BY DEF ReadServed, ReadApplied
<1>2. r \in Readings /\ (r.current => r.chat = hpSelected)
  BY DEF HpInv
<1>3. CASE ReadServed(r)
  <2>1. PICK answer \in {"ok", "failed"} :
           hpReads' = (hpReads \ {r}) \cup {[r EXCEPT !.answer = answer]}
    BY <1>3 DEF ReadServed, Serve
  <2>2. /\ [r EXCEPT !.answer = answer] \in Readings
        /\ [r EXCEPT !.answer = answer].current = r.current
        /\ [r EXCEPT !.answer = answer].chat = r.chat
    BY <1>2 DEF Readings
  <2>3. \A q \in hpReads' : q \in Readings /\ (q.current => q.chat = hpSelected)
    BY <1>2, <2>1, <2>2 DEF HpInv
  <2>4. hpShown' = hpShown
    BY <1>3 DEF ReadServed
  <2>5. QED
    BY <1>1, <2>3, <2>4 DEF HpInv, SelectionHolds, MessagesOfSelected, SelectedIsListed
<1>4. CASE ReadApplied(r)
  <2>1. /\ hpReads' \subseteq hpReads
        /\ hpShown' = IF r.current /\ r.answer = "ok" THEN r.chat ELSE hpShown
    BY <1>4 DEF ReadApplied
  <2>2. QED
    BY <1>1, <1>2, <2>1
    DEF HpInv, SelectionHolds, MessagesOfSelected, SelectedIsListed
<1>5. QED BY <1>3, <1>4

\* The user selects, which a deletion under way does not learn of.
LEMMA ChooseFits ==
    ASSUME HpInv, NEW c \in Saved, ChooseHistoryVm(VmOf[c]) \/ ChooseSaved(c)
    PROVE  HpInv'
<1>1. PICK chat \in hpRows, host \in {VmOf[s] : s \in hpRows} :
         /\ VmOf[chat] = host /\ Select(chat, host)
         /\ hpRaced' = (hpRaced \/ hpDelete # Nil)
         /\ UNCHANGED <<hpRows, hpDelete, hpLoaded, hpBack>>
  <2>1. CASE ChooseHistoryVm(VmOf[c])
    BY <2>1 DEF ChooseHistoryVm, FirstOf, OfVm
  <2>2. CASE ChooseSaved(c)
    BY <2>2 DEF ChooseSaved, OfVm
  <2>3. QED BY <2>1, <2>2
<1>2. chat \in Saved /\ host \in SavedVms
  BY <1>1 DEF HpInv, SavedVms
<1>3. /\ hpSelected' = chat /\ hpHost' = host
      /\ \A r \in hpReads' : r \in Readings /\ (r.current => r.chat = chat)
      /\ MessagesOfSelected'
  BY <1>1, <1>2, SelectFits
<1>4. hpLoaded
  BY <1>1 DEF HpInv
<1>5. QED
  BY <1>1, <1>2, <1>3, <1>4 DEF HpInv, SelectionHolds, SelectedIsListed

\* The deletion that comes back leaves a conversation of the list selected, if it
\* finds the page as it was clicked on.
LEMMA DeleteAppliedFits ==
    ASSUME HpInv, DeleteApplied
    PROVE  HpInv'
<1> DEFINE remaining == hpDelete.rows \ hpDelete.doomed
<1>1. /\ hpDelete # Nil /\ hpLoaded /\ remaining \subseteq Saved
      /\ hpRows' = remaining /\ hpDelete' = Nil
      /\ UNCHANGED <<hpLoaded, hpBack, hpRaced>>
  BY DEF DeleteApplied, HpInv
<1>2. ASSUME NEW chat \in Saved \cup {Nil}, Select(chat, hpHost),
             ~hpRaced /\ chat # Nil => chat \in remaining /\ VmOf[chat] = hpHost
      PROVE  HpInv'
  <2>1. /\ hpSelected' = chat /\ hpHost' = hpHost
        /\ \A r \in hpReads' : r \in Readings /\ (r.current => r.chat = chat)
        /\ MessagesOfSelected'
    BY <1>2, SelectFits DEF HpInv
  <2>2. QED
    BY <1>1, <1>2, <2>1 DEF HpInv, SelectionHolds, SelectedIsListed
<1>3. CASE hpDelete.all
  BY <1>2, <1>3 DEF DeleteApplied
<1>4. CASE ~hpDelete.all /\ hpDelete.selected \in hpDelete.doomed
  <2>1. PICK chat \in FirstOf(remaining, hpDelete.host) : Select(chat, hpHost)
    BY <1>4 DEF DeleteApplied
  <2>2. chat # Nil => chat \in remaining /\ VmOf[chat] = hpDelete.host
    BY <2>1 DEF FirstOf, OfVm
  <2>3. ~hpRaced => hpDelete.host = hpHost
    BY <1>1 DEF HpInv
  <2>4. chat \in Saved \cup {Nil}
    BY <1>1, <2>2
  <2>5. QED BY <1>2, <2>1, <2>2, <2>3, <2>4
<1>5. CASE ~hpDelete.all /\ hpDelete.selected \notin hpDelete.doomed
  <2>1. UNCHANGED <<hpSelected, hpHost, hpShown, hpReads>>
    BY <1>5 DEF DeleteApplied
  <2>2. ~hpRaced => hpDelete.rows = hpRows /\ hpDelete.selected = hpSelected
    BY <1>1 DEF HpInv
  <2>3. QED
    BY <1>1, <1>5, <2>1, <2>2
    DEF HpInv, SelectionHolds, MessagesOfSelected, SelectedIsListed
<1>6. QED BY <1>3, <1>4, <1>5

LEMMA DeleteFits ==
    ASSUME HpInv,
           \/ \E doomed \in SUBSET hpRows, all \in BOOLEAN : ClickDelete(doomed, all)
           \/ DeleteServed \/ DeleteFails
    PROVE  HpInv'
<1>1. UNCHANGED <<hpRows, hpHost, hpSelected, hpShown, hpReads, hpLoaded, hpRaced>>
  BY DEF ClickDelete, DeleteServed, DeleteFails
<1>2. hpBack' \subseteq Saved
  BY DEF ClickDelete, DeleteServed, DeleteFails, HpInv
<1>3. hpDelete' # Nil =>
         /\ hpLoaded /\ hpDelete'.rows \subseteq Saved
         /\ ~hpRaced => hpDelete'.rows = hpRows /\ hpDelete'.host = hpHost
                          /\ hpDelete'.selected = hpSelected
  <2>1. CASE \E doomed \in SUBSET hpRows, all \in BOOLEAN : ClickDelete(doomed, all)
    <3>1. PICK doomed \in SUBSET hpRows, all \in BOOLEAN : ClickDelete(doomed, all)
      BY <2>1
    <3>2. hpLoaded /\ hpRows \subseteq Saved
      BY <3>1 DEF ClickDelete, HpInv
    <3>3. QED BY <3>1, <3>2 DEF ClickDelete
  <2>2. CASE DeleteServed
    <3>1. /\ hpDelete # Nil /\ hpDelete' = [hpDelete EXCEPT !.answer = "ok"]
      BY <2>2 DEF DeleteServed
    <3>2. /\ hpDelete'.rows = hpDelete.rows /\ hpDelete'.host = hpDelete.host
          /\ hpDelete'.selected = hpDelete.selected
      BY <3>1
    <3>3. QED BY <3>1, <3>2 DEF HpInv
  <2>3. CASE DeleteFails
    BY <2>3 DEF DeleteFails
  <2>4. QED BY <2>1, <2>2, <2>3
<1>4. QED
  BY <1>1, <1>2, <1>3 DEF HpInv, SelectionHolds, MessagesOfSelected, SelectedIsListed

\* List, selection, messages, readings and deletion fit together.
THEOREM HpInvariant == HpSpec => []HpInv
<1>1. HpInit => HpInv
  BY DEF HpInit, HpInv, SavedVms, SelectionHolds, MessagesOfSelected, SelectedIsListed
<1>2. HpInv /\ [HpNext]_hpVars => HpInv'
  <2> SUFFICES ASSUME HpInv, [HpNext]_hpVars PROVE HpInv'
    OBVIOUS
  <2>1. CASE UNCHANGED hpVars
    BY <2>1
    DEF hpVars, HpInv, SelectionHolds, MessagesOfSelected, SelectedIsListed
  <2>2. CASE HpNext
    BY <2>2, LoadFits, ReadFits, ChooseFits, DeleteFits, DeleteAppliedFits DEF HpNext, OfVm
  <2>3. QED BY <2>1, <2>2
<1>3. QED BY <1>1, <1>2, PTL DEF HpSpec

\* The messages shown are those of the selected conversation, in whatever order the
\* readings come back; the selection is one of the list and of the VM, unless the
\* user selected something while a deletion was under way.
THEOREM SelectionSound == HpSpec => []SelectionHolds
<1>1. HpInv => SelectionHolds
  BY DEF HpInv
<1>2. QED BY <1>1, HpInvariant, PTL

-----------------------------------------------------------------------------
(* The gate *)

ShSpec == ShInit /\ [][ShNext]_shVars

GateChecks == [path : Paths, active : BOOLEAN, answer : {"asked", "none", "ok", "failed"},
               session : Nat, must : BOOLEAN]

\* A check that still counts was made for the path of the tab, and a session goes
\* with exactly the answers that found one.
CheckFits(c) ==
    /\ c \in GateChecks
    /\ c.active => c.path = shPath
    /\ c.answer = "ok" <=> c.session # 0

ShInv ==
    /\ shPath \in Paths /\ shGoing \in Paths \cup {Nil}
    /\ shSession \in Nat /\ shMade \in Nat /\ shMust \in BOOLEAN
    /\ \A c \in shChecks : CheckFits(c)
    /\ GateHolds

-----------------------------------------------------------------------------
\* Going to a path disowns the checks made for another one.
LEMMA ArriveFits ==
    ASSUME ShInv, NEW path \in Paths, Arrive(path) \/ Reload(path)
    PROVE  /\ shPath' \in Paths /\ shGoing' = Nil
           /\ \A c \in shChecks' : CheckFits(c)'
           /\ GateHolds'
<1>1. CheckFits(Check(path))' \/ shPath' # path
  BY DEF CheckFits, Check, GateChecks
<1>2. CASE shChecks' = {Check(path)} /\ shPath' = path /\ ~shReady' /\ shGoing' = Nil
  BY <1>1, <1>2 DEF GateHolds, ContentIsChecked, LoginIsForSignedOut
<1>3. CASE Arrive(path) /\ path = shPath
  BY <1>3 DEF Arrive, ShInv, CheckFits, GateHolds, ContentIsChecked, LoginIsForSignedOut
<1>4. CASE Arrive(path) /\ path # shPath
  <2>1. /\ shPath' = path /\ shReady' = FALSE /\ shGoing' = Nil
        /\ shChecks' = {[c EXCEPT !.active = FALSE] : c \in shChecks} \cup {Check(path)}
    BY <1>4 DEF Arrive
  <2>2. ASSUME NEW c \in shChecks
        PROVE  CheckFits([c EXCEPT !.active = FALSE])'
    BY DEF ShInv, CheckFits, GateChecks
  <2>3. QED
    BY <1>1, <2>1, <2>2 DEF GateHolds, ContentIsChecked, LoginIsForSignedOut
<1>5. QED BY <1>2, <1>3, <1>4 DEF Reload

\* The backend answers a check with the session of that moment.
LEMMA CheckServedFits ==
    ASSUME ShInv, NEW c \in shChecks, CheckServed(c)
    PROVE  ShInv'
<1>1. PICK answer \in {IF shSession = 0 THEN "none" ELSE "ok", "failed"} :
         shChecks' = (shChecks \ {c}) \cup
            {[c EXCEPT !.answer = answer, !.must = (answer = "ok" /\ shMust),
                       !.session = IF answer = "ok" THEN shSession ELSE 0]}
  BY DEF CheckServed, Serve
<1>2. UNCHANGED <<shPath, shGoing, shReady, shFound, shSession, shMust, shMade>>
  BY DEF CheckServed
<1>3. CheckFits([c EXCEPT !.answer = answer, !.must = (answer = "ok" /\ shMust),
                          !.session = IF answer = "ok" THEN shSession ELSE 0])
  BY <1>1 DEF ShInv, CheckFits, GateChecks
<1>4. \A d \in shChecks' : CheckFits(d)'
  BY <1>1, <1>2, <1>3 DEF ShInv, CheckFits
<1>5. QED
  BY <1>2, <1>4 DEF ShInv, GateHolds, ContentIsChecked, LoginIsForSignedOut

\* The answer of a check opens the gate only as the check allows.
LEMMA CheckAppliedFits ==
    ASSUME ShInv, NEW c \in shChecks, CheckApplied(c)
    PROVE  ShInv'
<1>1. /\ CheckFits(c) /\ c.answer \in {"none", "ok", "failed"}
      /\ shChecks' \subseteq shChecks
      /\ UNCHANGED <<shPath, shSession, shMust, shMade>>
  BY DEF CheckApplied, Answered, ShInv, CheckFits, GateChecks
<1>2. \A d \in shChecks' : CheckFits(d)'
  BY <1>1 DEF ShInv, CheckFits
<1>3. Target(c) \in Paths \cup {Nil}
  BY DEF Target, Paths
<1>4. CASE ~c.active
  BY <1>1, <1>2, <1>4
  DEF CheckApplied, ShInv, GateHolds, ContentIsChecked, LoginIsForSignedOut
<1>5. CASE c.active
  <2>1. /\ shGoing' \in Paths \cup {Nil}
        /\ shReady' => Target(c) = Nil /\ (c.answer # "failed" \/ c.path = "/login")
        /\ shReady' => shFound' = c
        /\ c.path = shPath
    BY <1>1, <1>3, <1>5 DEF CheckApplied, Replace, ShInv, CheckFits
  <2>2. ASSUME shReady', shPath # "/login"
        PROVE  c.answer = "ok" /\ (shPath = "/" => ~c.must)
    BY <1>1, <2>1, <2>2, NilIsNoPath DEF Target, Paths
  <2>3. ASSUME shReady', shPath = "/login"
        PROVE  c.answer # "ok"
    BY <1>1, <2>1, <2>3, NilIsNoPath DEF Target, Paths
  <2>4. GateHolds'
    BY <1>1, <2>1, <2>2, <2>3
    DEF GateHolds, ContentIsChecked, LoginIsForSignedOut, CheckFits, GateChecks
  <2>5. QED BY <1>1, <1>2, <2>1, <2>4 DEF ShInv
<1>6. QED BY <1>4, <1>5

\* The answer of a request may take the tab elsewhere.
LEMMA CallAppliedFits ==
    ASSUME ShInv, CallApplied \/ LogoutApplied
    PROVE  ShInv'
<1>1. UNCHANGED <<shSession, shMust, shMade>>
  BY DEF CallApplied, LogoutApplied, backVars
<1>2. ASSUME NEW path \in Paths, Reload(path)
      PROVE  ShInv'
  BY <1>1, <1>2, ArriveFits DEF ShInv
<1>3. CASE CallApplied /\ Elsewhere = Nil
  <2>1. /\ shGoing' \in Paths \cup {Nil}
        /\ UNCHANGED <<shPath, shReady, shFound, shChecks>>
    BY <1>3 DEF CallApplied, Replace, ShInv, Paths
  <2>2. QED
    BY <1>1, <2>1
    DEF ShInv, CheckFits, GateHolds, ContentIsChecked, LoginIsForSignedOut
<1>4. CASE CallApplied /\ Elsewhere # Nil
  BY <1>2, <1>4 DEF CallApplied, Elsewhere, Paths
<1>5. CASE LogoutApplied
  BY <1>2, <1>5 DEF LogoutApplied, Paths
<1>6. QED BY <1>3, <1>4, <1>5

\* Steps that leave the tab where it is and show nothing new.
LEMMA QuietFits ==
    ASSUME ShInv, UNCHANGED <<shPath, shGoing, shReady, shFound, shChecks>>,
           shSession' \in Nat, shMade' \in Nat, shMust' \in BOOLEAN
    PROVE  ShInv'
  BY DEF ShInv, CheckFits, GateHolds, ContentIsChecked, LoginIsForSignedOut

\* The path, the checks under way and what is shown fit together.
THEOREM ShInvariant == ShSpec => []ShInv
<1>1. ShInit => ShInv
  BY DEF ShInit, ShInv, Check, CheckFits, GateChecks, Paths, GateHolds, ContentIsChecked,
         LoginIsForSignedOut
<1>2. ShInv /\ [ShNext]_shVars => ShInv'
  <2> SUFFICES ASSUME ShInv, [ShNext]_shVars PROVE ShInv'
    OBVIOUS
  <2>1. CASE \E p \in Paths : Visit(p)
    BY <2>1, ArriveFits DEF Visit, ShInv
  <2>2. CASE RouterArrives
    <3>1. shGoing \in Paths
      BY <2>2 DEF RouterArrives, ShInv
    <3>2. QED BY <2>2, <3>1, ArriveFits DEF RouterArrives, ShInv
  <2>3. CASE Retry
    BY <2>3, ArriveFits DEF Retry, ShInv
  <2>4. CASE \E c \in shChecks : CheckServed(c) \/ CheckApplied(c)
    BY <2>4, CheckServedFits, CheckAppliedFits
  <2>5. CASE CallApplied \/ LogoutApplied
    BY <2>5, CallAppliedFits
  <2>6. CASE SendLogin \/ SendPassword \/ SignOut \/ SendRequest \/ CallLost
    BY <2>6, QuietFits
    DEF SendLogin, SendPassword, SignOut, SendRequest, SendFrom, CallLost, tabVars, backVars,
        ShInv
  <2>7. CASE LoginServed \/ CallServed \/ SessionElsewhere
    <3>1. UNCHANGED <<shPath, shGoing, shReady, shFound, shChecks>>
      BY <2>7 DEF LoginServed, CallServed, SessionElsewhere, tabVars
    <3>2. shSession' \in Nat /\ shMade' \in Nat
      BY <2>7 DEF LoginServed, CallServed, SessionElsewhere, ShInv
    <3>3. shMust' \in BOOLEAN
      BY <2>7 DEF LoginServed, CallServed, SessionElsewhere, ShInv
    <3>4. QED BY <3>1, <3>2, <3>3, QuietFits
  <2>8. CASE UNCHANGED shVars
    BY <2>8, QuietFits DEF shVars, ShInv
  <2>9. QED
    BY <2>1, <2>2, <2>3, <2>4, <2>5, <2>6, <2>7, <2>8 DEF ShNext, ShUser, ShAnswers
<1>3. QED BY <1>1, <1>2, PTL DEF ShSpec

\* A page behind the gate is shown only after a check made for its own path found a
\* session that may see it, the login form only to a tab without one, in whatever
\* order the checks of earlier paths come back.
THEOREM GateSound == ShSpec => []GateHolds
<1>1. ShInv => GateHolds
  BY DEF ShInv
<1>2. QED BY <1>1, ShInvariant, PTL

-----------------------------------------------------------------------------
(* Machines: the rows and the inventory *)

\* A set of numbers that is not empty has a least one.
LEMMA Least ==
    ASSUME NEW T \in SUBSET Nat, T # {}
    PROVE  \E x \in T : \A y \in T : x <= y
<1> DEFINE Less == OpToRel(<, Nat)
<1>1. IsWellFoundedOn(Less, Nat)
  BY NatLessThanWellFounded, Zenon
<1>2. PICK x \in T : \A y \in T : ~(<<y, x>> \in Less)
  BY <1>1, WFMin
<1>3. \A y \in T : y < x => <<y, x>> \in Less
  BY DEF OpToRel
<1> HIDE DEF Less
<1>4. \A y \in T : ~(y < x)
  BY <1>2, <1>3, Zenon
<1> QED BY <1>4

\* No machine has two rows.
Distinct(rows) == \A i, j \in 1..Len(rows) : rows[i].name = rows[j].name => i = j

\* The rows of other machines, counted up to a place.
KeptUpTo(rows, name, g, m) ==
    g = [i \in 0..m |->
          IF i = 0 THEN <<>>
          ELSE IF rows[i].name = name THEN g[i - 1] ELSE Append(g[i - 1], rows[i])]

\* The rows can be counted up to every place.
LEMMA KeptExists ==
    ASSUME NEW rows, NEW name, NEW m \in Nat
    PROVE  \E g : KeptUpTo(rows, name, g, m)
<1> DEFINE Bad == {n \in Nat : ~\E g : KeptUpTo(rows, name, g, n)}
<1>1. SUFFICES ASSUME Bad # {} PROVE FALSE
  OBVIOUS
<1>2. PICK n \in Bad : \A k \in Bad : n <= k
  BY <1>1, Least
<1>3. n # 0
  <2>1. KeptUpTo(rows, name, [i \in 0..0 |-> <<>>], 0)
    BY DEF KeptUpTo
  <2> QED BY <2>1
<1>4. n - 1 \in Nat /\ n - 1 \notin Bad
  BY <1>2, <1>3
<1>5. PICK g : KeptUpTo(rows, name, g, n - 1)
  BY <1>4
<1> DEFINE
      h == [i \in 0..n |->
              IF i = n THEN IF rows[n].name = name THEN g[n - 1] ELSE Append(g[n - 1], rows[n])
              ELSE g[i]]
<1>6. KeptUpTo(rows, name, h, n)
  <2> DEFINE e(i) == IF i = 0 THEN <<>>
          ELSE IF rows[i].name = name THEN h[i - 1] ELSE Append(h[i - 1], rows[i])
  <2>1. ASSUME NEW i \in 0..n PROVE h[i] = e(i)
    <3>1. CASE i = n
      <4>1. n \in Nat /\ n - 1 \in 0..n /\ n - 1 # n
        BY <1>2, <1>3
      <4>2. h[n - 1] = g[n - 1] BY <4>1
      <4> QED BY <3>1, <4>1, <4>2, <1>3
    <3>2. CASE i # n
      <4>1. i \in 0..(n - 1) BY <1>2, <3>2
      <4>2. g[i] = IF i = 0 THEN <<>>
                   ELSE IF rows[i].name = name THEN g[i - 1] ELSE Append(g[i - 1], rows[i])
        BY <4>1, <1>5 DEF KeptUpTo
      <4>3. i # 0 => h[i - 1] = g[i - 1]
        <5>1. i # 0 => i - 1 \in 0..n /\ i - 1 # n BY <1>2, <4>1
        <5> QED BY <5>1
      <4> QED BY <4>2, <4>3, <3>2
    <3> QED BY <3>1, <3>2
  <2>2. h = [i \in 0..n |-> h[i]] OBVIOUS
  <2> HIDE DEF h
  <2>3. h = [i \in 0..n |-> e(i)] BY <2>1, <2>2
  <2> QED BY <2>3 DEF KeptUpTo
<1> QED BY <1>2, <1>6

\* What Without counts, to the end.
LEMMA WithoutIs ==
    ASSUME NEW rows \in Seq(Forms), NEW name
    PROVE  \E g : KeptUpTo(rows, name, g, Len(rows)) /\ Without(rows, name) = g[Len(rows)]
<1> DEFINE kept == CHOOSE g : KeptUpTo(rows, name, g, Len(rows))
<1>1. KeptUpTo(rows, name, kept, Len(rows))
  <2>1. Len(rows) \in Nat OBVIOUS
  <2>2. \E g : KeptUpTo(rows, name, g, Len(rows)) BY <2>1, KeptExists, Zenon
  <2> QED BY <2>2, Zenon
<1>2. Without(rows, name) = kept[Len(rows)]
  BY DEF Without, KeptUpTo
<1> QED BY <1>1, <1>2

\* A row at the end of a list.
LEMMA JoinedIs ==
    ASSUME NEW rows \in Seq(Forms), NEW form \in Forms
    PROVE  /\ Append(rows, form) \in Seq(Forms)
           /\ Len(Append(rows, form)) = Len(rows) + 1
           /\ \A k \in 1..Len(rows) : Append(rows, form)[k] = rows[k]
           /\ Append(rows, form)[Len(rows) + 1] = form
OBVIOUS

\* The list kept is that of the other machines, up to the place i.
Keeps(rows, name, kept, i) ==
    /\ kept \in Seq(Forms)
    /\ Distinct(rows) => Distinct(kept)
    /\ \A k \in 1..Len(kept) : \E j \in 1..i : rows[j] = kept[k] /\ rows[j].name # name
    /\ \A j \in 1..i : rows[j].name # name => \E k \in 1..Len(kept) : kept[k] = rows[j]

LEMMA KeepsOne ==
    ASSUME NEW rows \in Seq(Forms), NEW name, NEW kept,
           NEW i \in 1..Len(rows), Keeps(rows, name, kept, i - 1)
    PROVE  Keeps(rows, name, IF rows[i].name = name THEN kept ELSE Append(kept, rows[i]), i)
<1>1. /\ kept \in Seq(Forms)
      /\ Distinct(rows) => Distinct(kept)
      /\ \A k \in 1..Len(kept) : \E j \in 1..(i - 1) : rows[j] = kept[k] /\ rows[j].name # name
      /\ \A j \in 1..(i - 1) : rows[j].name # name => \E k \in 1..Len(kept) : kept[k] = rows[j]
  BY DEF Keeps
<1>2. \A j \in 1..i : j \in 1..(i - 1) \/ j = i
  OBVIOUS
<1>3. \A j \in 1..(i - 1) : j \in 1..i /\ j \in 1..Len(rows) /\ j # i
  OBVIOUS
<1>4. CASE rows[i].name = name
  BY <1>1, <1>2, <1>3, <1>4 DEF Keeps
<1>5. CASE rows[i].name # name
  <2> DEFINE longer == Append(kept, rows[i])
  <2>1. rows[i] \in Forms
    OBVIOUS
  <2>2. /\ longer \in Seq(Forms) /\ Len(longer) = Len(kept) + 1
        /\ \A k \in 1..Len(kept) : longer[k] = kept[k]
        /\ longer[Len(kept) + 1] = rows[i]
    BY <1>1, <2>1, JoinedIs
  <2>3. \A k \in 1..Len(longer) : k \in 1..Len(kept) \/ k = Len(kept) + 1
    BY <1>1, <2>2
  <2>4. \A k \in 1..Len(kept) : k \in 1..Len(longer)
    BY <1>1, <2>2
  <2>5. Len(kept) + 1 \in 1..Len(longer)
    BY <1>1, <2>2
  <2> HIDE DEF longer
  <2>6. Distinct(rows) => \A k \in 1..Len(kept) : kept[k].name # rows[i].name
    BY <1>1, <1>3 DEF Distinct
  <2>7. Distinct(rows) => Distinct(longer)
    <3>1. SUFFICES ASSUME Distinct(rows) PROVE Distinct(longer)
      OBVIOUS
    <3>2. Distinct(kept) /\ \A k \in 1..Len(kept) : kept[k].name # rows[i].name
      BY <1>1, <2>6, <3>1
    <3> QED BY <2>2, <2>3, <3>2 DEF Distinct
  <2>8. \A k \in 1..Len(longer) : \E j \in 1..i : rows[j] = longer[k] /\ rows[j].name # name
    <3>1. \A k \in 1..Len(kept) : \E j \in 1..i : rows[j] = longer[k] /\ rows[j].name # name
      <4> TAKE k \in 1..Len(kept)
      <4>1. longer[k] = kept[k]
        BY <2>2
      <4>2. PICK j \in 1..(i - 1) : rows[j] = kept[k] /\ rows[j].name # name
        BY <1>1
      <4> QED BY <1>3, <4>1, <4>2
    <3>2. i \in 1..i
      OBVIOUS
    <3> QED BY <1>5, <2>2, <2>3, <3>1, <3>2
  <2>9. \A j \in 1..i : rows[j].name # name => \E k \in 1..Len(longer) : longer[k] = rows[j]
    BY <1>1, <1>2, <2>2, <2>4, <2>5
  <2>10. Keeps(rows, name, longer, i)
    BY <2>2, <2>7, <2>8, <2>9 DEF Keeps
  <2> QED BY <2>10, <1>5 DEF longer
<1> QED BY <1>4, <1>5

\* Taking the rows of one machine away leaves those of the others, each once.
LEMMA OthersStay ==
    ASSUME NEW rows \in Seq(Forms), NEW name
    PROVE  Keeps(rows, name, Without(rows, name), Len(rows))
<1>1. PICK g : KeptUpTo(rows, name, g, Len(rows)) /\ Without(rows, name) = g[Len(rows)]
  BY WithoutIs
<1>2. Len(rows) \in Nat
  OBVIOUS
<1> DEFINE Bad == {n \in Nat : n <= Len(rows) /\ ~Keeps(rows, name, g[n], n)}
<1>3. Bad = {}
  <2>1. SUFFICES ASSUME Bad # {} PROVE FALSE
    OBVIOUS
  <2>2. PICK n \in Bad : \A k \in Bad : n <= k
    BY <2>1, Least
  <2>3. n \in 0..Len(rows)
    BY <1>2, <2>2
  <2>4. g[n] = IF n = 0 THEN <<>>
               ELSE IF rows[n].name = name THEN g[n - 1] ELSE Append(g[n - 1], rows[n])
    BY <1>1, <2>3 DEF KeptUpTo
  <2>5. CASE n = 0
    <3>1. g[n] = <<>> BY <2>4, <2>5
    <3>2. <<>> \in Seq(Forms) /\ Len(<<>>) = 0 OBVIOUS
    <3>3. Keeps(rows, name, <<>>, 0)
      BY <3>2 DEF Keeps, Distinct
    <3> QED BY <2>2, <2>5, <3>1, <3>3
  <2>6. CASE n # 0
    <3>1. n - 1 \in Nat /\ n - 1 \notin Bad /\ n - 1 <= Len(rows) /\ n \in 1..Len(rows)
      BY <1>2, <2>2, <2>6
    <3>2. Keeps(rows, name, g[n - 1], n - 1)
      BY <3>1
    <3>3. Keeps(rows, name, g[n], n)
      BY <3>1, <3>2, <2>4, <2>6, KeepsOne
    <3> QED BY <2>2, <3>3
  <2> QED BY <2>5, <2>6
<1>4. Keeps(rows, name, g[Len(rows)], Len(rows))
  BY <1>2, <1>3
<1> QED BY <1>1, <1>4

\* What the backend lists: a row for every machine of the inventory, and each once.
LEMMA ListedIs ==
    ASSUME NEW inventory \in [Names -> Environments \cup {Nil}]
    PROVE  /\ Listed(inventory) \in Seq(Forms)
           /\ Distinct(Listed(inventory))
           /\ \A i \in 1..Len(Listed(inventory)) :
                LET row == Listed(inventory)[i]
                IN  inventory[row.name] # Nil /\ row.env = inventory[row.name]
           /\ \A n \in Names : inventory[n] # Nil =>
                \E i \in 1..Len(Listed(inventory)) : Listed(inventory)[i] = Row(n, inventory[n])
<1> DEFINE
      here == {m \in Names : inventory[m] # Nil}
      all == {Row(n, inventory[n]) : n \in here}
<1>1. IsFiniteSet(here)
  <2>1. here \in SUBSET Names OBVIOUS
  <2> QED BY <2>1, FiniteNames, FS_Subset
<1>2. IsFiniteSet(all)
  <2> DEFINE f == [n \in here |-> Row(n, inventory[n])]
  <2>1. f \in Surjection(here, all)
    BY DEF Surjection
  <2> HIDE DEF f, here, all
  <2> QED BY <1>1, <2>1, FS_Surjection
<1>3. all \subseteq Forms
  BY DEF Row, Forms
<1> DEFINE n0 == Cardinality(all)
<1>4. n0 \in Nat /\ ExistsBijection(1..n0, all)
  BY <1>2, FS_CardinalityType, Zenon
<1>5. \E f \in [1..n0 -> all] : IsInjective(f)
  BY <1>4 DEF ExistsBijection, Bijection, Injection, IsInjective
<1> DEFINE list == Listed(inventory)
<1>6. list \in [1..n0 -> all] /\ IsInjective(list)
  BY <1>5 DEF Listed, SetToSeq
<1>7. list \in Surjection(1..n0, all)
  <2>1. IsFiniteSet(1..n0) /\ Cardinality(1..n0) = n0
    BY <1>4, FS_Interval
  <2>2. list \in Injection(1..n0, all)
    BY <1>6 DEF Injection, IsInjective
  <2> HIDE DEF list, all
  <2> QED BY <2>1, <2>2, <1>2, FS_Injection
<1>8. list \in Seq(Forms) /\ Len(list) = n0
  <2> HIDE DEF list, all, n0
  <2>1. list \in [1..n0 -> Forms] BY <1>3, <1>6
  <2> QED BY <2>1, <1>4
<1>9. \A r \in all : \E n \in Names : inventory[n] # Nil /\ r = Row(n, inventory[n])
  OBVIOUS
<1>10. \A n \in Names : inventory[n] # Nil => Row(n, inventory[n]) \in all
  OBVIOUS
<1>11. \A r \in all : inventory[r.name] # Nil /\ r.env = inventory[r.name]
  BY <1>9 DEF Row
<1>12. \A r, s \in all : r.name = s.name => r = s
  BY <1>9 DEF Row
<1> HIDE DEF list, all, n0
<1>13. \A i \in 1..n0 : list[i] \in all
  BY <1>6
<1>14. Distinct(list)
  BY <1>6, <1>8, <1>12, <1>13 DEF Distinct, IsInjective
<1>15. \A r \in all : \E i \in 1..n0 : list[i] = r
  BY <1>7 DEF Surjection
<1> QED BY <1>8, <1>10, <1>11, <1>13, <1>14, <1>15 DEF list

VmSpec ==
    (\E inventory \in [Names -> Environments \cup {Nil}] : VmInit(inventory)) /\ [][VmNext]_vmVars

\* A machine was enrolled or classified and the page is about to hear of it.
Enrols == vmCall # Nil /\ vmCall.kind = "decide" /\ vmCall.trust /\ vmCall.answer = "ok"
Classifies == vmCall # Nil /\ vmCall.kind = "classify" /\ vmCall.answer = "ok"

Removals == [nr : Nat, name : Names, answer : {"asked", "ok", "failed"}]

VmTyped ==
    /\ vmLoad \in {"asked", "read", "done", "failed"}
    /\ vmRows \in Seq(Forms) /\ vmSnapshot \in Seq(Forms)
    /\ vmPending \in KeyTokens \cup {Nil} /\ vmDialog \in Names \cup {Nil}
    /\ vmCall \in VmCalls \cup {Nil}
    /\ vmRemovals \subseteq Removals /\ vmRemoved \in Nat
    /\ vmInventory \in [Names -> Environments \cup {Nil}]
    /\ vmOffers \in [KeyTokens -> Forms \cup {Nil}]
    /\ vmDrift \in BOOLEAN

\* A key that may be decided on was offered and is not decided yet.
TokensFit ==
    /\ vmDecided \in [KeyTokens -> {0, 1}]
    /\ \A t \in KeyTokens : vmOffers[t] = Nil => vmDecided[t] = 0
    /\ vmPending # Nil =>
          /\ vmOffers[vmPending] # Nil
          /\ vmDecided[vmPending] = 1 => vmCall # Nil /\ vmCall.kind = "decide"
    /\ vmCall # Nil /\ vmCall.kind = "discover" =>
          /\ vmPending = Nil
          /\ vmCall.answer = "ok" =>
                /\ vmCall.token \in KeyTokens
                /\ vmOffers[vmCall.token] # Nil /\ vmDecided[vmCall.token] = 0

\* Once the list is loaded.  A row of a machine that is no more is about to go,
\* and a row that is out of date is about to change.
ShownAre ==
    \A i \in 1..Len(vmRows) :
        /\ vmInventory[vmRows[i].name] = Nil =>
              \E r \in vmRemovals : r.name = vmRows[i].name /\ r.answer = "ok"
        /\ vmInventory[vmRows[i].name] \notin {Nil, vmRows[i].env} =>
              Classifies /\ vmCall.row.name = vmRows[i].name

\* A machine without a row was just enrolled.
AreShown ==
    \A n \in Names : vmInventory[n] # Nil =>
        \/ \E i \in 1..Len(vmRows) : vmRows[i].name = n
        \/ Enrols /\ vmCall.row.name = n

\* What the answers under way say is still so.
AnswersFit ==
    /\ Enrols => /\ \A i \in 1..Len(vmRows) : vmRows[i].name # vmCall.row.name
                 /\ \A r \in vmRemovals : r.name # vmCall.row.name
                 /\ vmInventory[vmCall.row.name] = vmCall.row.env
    /\ Classifies => vmInventory[vmCall.row.name] \in {Nil, vmCall.row.env}
    /\ \A r \in vmRemovals : r.answer = "ok" => vmInventory[r.name] = Nil

RowsHold == Distinct(vmRows) /\ ShownAre /\ AreShown /\ AnswersFit

\* Before the list is loaded nothing is shown and nothing is about to change.
NotYet ==
    /\ vmRows = <<>> /\ vmRemovals = {} /\ ~Enrols /\ ~Classifies
    /\ vmLoad = "read" => vmSnapshot = Listed(vmInventory)

RowsFit ==
    ~vmDrift =>
        /\ vmLoad = "done" => RowsHold
        /\ vmLoad # "done" => vmLoad # "failed" /\ NotYet

VmInv == VmTyped /\ TokensFit /\ RowsFit

-----------------------------------------------------------------------------
LEMMA VmStarts ==
    ASSUME NEW inventory \in [Names -> Environments \cup {Nil}], VmInit(inventory)
    PROVE  VmInv
<1>1. <<>> \in Seq(Forms)
  OBVIOUS
<1>2. VmTyped
  BY <1>1 DEF VmInit, VmTyped
<1>3. TokensFit
  BY DEF VmInit, TokensFit
<1>4. RowsFit
  BY DEF VmInit, RowsFit, NotYet, Enrols, Classifies
<1> QED BY <1>2, <1>3, <1>4 DEF VmInv

\* What a request and its row hold.
LEMMA VmCallIs ==
    ASSUME VmTyped, vmCall # Nil
    PROVE  /\ vmCall \in VmCalls
           /\ vmCall.row \in Forms /\ vmCall.row.name \in Names
           /\ vmCall.row.env \in Environments /\ vmCall.row.env # Nil
BY NilIsNoneOfThem DEF VmTyped, VmCalls, Forms

\* A request that was answered is the same request.
LEMMA CallAnswered ==
    ASSUME NEW call \in VmCalls, NEW answer \in {"ok", "failed"}
    PROVE  LET new == [call EXCEPT !.answer = answer]
           IN  /\ new \in VmCalls /\ new # Nil /\ new.answer = answer
               /\ new.kind = call.kind /\ new.row = call.row
               /\ new.trust = call.trust /\ new.token = call.token
<1> DEFINE new == [call EXCEPT !.answer = answer]
<1>1. new \in VmCalls
  BY DEF VmCalls
<1>2. new.answer = answer /\ new.kind = call.kind /\ new.row = call.row
      /\ new.trust = call.trust /\ new.token = call.token
  BY DEF VmCalls
<1> QED BY <1>1, <1>2, NilIsNoneOfThem

\* So is a request for a host key, which now has one.
LEMMA KeyOffered ==
    ASSUME NEW call \in VmCalls, NEW t \in KeyTokens
    PROVE  LET new == [call EXCEPT !.answer = "ok", !.token = t]
           IN  /\ new \in VmCalls /\ new # Nil /\ new.answer = "ok"
               /\ new.kind = call.kind /\ new.row = call.row
               /\ new.trust = call.trust /\ new.token = t
<1> DEFINE new == [call EXCEPT !.answer = "ok", !.token = t]
<1>1. new \in VmCalls
  BY DEF VmCalls
<1>2. new.answer = "ok" /\ new.kind = call.kind /\ new.row = call.row
      /\ new.trust = call.trust /\ new.token = t
  BY DEF VmCalls
<1> QED BY <1>1, <1>2, NilIsNoneOfThem

\* The request is served: it is the same request, and the backend did what it
\* asked for.
ServedFor(name) ==
    \/ /\ vmCall.kind = "discover"
       /\ \E t \in KeyTokens :
            /\ vmOffers[t] = Nil /\ vmOffers' = [vmOffers EXCEPT ![t] = vmCall.row]
            /\ vmCall'.token = t
       /\ vmInventory' = vmInventory /\ vmDrift' = vmDrift
    \/ /\ vmCall.kind = "decide" /\ vmCall.trust /\ vmInventory[name] = Nil
       /\ vmInventory' = [vmInventory EXCEPT ![name] = vmCall.row.env]
       /\ vmDrift' = (vmDrift \/ Overtaken \/ \E r \in vmRemovals : r.name = name)
       /\ vmOffers' = vmOffers
    \/ /\ vmCall.kind = "decide" /\ ~vmCall.trust
       /\ vmInventory' = vmInventory /\ vmDrift' = vmDrift /\ vmOffers' = vmOffers
    \/ /\ vmCall.kind = "classify" /\ vmInventory[name] # Nil
       /\ vmInventory' = [vmInventory EXCEPT ![name] = vmCall.row.env]
       /\ vmDrift' = (vmDrift \/ Overtaken) /\ vmOffers' = vmOffers

SameCall(answer) ==
    /\ vmCall' \in VmCalls /\ vmCall' # Nil /\ vmCall'.answer = answer
    /\ vmCall'.kind = vmCall.kind /\ vmCall'.row = vmCall.row
    /\ vmCall'.trust = vmCall.trust

LEMMA ServedIs ==
    ASSUME VmTyped, VmServed
    PROVE  /\ vmCall \in VmCalls /\ vmCall # Nil /\ vmCall.answer = "asked"
           /\ SameCall("ok") /\ ServedFor(vmCall.row.name)
           /\ UNCHANGED <<vmLoad, vmSnapshot, vmRows, vmPending, vmDialog, vmRemoving,
                          vmRemovals, vmRemoved, vmDecided>>
<1>1. vmCall # Nil /\ vmCall.answer = "asked"
  BY Zenon DEF VmServed, vmBusy
<1>2. vmCall \in VmCalls
  BY <1>1, VmCallIs
<1>3. \/ \E t \in KeyTokens : vmCall' = [vmCall EXCEPT !.answer = "ok", !.token = t]
      \/ vmCall' = [vmCall EXCEPT !.answer = "ok"]
  BY Zenon DEF VmServed
<1>4. SameCall("ok")
  <2>1. CASE \E t \in KeyTokens : vmCall' = [vmCall EXCEPT !.answer = "ok", !.token = t]
    <3>1. PICK t \in KeyTokens : vmCall' = [vmCall EXCEPT !.answer = "ok", !.token = t]
      BY <2>1, Zenon
    <3> QED BY <1>2, <3>1, KeyOffered, Zenon DEF SameCall
  <2>2. CASE vmCall' = [vmCall EXCEPT !.answer = "ok"]
    BY <1>2, <2>2, CallAnswered, Zenon DEF SameCall
  <2> QED BY <1>3, <2>1, <2>2, Zenon
<1>5. ASSUME NEW t \in KeyTokens, vmCall' = [vmCall EXCEPT !.answer = "ok", !.token = t]
      PROVE  vmCall'.token = t
  BY <1>2, <1>5, KeyOffered, Zenon
<1>6. ServedFor(vmCall.row.name)
  BY <1>5, Zenon DEF VmServed, ServedFor
<1>7. UNCHANGED <<vmLoad, vmSnapshot, vmRows, vmPending, vmDialog, vmRemoving, vmRemovals,
                  vmRemoved, vmDecided>>
  BY Zenon DEF VmServed
<1> QED BY <1>1, <1>2, <1>4, <1>6, <1>7

\* A request that comes to nothing is the same request too.
LEMMA RefusedIs ==
    ASSUME VmTyped, VmRefused
    PROVE  /\ vmCall \in VmCalls /\ vmCall # Nil /\ SameCall("failed")
           /\ vmDrift' = (vmDrift \/ vmCall.answer = "ok")
           /\ UNCHANGED <<vmLoad, vmSnapshot, vmRows, vmPending, vmDialog, vmRemoving,
                          vmRemovals, vmRemoved, vmInventory, vmOffers, vmDecided>>
<1>1. vmCall # Nil /\ vmCall' = [vmCall EXCEPT !.answer = "failed"]
  BY Zenon DEF VmRefused, vmBusy
<1>2. vmCall \in VmCalls
  BY <1>1, VmCallIs, Zenon
<1>3. SameCall("failed")
  BY <1>1, <1>2, CallAnswered, Zenon DEF SameCall
<1>4. /\ vmDrift' = (vmDrift \/ vmCall.answer = "ok")
      /\ UNCHANGED <<vmLoad, vmSnapshot, vmRows, vmPending, vmDialog, vmRemoving,
                     vmRemovals, vmRemoved, vmInventory, vmOffers, vmDecided>>
  BY Zenon DEF VmRefused, vmBackend
<1> QED BY <1>1, <1>2, <1>3, <1>4

-----------------------------------------------------------------------------
\* Rows that keep their machines, and requests that mean the same, keep the
\* types.
LEMMA VmTypeStep ==
    ASSUME VmTyped, TokensFit, VmNext
    PROVE  VmTyped'
<1> USE DEF VmTyped
<1>1. ASSUME NEW f \in Forms, DiscoverKey(f) PROVE VmTyped'
  <2>1. vmCall' \in VmCalls
    BY <1>1 DEF DiscoverKey, VmCalls
  <2> QED BY <1>1, <2>1 DEF DiscoverKey, vmBackend
<1>2. ASSUME NEW trust \in BOOLEAN, DecideKey(trust) PROVE VmTyped'
  <2>1. vmPending \in KeyTokens /\ vmOffers[vmPending] \in Forms
    BY <1>2, NilIsNoneOfThem DEF DecideKey, MayDecide, TokensFit
  <2>2. vmCall' \in VmCalls
    BY <1>2, <2>1 DEF DecideKey, VmCalls
  <2> QED BY <1>2, <2>2 DEF DecideKey, vmBackend
<1>3. ASSUME NEW i \in DOMAIN vmRows, OpenDialog(i) PROVE VmTyped'
  <2>1. vmRows[i].name \in Names
    <3>1. vmRows[i] \in Forms
      OBVIOUS
    <3> QED BY <3>1 DEF Forms
  <2> QED BY <1>3, <2>1 DEF OpenDialog, vmBackend
<1>4. ASSUME NEW i \in DOMAIN vmRows, RemoveVm(i) PROVE VmTyped'
  <2>1. vmRows[i].name \in Names
    <3>1. vmRows[i] \in Forms
      OBVIOUS
    <3> QED BY <3>1 DEF Forms
  <2>2. [nr |-> vmRemoved, name |-> vmRows[i].name, answer |-> "asked"] \in Removals
    BY <2>1 DEF Removals
  <2>3. vmRemoved' \in Nat /\ vmRemovals' \subseteq Removals
    BY <1>4, <2>2 DEF RemoveVm
  <2> QED BY <1>4, <2>3 DEF RemoveVm, vmBackend
<1>5. ASSUME NEW e \in Environments, ClassifyVm(e) PROVE VmTyped'
  <2>1. Row(vmDialog, e) \in Forms
    BY <1>5 DEF ClassifyVm, Row, Forms
  <2>2. vmCall' \in VmCalls
    BY <1>5, <2>1 DEF ClassifyVm, VmCalls
  <2> QED BY <1>5, <2>2 DEF ClassifyVm, vmBackend
<1>6. CASE CancelDialog
  BY <1>6 DEF CancelDialog, vmBackend
<1>7. CASE VmListRead
  <2>1. Listed(vmInventory) \in Seq(Forms)
    BY ListedIs
  <2> QED BY <1>7, <2>1 DEF VmListRead, vmBackend
<1>8. CASE VmListArrives \/ VmLoadFails
  <2>1. <<>> \in Seq(Forms)
    OBVIOUS
  <2> QED BY <1>8, <2>1 DEF VmListArrives, VmLoadFails, vmBackend
<1>9. CASE VmServed
  <2>1. vmCall.row \in Forms /\ vmCall.row.name \in Names /\ vmCall.row.env \in Environments
    BY <1>9, ServedIs, VmCallIs
  <2>2. ServedFor(vmCall.row.name) /\ vmCall' \in VmCalls
    BY <1>9, ServedIs DEF SameCall
  <2>3. vmInventory' \in [Names -> Environments \cup {Nil}]
    BY <2>1, <2>2 DEF ServedFor
  <2>4. vmOffers' \in [KeyTokens -> Forms \cup {Nil}]
    BY <2>1, <2>2 DEF ServedFor
  <2>5. vmDrift' \in BOOLEAN
    BY <2>2 DEF ServedFor, Overtaken
  <2> QED BY <1>9, <2>2, <2>3, <2>4, <2>5, ServedIs
<1>10. CASE VmRefused
  <2>1. vmCall \in VmCalls
    BY <1>10, VmCallIs DEF VmRefused, vmBusy
  <2>2. vmCall' \in VmCalls
    BY <1>10, <2>1, CallAnswered DEF VmRefused
  <2> QED BY <1>10, <2>2 DEF VmRefused, vmBackend
<1>11. CASE KeyArrives
  <2>1. vmCall.token \in KeyTokens
    BY <1>11 DEF KeyArrives, TokensFit, vmBusy
  <2> QED BY <1>11, <2>1 DEF KeyArrives, vmBackend
<1>12. CASE DecisionArrives
  <2>1. vmCall.row \in Forms
    BY <1>12, VmCallIs DEF DecisionArrives, vmBusy
  <2>2. vmRows' \in Seq(Forms)
    BY <1>12, <2>1, JoinedIs DEF DecisionArrives
  <2> QED BY <1>12, <2>2 DEF DecisionArrives, vmBackend
<1>13. CASE ClassificationArrives
  <2>1. vmCall.row \in Forms
    BY <1>13, VmCallIs DEF ClassificationArrives, vmBusy
  <2>2. vmRows' \in Seq(Forms)
    BY <1>13, <2>1 DEF ClassificationArrives
  <2> QED BY <1>13, <2>2 DEF ClassificationArrives, vmBackend
<1>14. CASE VmCallFails
  BY <1>14 DEF VmCallFails, vmBackend
<1>15. ASSUME NEW r \in vmRemovals, VmRemovalServed(r) \/ VmRemovalRefused(r)
       PROVE  VmTyped'
  <2>1. r \in Removals /\ [r EXCEPT !.answer = "ok"] \in Removals
        /\ [r EXCEPT !.answer = "failed"] \in Removals
    BY <1>15 DEF Removals
  <2>2. vmRemovals' \subseteq Removals
    BY <1>15, <2>1 DEF VmRemovalServed, VmRemovalRefused, Serve
  <2>3. vmInventory' \in [Names -> Environments \cup {Nil}]
    BY <1>15, <2>1 DEF VmRemovalServed, VmRemovalRefused, Removals, vmBackend
  <2> QED BY <1>15, <2>2, <2>3 DEF VmRemovalServed, VmRemovalRefused, vmBackend, Overtaken
<1>16. ASSUME NEW r \in vmRemovals, RemovalArrives(r) PROVE VmTyped'
  <2>1. Without(vmRows, r.name) \in Seq(Forms)
    BY OthersStay DEF Keeps
  <2> QED BY <1>16, <2>1 DEF RemovalArrives, RowsAfter, vmBackend
<1> QED BY <1>1, <1>2, <1>3, <1>4, <1>5, <1>6, <1>7, <1>8, <1>9, <1>10, <1>11, <1>12, <1>13,
           <1>14, <1>15, <1>16
        DEF VmNext, VmUser, VmAnswers, VmRemovalAnswers

\* A key is decided on once: the decision takes it off the page.
LEMMA TokensStep ==
    ASSUME VmTyped, TokensFit, VmNext
    PROVE  TokensFit'
<1>0. vmPending \in KeyTokens \cup {Nil} /\ Nil \notin KeyTokens
  BY NilIsNoneOfThem DEF VmTyped
<1>1. ASSUME NEW f \in Forms, DiscoverKey(f) PROVE TokensFit'
  <2>1. vmPending' = Nil /\ vmCall'.answer = "asked"
    BY <1>1 DEF DiscoverKey
  <2> QED BY <1>1, <2>1 DEF DiscoverKey, TokensFit, vmBackend
<1>2. ASSUME NEW trust \in BOOLEAN, DecideKey(trust) PROVE TokensFit'
  <2>1. /\ vmPending \in KeyTokens /\ vmPending' = vmPending /\ vmOffers' = vmOffers
        /\ vmOffers[vmPending] # Nil /\ vmDecided[vmPending] # 1
    BY <1>0, <1>2 DEF DecideKey, MayDecide, vmBusy, vmBackend, TokensFit
  <2>2. vmDecided[vmPending] = 0 /\ vmDecided' = [vmDecided EXCEPT ![vmPending] = 1]
    <3>1. vmDecided' = [vmDecided EXCEPT ![vmPending] = vmDecided[vmPending] + 1]
      BY <1>2, Zenon DEF DecideKey
    <3>2. vmDecided[vmPending] \in {0, 1}
      BY <2>1 DEF TokensFit
    <3>3. vmDecided[vmPending] = 0 /\ vmDecided[vmPending] + 1 = 1
      BY <2>1, <3>2
    <3> QED BY <3>1, <3>3, Zenon
  <2>3. vmCall'.kind = "decide" /\ vmCall' \in VmCalls
    <3>1. vmOffers[vmPending] \in Forms
      BY <2>1 DEF VmTyped
    <3> QED BY <1>2, <2>1, <3>1 DEF DecideKey, VmCalls
  <2>4. vmCall' # Nil
    BY <2>3, NilIsNoneOfThem
  <2> QED BY <2>1, <2>2, <2>3, <2>4 DEF TokensFit
<1>3. ASSUME NEW i \in DOMAIN vmRows, OpenDialog(i) \/ RemoveVm(i) PROVE TokensFit'
  BY <1>3 DEF OpenDialog, RemoveVm, TokensFit, vmBackend
<1>4. ASSUME NEW e \in Environments, ClassifyVm(e) PROVE TokensFit'
  BY <1>4 DEF ClassifyVm, TokensFit, vmBackend, vmBusy
<1>5. CASE CancelDialog \/ VmListRead \/ VmListArrives \/ VmLoadFails
  BY <1>5 DEF CancelDialog, VmListRead, VmListArrives, VmLoadFails, TokensFit, vmBackend
<1>6. CASE VmServed
  <2>1. /\ vmCall \in VmCalls /\ vmCall # Nil /\ vmCall.answer = "asked"
        /\ SameCall("ok") /\ ServedFor(vmCall.row.name)
        /\ vmPending' = vmPending /\ vmDecided' = vmDecided
    BY <1>6, ServedIs
  <2>2. vmCall.row # Nil
    BY <2>1, VmCallIs, NilIsNoneOfThem
  <2>3. CASE vmCall.kind = "discover"
    <3>1. PICK t \in KeyTokens : /\ vmOffers[t] = Nil /\ vmCall'.token = t
                                 /\ vmOffers' = [vmOffers EXCEPT ![t] = vmCall.row]
      BY <2>1, <2>3 DEF ServedFor
    <3>2. vmPending' = Nil /\ vmDecided[t] = 0
      BY <2>1, <2>3, <3>1 DEF TokensFit
    <3>3. vmOffers'[t] # Nil /\ \A u \in KeyTokens : u # t => vmOffers'[u] = vmOffers[u]
      BY <2>2, <3>1 DEF VmTyped
    <3> QED BY <2>1, <3>1, <3>2, <3>3 DEF TokensFit, SameCall
  <2>4. CASE vmCall.kind # "discover"
    <3>1. vmOffers' = vmOffers
      BY <2>1, <2>4 DEF ServedFor
    <3> QED BY <2>1, <2>4, <3>1 DEF TokensFit, SameCall
  <2> QED BY <2>3, <2>4
<1>7. CASE VmRefused
  BY <1>7, RefusedIs DEF TokensFit, SameCall
<1>8. CASE KeyArrives
  <2>1. /\ vmCall.token \in KeyTokens /\ vmOffers[vmCall.token] # Nil
        /\ vmDecided[vmCall.token] = 0
    BY <1>8 DEF KeyArrives, TokensFit, vmBusy
  <2> QED BY <1>8, <2>1 DEF KeyArrives, TokensFit, vmBackend
<1>9. CASE DecisionArrives
  BY <1>9 DEF DecisionArrives, TokensFit, vmBackend
<1>10. CASE ClassificationArrives
  BY <1>10 DEF ClassificationArrives, TokensFit, vmBackend
<1>11. CASE VmCallFails
  BY <1>11 DEF VmCallFails, TokensFit, vmBackend
<1>12. ASSUME NEW r \in vmRemovals,
              VmRemovalServed(r) \/ VmRemovalRefused(r) \/ RemovalArrives(r)
       PROVE  TokensFit'
  <2>1. UNCHANGED <<vmPending, vmCall, vmOffers, vmDecided>>
    BY <1>12, Zenon DEF VmRemovalServed, VmRemovalRefused, RemovalArrives, vmBackend
  <2> QED BY <2>1 DEF TokensFit
<1> QED BY <1>1, <1>2, <1>3, <1>4, <1>5, <1>6, <1>7, <1>8, <1>9, <1>10, <1>11, <1>12
        DEF VmNext, VmUser, VmAnswers, VmRemovalAnswers

-----------------------------------------------------------------------------
\* What an unloaded page and a loaded one are told apart by, while nothing was
\* missed.
Still == UNCHANGED <<vmLoad, vmSnapshot, vmRows, vmRemovals, vmInventory, vmDrift>>

\* A step of the user or of the key leaves the rows as true as they were: no
\* answer came that changes the inventory.
LEMMA RowsStill ==
    ASSUME RowsFit, Still, Enrols' <=> Enrols, Classifies' <=> Classifies,
           Enrols \/ Classifies => vmCall'.row = vmCall.row
    PROVE  RowsFit'
<1>1. RowsHold => RowsHold'
  BY DEF RowsHold, Distinct, ShownAre, AreShown, AnswersFit, Still
<1>2. NotYet => NotYet'
  BY DEF NotYet, Still
<1> QED BY <1>1, <1>2 DEF RowsFit, Still

\* The user asks.
LEMMA RowsUser ==
    ASSUME VmTyped, TokensFit, RowsFit, VmUser
    PROVE  RowsFit'
<1>1. ASSUME NEW f \in Forms, DiscoverKey(f) PROVE RowsFit'
  <2>1. Still /\ ~Enrols /\ ~Classifies /\ ~Enrols' /\ ~Classifies'
    BY <1>1 DEF DiscoverKey, Still, Enrols, Classifies, vmBusy, vmBackend
  <2> QED BY <2>1, RowsStill
<1>2. ASSUME NEW trust \in BOOLEAN, DecideKey(trust) PROVE RowsFit'
  <2>1. Still /\ ~Enrols /\ ~Classifies /\ ~Enrols' /\ ~Classifies'
    BY <1>2 DEF DecideKey, MayDecide, Still, Enrols, Classifies, vmBusy, vmBackend
  <2> QED BY <2>1, RowsStill
<1>3. ASSUME NEW i \in DOMAIN vmRows, OpenDialog(i) PROVE RowsFit'
  <2>1. Still /\ vmCall' = vmCall
    BY <1>3 DEF OpenDialog, Still, vmBackend
  <2> QED BY <2>1, RowsStill DEF Enrols, Classifies
<1>4. ASSUME NEW i \in DOMAIN vmRows, RemoveVm(i) PROVE RowsFit'
  <2>1. /\ UNCHANGED <<vmLoad, vmSnapshot, vmRows, vmCall, vmInventory, vmDrift>>
        /\ vmRemovals' = vmRemovals \cup {[nr |-> vmRemoved, name |-> vmRows[i].name,
                                           answer |-> "asked"]}
    BY <1>4, Zenon DEF RemoveVm, vmBackend
  <2>2. vmRows # <<>> /\ i \in 1..Len(vmRows)
    <3>1. vmRows \in Seq(Forms) BY DEF VmTyped
    <3> QED BY <3>1
  <2>3. ASSUME RowsHold PROVE RowsHold'
    <3>1. Distinct(vmRows)' /\ AreShown'
      BY <2>1, <2>3 DEF RowsHold, Distinct, AreShown, Enrols
    <3>2. ShownAre'
      BY <2>1, <2>3 DEF RowsHold, ShownAre, Classifies
    <3>3. AnswersFit'
      <4>1. Enrols => vmRows[i].name # vmCall.row.name
        BY <2>2, <2>3 DEF RowsHold, AnswersFit
      <4> QED BY <2>1, <2>3, <4>1 DEF RowsHold, AnswersFit, Enrols, Classifies
    <3> QED BY <3>1, <3>2, <3>3 DEF RowsHold
  <2> QED BY <2>1, <2>2, <2>3 DEF RowsFit, NotYet
<1>5. ASSUME NEW e \in Environments, ClassifyVm(e) PROVE RowsFit'
  <2>1. Still /\ ~Enrols /\ ~Classifies /\ ~Enrols' /\ ~Classifies'
    BY <1>5 DEF ClassifyVm, Still, Enrols, Classifies, vmBusy, vmBackend
  <2> QED BY <2>1, RowsStill
<1>6. CASE CancelDialog
  <2>1. Still /\ vmCall' = vmCall
    BY <1>6 DEF CancelDialog, Still, vmBackend
  <2> QED BY <2>1, RowsStill DEF Enrols, Classifies
<1> QED BY <1>1, <1>2, <1>3, <1>4, <1>5, <1>6 DEF VmUser

\* The list is read and shown, or lost.
LEMMA RowsLoad ==
    ASSUME VmTyped, RowsFit, VmListRead \/ VmListArrives \/ VmLoadFails
    PROVE  RowsFit'
<1>1. CASE VmListRead
  <2>1. /\ vmLoad = "asked" /\ vmLoad' = "read" /\ vmSnapshot' = Listed(vmInventory)
        /\ UNCHANGED <<vmRows, vmRemovals, vmCall, vmInventory, vmDrift>>
    BY <1>1, Zenon DEF VmListRead, vmBackend
  <2> QED BY <2>1 DEF RowsFit, NotYet, Enrols, Classifies
<1>2. CASE VmListArrives
  <2>1. /\ vmLoad = "read" /\ vmLoad' = "done" /\ vmRows' = vmSnapshot
        /\ UNCHANGED <<vmRemovals, vmCall, vmInventory, vmDrift>>
    BY <1>2, Zenon DEF VmListArrives, vmBackend
  <2>2. SUFFICES ASSUME ~vmDrift PROVE RowsHold'
    BY <2>1 DEF RowsFit
  <2>3. vmRows' = Listed(vmInventory) /\ vmRemovals = {} /\ ~Enrols /\ ~Classifies
    BY <2>1, <2>2 DEF RowsFit, NotYet
  <2> DEFINE list == Listed(vmInventory)
  <2>4. /\ Distinct(list)
        /\ \A i \in 1..Len(list) :
              vmInventory[list[i].name] # Nil /\ list[i].env = vmInventory[list[i].name]
        /\ \A n \in Names : vmInventory[n] # Nil => \E i \in 1..Len(list) : list[i].name = n
    <3>1. vmInventory \in [Names -> Environments \cup {Nil}]
      BY DEF VmTyped
    <3>2. \A n \in Names : vmInventory[n] # Nil =>
             \E i \in 1..Len(list) : list[i] = Row(n, vmInventory[n])
      BY <3>1, ListedIs
    <3>3. \A n : Row(n, vmInventory[n]).name = n
      BY DEF Row
    <3>4. \A n \in Names : vmInventory[n] # Nil => \E i \in 1..Len(list) : list[i].name = n
      BY <3>2, <3>3
    <3>5. /\ Distinct(list)
          /\ \A i \in 1..Len(list) :
                vmInventory[list[i].name] # Nil /\ list[i].env = vmInventory[list[i].name]
      BY <3>1, ListedIs
    <3> QED BY <3>4, <3>5
  <2> HIDE DEF list
  <2>5. vmRows' = list /\ vmInventory' = vmInventory /\ ~Enrols' /\ ~Classifies' /\ vmRemovals' = {}
    BY <2>1, <2>3 DEF list, Enrols, Classifies
  <2>6. Distinct(vmRows)'
    BY <2>4, <2>5 DEF Distinct
  <2>7. ShownAre' /\ AreShown' /\ AnswersFit'
    BY <2>4, <2>5 DEF ShownAre, AreShown, AnswersFit
  <2> QED BY <2>6, <2>7 DEF RowsHold
<1>3. CASE VmLoadFails
  BY <1>3 DEF VmLoadFails, RowsFit
<1> QED BY <1>1, <1>2, <1>3

\* The backend serves a request, and the page is about to hear of it.
LEMMA RowsServed ==
    ASSUME VmTyped, RowsFit, VmServed
    PROVE  RowsFit'
<1>1. /\ vmCall # Nil /\ vmCall.answer = "asked" /\ SameCall("ok") /\ ServedFor(vmCall.row.name)
      /\ UNCHANGED <<vmLoad, vmSnapshot, vmRows, vmRemovals>>
  BY ServedIs
<1> DEFINE name == vmCall.row.name
<1>2. /\ vmInventory \in [Names -> Environments \cup {Nil}] /\ vmRows \in Seq(Forms)
      /\ vmLoad \in {"asked", "read", "done", "failed"}
      /\ name \in Names /\ vmCall.row.env \in Environments /\ vmCall.row.env # Nil
  BY <1>1, VmCallIs DEF VmTyped
<1>3. ~Enrols /\ ~Classifies
  BY <1>1 DEF Enrols, Classifies
<1>4. /\ vmCall' # Nil /\ vmCall'.answer = "ok" /\ vmCall'.kind = vmCall.kind
      /\ vmCall'.row = vmCall.row /\ vmCall'.trust = vmCall.trust
  BY <1>1 DEF SameCall
<1>5. CASE vmInventory' = vmInventory /\ ~Enrols' /\ ~Classifies' /\ vmDrift' = vmDrift
  <2>1. Still
    BY <1>1, <1>5 DEF Still
  <2> QED BY <1>3, <1>5, <2>1, RowsStill
<1>6. CASE /\ Enrols' /\ ~Classifies' /\ vmInventory[name] = Nil
           /\ vmInventory' = [vmInventory EXCEPT ![name] = vmCall.row.env]
           /\ vmDrift' = (vmDrift \/ Overtaken \/ \E r \in vmRemovals : r.name = name)
  <2>1. SUFFICES ASSUME ~vmDrift' PROVE (vmLoad = "done" /\ RowsHold') \/ FALSE
    BY <1>1 DEF RowsFit
  <2>2. ~vmDrift /\ vmLoad = "done" /\ RowsHold /\ \A r \in vmRemovals : r.name # name
    BY <1>2, <1>6, <2>1 DEF RowsFit, Overtaken
  <2>3. \A i \in 1..Len(vmRows) : vmRows[i].name # name
    BY <1>6, <2>2 DEF RowsHold, ShownAre
  <2>4. vmInventory'[name] = vmCall.row.env
        /\ \A n \in Names : n # name => vmInventory'[n] = vmInventory[n]
    BY <1>2, <1>6
  <2>5. \A i \in 1..Len(vmRows) : vmRows[i].name \in Names
    <3>1. \A i \in 1..Len(vmRows) : vmRows[i] \in Forms
      BY <1>2
    <3> QED BY <3>1 DEF Forms
  <2>6. \A r \in vmRemovals : r.name \in Names
    BY DEF VmTyped, Removals
  <2>7. Distinct(vmRows)'
    BY <1>1, <2>2 DEF RowsHold, Distinct
  <2>8. ShownAre'
    BY <1>1, <1>3, <2>2, <2>3, <2>4, <2>5 DEF RowsHold, ShownAre
  <2>9. AreShown'
    BY <1>1, <1>3, <1>4, <1>6, <2>2, <2>4 DEF RowsHold, AreShown
  <2>10. AnswersFit'
    BY <1>1, <1>4, <1>6, <2>2, <2>3, <2>4, <2>6 DEF RowsHold, AnswersFit
  <2> QED BY <2>2, <2>7, <2>8, <2>9, <2>10 DEF RowsHold
<1>7. CASE /\ ~Enrols' /\ Classifies' /\ vmInventory[name] # Nil
           /\ vmInventory' = [vmInventory EXCEPT ![name] = vmCall.row.env]
           /\ vmDrift' = (vmDrift \/ Overtaken)
  <2>1. SUFFICES ASSUME ~vmDrift' PROVE (vmLoad = "done" /\ RowsHold') \/ FALSE
    BY <1>1 DEF RowsFit
  <2>2. ~vmDrift /\ vmLoad = "done" /\ RowsHold
    BY <1>2, <1>7, <2>1 DEF RowsFit, Overtaken
  <2>4. vmInventory'[name] = vmCall.row.env
        /\ \A n \in Names : n # name => vmInventory'[n] = vmInventory[n]
    BY <1>2, <1>7
  <2>5. \A i \in 1..Len(vmRows) : vmRows[i].name \in Names
    <3>1. \A i \in 1..Len(vmRows) : vmRows[i] \in Forms
      BY <1>2
    <3> QED BY <3>1 DEF Forms
  <2>6. \A r \in vmRemovals : r.name \in Names
    BY DEF VmTyped, Removals
  <2>7. Distinct(vmRows)'
    BY <1>1, <2>2 DEF RowsHold, Distinct
  <2>8. ShownAre'
    BY <1>1, <1>2, <1>3, <1>4, <1>7, <2>2, <2>4, <2>5 DEF RowsHold, ShownAre
  <2>9. AreShown'
    BY <1>1, <1>3, <1>7, <2>2, <2>4 DEF RowsHold, AreShown
  <2>10. AnswersFit'
    BY <1>1, <1>2, <1>4, <1>7, <2>2, <2>4, <2>6 DEF RowsHold, AnswersFit
  <2> QED BY <2>2, <2>7, <2>8, <2>9, <2>10 DEF RowsHold
<1> QED
  <2>1. Enrols' <=> vmCall.kind = "decide" /\ vmCall.trust
    BY <1>4 DEF Enrols
  <2>2. Classifies' <=> vmCall.kind = "classify"
    BY <1>4 DEF Classifies
  <2> QED BY <1>1, <1>5, <1>6, <1>7, <2>1, <2>2 DEF ServedFor

\* A request comes to nothing; one that was served is missed.
LEMMA RowsRefused ==
    ASSUME VmTyped, RowsFit, VmRefused
    PROVE  RowsFit'
<1>1. /\ vmCall # Nil /\ SameCall("failed") /\ vmDrift' = (vmDrift \/ vmCall.answer = "ok")
      /\ UNCHANGED <<vmLoad, vmSnapshot, vmRows, vmRemovals, vmInventory>>
  BY RefusedIs
<1>2. CASE vmCall.answer = "ok"
  BY <1>1, <1>2 DEF RowsFit
<1>3. CASE vmCall.answer # "ok"
  <2>1. ~Enrols /\ ~Classifies /\ ~Enrols' /\ ~Classifies'
    BY <1>1, <1>3 DEF SameCall, Enrols, Classifies
  <2>2. Still
    BY <1>1, <1>3 DEF Still, VmTyped
  <2> QED BY <2>1, <2>2, RowsStill
<1> QED BY <1>2, <1>3

\* The answer to a request is applied.
LEMMA RowsAnswered ==
    ASSUME VmTyped, RowsFit,
           KeyArrives \/ DecisionArrives \/ ClassificationArrives \/ VmCallFails
    PROVE  RowsFit'
<1>0. /\ vmRows \in Seq(Forms) /\ \A i \in 1..Len(vmRows) : vmRows[i] \in Forms
      /\ Nil \notin Environments
  BY NilIsNoneOfThem DEF VmTyped
<1>1. CASE KeyArrives \/ VmCallFails \/ (DecisionArrives /\ ~vmCall.trust)
  <2>1. Still /\ ~Enrols /\ ~Classifies /\ ~Enrols' /\ ~Classifies'
    BY <1>1 DEF KeyArrives, VmCallFails, DecisionArrives, Still, Enrols, Classifies, vmBusy,
                vmBackend
  <2> QED BY <2>1, RowsStill
<1>2. CASE DecisionArrives /\ vmCall.trust
  <2> DEFINE row == vmCall.row
             longer == Append(vmRows, row)
  <2>1. /\ Enrols /\ ~Classifies /\ ~Enrols' /\ ~Classifies' /\ vmRows' = longer
        /\ UNCHANGED <<vmLoad, vmRemovals, vmInventory, vmDrift>>
    BY <1>2 DEF DecisionArrives, Enrols, Classifies, vmBusy, vmBackend
  <2>2. SUFFICES ASSUME ~vmDrift PROVE vmLoad = "done" /\ RowsHold'
    BY <2>1 DEF RowsFit
  <2>3. vmLoad = "done" /\ RowsHold
    BY <2>1, <2>2 DEF RowsFit, NotYet
  <2>4. row \in Forms /\ row.name \in Names /\ row.env \in Environments
    BY <2>1, VmCallIs DEF Enrols
  <2>5. /\ longer \in Seq(Forms) /\ Len(longer) = Len(vmRows) + 1
        /\ \A k \in 1..Len(vmRows) : longer[k] = vmRows[k]
        /\ longer[Len(vmRows) + 1] = row
    BY <1>0, <2>4, JoinedIs
  <2>6. \A k \in 1..Len(longer) : k \in 1..Len(vmRows) \/ k = Len(vmRows) + 1
    BY <1>0, <2>5
  <2>7. (\A k \in 1..Len(vmRows) : k \in 1..Len(longer)) /\ Len(vmRows) + 1 \in 1..Len(longer)
    BY <1>0, <2>5
  <2>8. /\ \A i \in 1..Len(vmRows) : vmRows[i].name # row.name
        /\ vmInventory[row.name] = row.env
    BY <2>1, <2>3 DEF RowsHold, AnswersFit
  <2> HIDE DEF longer
  <2>9. Distinct(longer)
    BY <2>3, <2>5, <2>6, <2>8 DEF RowsHold, Distinct
  <2>10. ShownAre'
    <3>1. \A i \in 1..Len(vmRows) :
            /\ vmInventory[vmRows[i].name] = Nil =>
                  \E r \in vmRemovals : r.name = vmRows[i].name /\ r.answer = "ok"
            /\ vmInventory[vmRows[i].name] \in {Nil, vmRows[i].env}
      BY <2>1, <2>3 DEF RowsHold, ShownAre
    <3>2. \A i \in 1..Len(longer) :
            /\ vmInventory[longer[i].name] = Nil =>
                  \E r \in vmRemovals : r.name = longer[i].name /\ r.answer = "ok"
            /\ vmInventory[longer[i].name] \in {Nil, longer[i].env}
      BY <1>0, <2>4, <2>5, <2>6, <2>8, <3>1
    <3> QED BY <2>1, <3>2 DEF ShownAre
  <2>11. AreShown'
    <3>1. ASSUME NEW n \in Names, vmInventory[n] # Nil
          PROVE  \E i \in 1..Len(longer) : longer[i].name = n
      <4>1. CASE row.name = n
        BY <2>5, <2>7, <4>1
      <4>2. CASE row.name # n
        <5>1. PICK i \in 1..Len(vmRows) : vmRows[i].name = n
          BY <2>3, <3>1, <4>2 DEF RowsHold, AreShown
        <5> QED BY <2>5, <2>7, <5>1
      <4> QED BY <4>1, <4>2
    <3> QED BY <2>1, <3>1 DEF AreShown
  <2>12. AnswersFit'
    BY <2>1, <2>3 DEF RowsHold, AnswersFit
  <2>13. Distinct(vmRows)'
    BY <2>1, <2>9 DEF Distinct
  <2> QED BY <2>3, <2>10, <2>11, <2>12, <2>13 DEF RowsHold
<1>3. CASE ClassificationArrives
  <2> DEFINE row == vmCall.row
             changed == [i \in DOMAIN vmRows |->
                           IF vmRows[i].name = row.name THEN row ELSE vmRows[i]]
  <2>1. /\ Classifies /\ ~Enrols /\ ~Enrols' /\ ~Classifies' /\ vmRows' = changed
        /\ UNCHANGED <<vmLoad, vmRemovals, vmInventory, vmDrift>>
    BY <1>3 DEF ClassificationArrives, Enrols, Classifies, vmBusy, vmBackend
  <2>2. SUFFICES ASSUME ~vmDrift PROVE vmLoad = "done" /\ RowsHold'
    BY <2>1 DEF RowsFit
  <2>3. vmLoad = "done" /\ RowsHold
    BY <2>1, <2>2 DEF RowsFit, NotYet
  <2>4. row \in Forms
    BY <2>1, VmCallIs DEF Classifies
  <2>5. /\ Len(changed) = Len(vmRows)
        /\ \A k \in 1..Len(vmRows) :
              changed[k] = IF vmRows[k].name = row.name THEN row ELSE vmRows[k]
    BY <1>0
  <2> HIDE DEF changed
  <2>6. \A k \in 1..Len(vmRows) : changed[k].name = vmRows[k].name
    BY <2>5
  <2>7. vmInventory[row.name] \in {Nil, row.env}
    BY <2>1, <2>3 DEF RowsHold, AnswersFit
  <2>8. Distinct(vmRows)'
    BY <2>1, <2>3, <2>5, <2>6 DEF RowsHold, Distinct
  <2>9. ShownAre'
    BY <2>1, <2>3, <2>5, <2>6, <2>7 DEF RowsHold, ShownAre
  <2>10. AreShown'
    BY <2>1, <2>3, <2>5, <2>6 DEF RowsHold, AreShown
  <2>11. AnswersFit'
    BY <2>1, <2>3 DEF RowsHold, AnswersFit
  <2> QED BY <2>3, <2>8, <2>9, <2>10, <2>11 DEF RowsHold
<1> QED BY <1>1, <1>2, <1>3

\* Removals are served, refused and answered in any order.
LEMMA RowsRemoved ==
    ASSUME VmTyped, RowsFit, VmRemovalAnswers
    PROVE  RowsFit'
<1>1. PICK r \in vmRemovals : VmRemovalServed(r) \/ VmRemovalRefused(r) \/ RemovalArrives(r)
  BY DEF VmRemovalAnswers
<1>2. /\ r \in Removals /\ r.name \in Names /\ vmRows \in Seq(Forms)
      /\ vmInventory \in [Names -> Environments \cup {Nil}]
      /\ vmLoad \in {"asked", "read", "done", "failed"} /\ vmDrift \in BOOLEAN
      /\ \A s \in vmRemovals : s.name \in Names
  BY DEF VmTyped, Removals
<1>3. \A i \in 1..Len(vmRows) : vmRows[i].name \in Names
  <2>1. \A i \in 1..Len(vmRows) : vmRows[i] \in Forms
    BY <1>2
  <2> QED BY <2>1 DEF Forms
<1>4. CASE VmRemovalServed(r)
  <2> DEFINE done == [r EXCEPT !.answer = "ok"]
  <2>1. /\ vmInventory' = [vmInventory EXCEPT ![r.name] = Nil]
        /\ vmRemovals' = (vmRemovals \ {r}) \cup {done}
        /\ vmDrift' = (vmDrift \/ Overtaken) /\ r.answer = "asked"
        /\ UNCHANGED <<vmLoad, vmRows, vmCall>>
    BY <1>4, Zenon DEF VmRemovalServed, Serve, Open
  <2>2. done.name = r.name /\ done.answer = "ok"
    BY <1>2 DEF Removals
  <2> HIDE DEF done
  <2>3. SUFFICES ASSUME ~vmDrift' PROVE vmLoad = "done" /\ RowsHold'
    BY <2>1 DEF RowsFit
  <2>4. vmLoad = "done" /\ RowsHold
    BY <1>2, <2>1, <2>3 DEF RowsFit, Overtaken
  <2>5. vmInventory'[r.name] = Nil
        /\ \A n \in Names : n # r.name => vmInventory'[n] = vmInventory[n]
    BY <1>2, <2>1
  <2>6. done \in vmRemovals' /\ \A s \in vmRemovals : s.answer = "ok" => s \in vmRemovals'
    BY <2>1
  <2>7. \A s \in vmRemovals' : s \in vmRemovals \/ s = done
    BY <2>1
  <2>8. Distinct(vmRows)'
    BY <2>1, <2>4 DEF RowsHold, Distinct
  <2>9. ShownAre'
    <3>1. ASSUME NEW i \in 1..Len(vmRows)
          PROVE  /\ vmInventory'[vmRows[i].name] = Nil =>
                      \E s \in vmRemovals' : s.name = vmRows[i].name /\ s.answer = "ok"
                 /\ vmInventory'[vmRows[i].name] \notin {Nil, vmRows[i].env} =>
                      Classifies /\ vmCall.row.name = vmRows[i].name
      BY <1>3, <2>2, <2>4, <2>5, <2>6 DEF RowsHold, ShownAre
    <3> QED BY <2>1, <3>1 DEF ShownAre, Classifies
  <2>10. AreShown'
    BY <2>1, <2>4, <2>5 DEF RowsHold, AreShown, Enrols
  <2>11. AnswersFit'
    <3>1. Enrols => /\ \A i \in 1..Len(vmRows) : vmRows[i].name # vmCall.row.name
                    /\ \A s \in vmRemovals' : s.name # vmCall.row.name
                    /\ vmInventory'[vmCall.row.name] = vmCall.row.env
      <4>1. Enrols => vmCall.row.name \in Names
        BY VmCallIs DEF Enrols
      <4> QED BY <2>2, <2>4, <2>5, <2>7, <4>1 DEF RowsHold, AnswersFit
    <3>2. Classifies => vmInventory'[vmCall.row.name] \in {Nil, vmCall.row.env}
      <4>1. Classifies => vmCall.row.name \in Names
        BY VmCallIs DEF Classifies
      <4> QED BY <2>4, <2>5, <4>1 DEF RowsHold, AnswersFit
    <3>3. \A s \in vmRemovals' : s.answer = "ok" => vmInventory'[s.name] = Nil
      BY <1>2, <2>2, <2>4, <2>5, <2>7 DEF RowsHold, AnswersFit
    <3> QED BY <2>1, <3>1, <3>2, <3>3 DEF AnswersFit, Enrols, Classifies
  <2> QED BY <2>4, <2>8, <2>9, <2>10, <2>11 DEF RowsHold
<1>5. CASE VmRemovalRefused(r)
  <2> DEFINE lost == [r EXCEPT !.answer = "failed"]
  <2>1. /\ vmRemovals' = (vmRemovals \ {r}) \cup {lost}
        /\ vmDrift' = (vmDrift \/ r.answer = "ok")
        /\ UNCHANGED <<vmLoad, vmRows, vmCall, vmInventory>>
    BY <1>5, Zenon DEF VmRemovalRefused, Serve, vmBackend
  <2>2. lost.name = r.name /\ lost.answer = "failed"
    BY <1>2 DEF Removals
  <2> HIDE DEF lost
  <2>3. SUFFICES ASSUME ~vmDrift' PROVE vmLoad = "done" /\ RowsHold'
    BY <2>1 DEF RowsFit
  <2>4. vmLoad = "done" /\ RowsHold /\ r.answer # "ok"
    BY <1>2, <2>1, <2>3 DEF RowsFit, NotYet
  <2>6. \A s \in vmRemovals : s.answer = "ok" => s \in vmRemovals'
    BY <2>1, <2>4
  <2>7. \A s \in vmRemovals' : s \in vmRemovals \/ s = lost
    BY <2>1
  <2>8. Distinct(vmRows)' /\ AreShown'
    BY <2>1, <2>4 DEF RowsHold, Distinct, AreShown, Enrols
  <2>9. ShownAre'
    BY <2>1, <2>4, <2>6 DEF RowsHold, ShownAre, Classifies
  <2>10. AnswersFit'
    BY <2>1, <2>2, <2>4, <2>7 DEF RowsHold, AnswersFit, Enrols, Classifies
  <2> QED BY <2>4, <2>8, <2>9, <2>10 DEF RowsHold
<1>6. CASE RemovalArrives(r)
  <2>1. /\ vmRows' = (IF r.answer = "ok" THEN Without(vmRows, r.name) ELSE vmRows)
        /\ vmRemovals' = vmRemovals \ {r}
        /\ UNCHANGED <<vmLoad, vmCall, vmInventory, vmDrift>>
    BY <1>6, Zenon DEF RemovalArrives, RowsAfter, vmBackend
  <2>3. SUFFICES ASSUME ~vmDrift PROVE vmLoad = "done" /\ RowsHold'
    BY <2>1 DEF RowsFit
  <2>4. vmLoad = "done" /\ RowsHold
    BY <2>3 DEF RowsFit, NotYet
  <2>5. CASE r.answer # "ok"
    <3>1. vmRows' = vmRows /\ \A s \in vmRemovals : s.answer = "ok" => s \in vmRemovals'
      BY <2>1, <2>5
    <3>2. Distinct(vmRows)' /\ AreShown'
      BY <2>1, <2>4, <3>1 DEF RowsHold, Distinct, AreShown, Enrols
    <3>3. ShownAre'
      BY <2>1, <2>4, <3>1 DEF RowsHold, ShownAre, Classifies
    <3>4. AnswersFit'
      BY <2>1, <2>4, <3>1 DEF RowsHold, AnswersFit, Enrols, Classifies
    <3> QED BY <2>4, <3>2, <3>3, <3>4 DEF RowsHold
  <2>6. CASE r.answer = "ok"
    <3> DEFINE kept == Without(vmRows, r.name)
    <3>1. /\ Distinct(kept)
          /\ \A k \in 1..Len(kept) : \E j \in 1..Len(vmRows) :
                vmRows[j] = kept[k] /\ vmRows[j].name # r.name
          /\ \A j \in 1..Len(vmRows) : vmRows[j].name # r.name =>
                \E k \in 1..Len(kept) : kept[k] = vmRows[j]
      <4>1. Keeps(vmRows, r.name, kept, Len(vmRows)) /\ Distinct(vmRows)
        BY <1>2, <2>4, OthersStay DEF RowsHold
      <4> HIDE DEF kept
      <4> QED BY <4>1 DEF Keeps
    <3>2. vmRows' = kept /\ vmInventory[r.name] = Nil
      BY <2>1, <2>4, <2>6 DEF RowsHold, AnswersFit
    <3> HIDE DEF kept
    <3>3. \A s \in vmRemovals : s.name # r.name => s \in vmRemovals'
      BY <2>1
    <3>4. Distinct(vmRows)'
      BY <3>1, <3>2 DEF Distinct
    <3>5. ShownAre'
      <4>1. ASSUME NEW i \in 1..Len(kept)
            PROVE  /\ vmInventory[kept[i].name] = Nil =>
                        \E s \in vmRemovals' : s.name = kept[i].name /\ s.answer = "ok"
                   /\ vmInventory[kept[i].name] \notin {Nil, kept[i].env} =>
                        Classifies /\ vmCall.row.name = kept[i].name
        <5>1. PICK j \in 1..Len(vmRows) : vmRows[j] = kept[i] /\ vmRows[j].name # r.name
          BY <3>1
        <5> QED BY <2>4, <3>3, <5>1 DEF RowsHold, ShownAre
      <4> QED BY <2>1, <3>2, <4>1 DEF ShownAre, Classifies
    <3>6. AreShown'
      <4>1. ASSUME NEW n \in Names, vmInventory[n] # Nil
            PROVE  \/ \E i \in 1..Len(kept) : kept[i].name = n
                   \/ Enrols /\ vmCall.row.name = n
        <5>1. n # r.name
          BY <3>2, <4>1
        <5>2. SUFFICES ASSUME ~(Enrols /\ vmCall.row.name = n)
                       PROVE  \E i \in 1..Len(kept) : kept[i].name = n
          OBVIOUS
        <5>3. PICK j \in 1..Len(vmRows) : vmRows[j].name = n
          BY <2>4, <4>1, <5>2 DEF RowsHold, AreShown
        <5>4. PICK k \in 1..Len(kept) : kept[k] = vmRows[j]
          BY <3>1, <5>1, <5>3
        <5> QED BY <5>3, <5>4
      <4> QED BY <2>1, <3>2, <4>1 DEF AreShown, Enrols
    <3>7. AnswersFit'
      <4>1. Enrols => \A i \in 1..Len(kept) : kept[i].name # vmCall.row.name
        BY <2>4, <3>1 DEF RowsHold, AnswersFit
      <4> QED BY <2>1, <2>4, <3>2, <4>1 DEF RowsHold, AnswersFit, Enrols, Classifies
    <3> QED BY <2>4, <3>4, <3>5, <3>6, <3>7 DEF RowsHold
  <2> QED BY <2>5, <2>6
<1> QED BY <1>1, <1>4, <1>5, <1>6

-----------------------------------------------------------------------------
\* Rows and inventory agree where nothing is under way and nothing was missed.
LEMMA RowsAreListed ==
    ASSUME VmInv
    PROVE  RowsAreInventory
<1>1. SUFFICES ASSUME vmCall = Nil, vmRemovals = {}, vmLoad = "done", ~vmDrift
               PROVE  ToSet(vmRows) = ToSet(Listed(vmInventory)) /\ IsInjective(vmRows)
  BY DEF RowsAreInventory
<1>2. /\ RowsHold /\ vmRows \in Seq(Forms)
      /\ vmInventory \in [Names -> Environments \cup {Nil}]
  BY <1>1 DEF VmInv, RowsFit, VmTyped
<1> DEFINE list == Listed(vmInventory)
<1>3. /\ list \in Seq(Forms)
      /\ \A i \in 1..Len(list) :
            vmInventory[list[i].name] # Nil /\ list[i].env = vmInventory[list[i].name]
      /\ \A n \in Names : vmInventory[n] # Nil =>
            \E i \in 1..Len(list) : list[i] = Row(n, vmInventory[n])
  BY <1>2, ListedIs
<1> HIDE DEF list
<1>4. /\ \A i \in 1..Len(vmRows) : vmRows[i] \in Forms
      /\ \A i \in 1..Len(list) : list[i] \in Forms
  BY <1>2, <1>3
<1>5. \A form \in Forms : form.name \in Names /\ form = Row(form.name, form.env)
  BY DEF Forms, Row
<1>6. \A i \in 1..Len(vmRows) : vmInventory[vmRows[i].name] = vmRows[i].env
                                /\ vmInventory[vmRows[i].name] # Nil
  BY <1>1, <1>2 DEF RowsHold, ShownAre, Classifies
<1>7. \A i \in 1..Len(vmRows) : \E k \in 1..Len(list) : list[k] = vmRows[i]
  BY <1>3, <1>4, <1>5, <1>6
<1>8. \A k \in 1..Len(list) : \E i \in 1..Len(vmRows) : vmRows[i] = list[k]
  <2> TAKE k \in 1..Len(list)
  <2>1. list[k].name \in Names /\ vmInventory[list[k].name] # Nil
        /\ list[k].env = vmInventory[list[k].name]
    BY <1>3, <1>4, <1>5
  <2>2. PICK i \in 1..Len(vmRows) : vmRows[i].name = list[k].name
    BY <1>1, <1>2, <2>1 DEF RowsHold, AreShown, Enrols
  <2>3. vmRows[i] = list[k]
    BY <1>4, <1>5, <1>6, <2>1, <2>2
  <2> QED BY <2>3
<1>9. DOMAIN vmRows = 1..Len(vmRows) /\ DOMAIN list = 1..Len(list)
  BY <1>2, <1>3
<1>10. ToSet(vmRows) = ToSet(list)
  <2>1. /\ ToSet(vmRows) = {vmRows[i] : i \in 1..Len(vmRows)}
        /\ ToSet(list) = {list[i] : i \in 1..Len(list)}
    BY <1>9 DEF ToSet
  <2> QED BY <1>7, <1>8, <2>1
<1>11. IsInjective(vmRows)
  BY <1>2, <1>9 DEF RowsHold, Distinct, IsInjective
<1> QED BY <1>10, <1>11 DEF list

\* The page of machines in every state, for any number of machines, host keys
\* and removals: once every answer is in, its rows are the inventory, each
\* machine once, and a host key is decided on at most once.
THEOREM MachinesAreInventory == VmSpec => []VmsHold
<1>1. (\E inventory \in [Names -> Environments \cup {Nil}] : VmInit(inventory)) => VmInv
  BY VmStarts
<1>2. VmInv /\ [VmNext]_vmVars => VmInv'
  <2> SUFFICES ASSUME VmInv, [VmNext]_vmVars PROVE VmInv'
    OBVIOUS
  <2>1. CASE VmNext
    <3>1. VmTyped' /\ TokensFit'
      BY <2>1, VmTypeStep, TokensStep DEF VmInv
    <3>2. RowsFit'
      BY <2>1, RowsUser, RowsLoad, RowsServed, RowsRefused, RowsAnswered, RowsRemoved
         DEF VmInv, VmNext, VmAnswers
    <3> QED BY <3>1, <3>2 DEF VmInv
  <2>2. CASE UNCHANGED vmVars
    <3>1. VmTyped' /\ TokensFit'
      BY <2>2 DEF VmInv, VmTyped, TokensFit, vmVars
    <3>2. Still /\ vmCall' = vmCall
      BY <2>2 DEF Still, vmVars
    <3>3. RowsFit'
      BY <3>2, RowsStill DEF VmInv, Enrols, Classifies
    <3> QED BY <3>1, <3>3 DEF VmInv
  <2> QED BY <2>1, <2>2
<1>3. VmInv => VmsHold
  <2> SUFFICES ASSUME VmInv PROVE VmsHold
    OBVIOUS
  <2>1. KeyDecidedOnce
    BY NilIsNoneOfThem DEF VmInv, TokensFit, KeyDecidedOnce, vmBusy
  <2> QED BY <2>1, RowsAreListed DEF VmsHold
<1> QED BY <1>1, <1>2, <1>3, PTL DEF VmSpec
===============================================================================
