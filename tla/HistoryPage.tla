------------------------------ MODULE HistoryPage -----------------------------
(***************************************************************************)
(* The page of saved conversations (ui/app/history/page.tsx).              *)
(*                                                                         *)
(* Selecting a conversation or a VM reads the messages again and disowns   *)
(* the reading under way.  A deletion goes on with the list, the VM and    *)
(* the selection it was clicked with, while the user can select on.        *)
(***************************************************************************)
EXTENDS Browser

CONSTANTS
    Saved,      \* saved conversations
    VmOf,       \* the VM of each: conversations of one VM can be told apart
    MaxReads    \* bound: readings under way at once
ASSUME HistoryBounds == MaxReads \in Nat /\ DOMAIN VmOf = Saved

VARIABLES
    hpRows,      \* sessions
    hpHost,      \* host
    hpSelected,  \* selected
    hpShown,     \* messages: the conversation they are of
    hpReads,     \* the readings under way; current is FALSE once disowned
    hpDelete,    \* the deletion under way; deleting
    hpLoaded,    \* the list has been read
    hpBack,      \* backend: the conversations stored
    hpRaced      \* observer: the user selected something during a deletion

hpVars == <<hpRows, hpHost, hpSelected, hpShown, hpReads, hpDelete, hpLoaded, hpBack, hpRaced>>

HpInit ==
    /\ hpRows = {} /\ hpHost = Nil /\ hpSelected = Nil /\ hpShown = Nil
    /\ hpReads = {} /\ hpDelete = Nil /\ hpLoaded = FALSE
    /\ hpBack = Saved /\ hpRaced = FALSE

OfVm(rows, host) == {c \in rows : VmOf[c] = host}

\* rows.find: one of the VM, or none.
FirstOf(rows, host) == IF OfVm(rows, host) = {} THEN {Nil} ELSE OfVm(rows, host)

\* A change of selection or VM empties the messages, disowns the reading under
\* way and starts another.
Select(chat, host) ==
    /\ hpSelected' = chat /\ hpHost' = host
    /\ IF chat = hpSelected /\ host = hpHost THEN UNCHANGED <<hpShown, hpReads>>
       ELSE /\ hpShown' = Nil
            /\ chat # Nil => Cardinality(hpReads) < MaxReads
            /\ hpReads' = {[r EXCEPT !.current = FALSE] : r \in hpReads}
                 \cup (IF chat = Nil THEN {}
                       ELSE {[chat |-> chat, host |-> host, current |-> TRUE,
                              answer |-> "asked"]})

-----------------------------------------------------------------------------
(* Reading *)

\* The list, once, on mounting: the first row's VM is selected.
HpLoad ==
    /\ ~hpLoaded /\ hpLoaded' = TRUE
    /\ hpRows' = hpBack
    /\ \E first \in hpBack : \E chat \in FirstOf(hpBack, VmOf[first]) : Select(chat, VmOf[first])
    /\ UNCHANGED <<hpDelete, hpBack, hpRaced>>

HpLoadFails ==
    /\ ~hpLoaded /\ hpLoaded' = TRUE
    /\ UNCHANGED <<hpRows, hpHost, hpSelected, hpShown, hpReads, hpDelete, hpBack, hpRaced>>

\* The store refuses a conversation of another VM; one it no longer has is empty.
ReadServed(r) ==
    /\ r \in Open(hpReads)
    /\ \E answer \in {"ok", "failed"} :
         /\ answer = "ok" => VmOf[r.chat] = r.host \/ r.chat \notin hpBack
         /\ hpReads' = Serve(hpReads, r, [r EXCEPT !.answer = answer])
    /\ UNCHANGED <<hpRows, hpHost, hpSelected, hpShown, hpDelete, hpLoaded, hpBack, hpRaced>>

\* Faulty variant of ReadApplied: a disowned reading is shown as well.
ReadAppliedLate(r) ==
    /\ r \in Answered(hpReads)
    /\ hpShown' = IF r.answer = "ok" THEN r.chat ELSE hpShown
    /\ hpReads' = hpReads \ {r}
    /\ UNCHANGED <<hpRows, hpHost, hpSelected, hpDelete, hpLoaded, hpBack, hpRaced>>

ReadApplied(r) ==
    /\ r \in Answered(hpReads)
    /\ hpShown' = IF r.current /\ r.answer = "ok" THEN r.chat ELSE hpShown
    /\ hpReads' = hpReads \ {r}
    /\ UNCHANGED <<hpRows, hpHost, hpSelected, hpDelete, hpLoaded, hpBack, hpRaced>>

-----------------------------------------------------------------------------
(* Selecting *)

ChooseHistoryVm(host) ==
    /\ OfVm(hpRows, host) # {}
    /\ \E chat \in FirstOf(hpRows, host) : Select(chat, host)
    /\ hpRaced' = (hpRaced \/ hpDelete # Nil)
    /\ UNCHANGED <<hpRows, hpDelete, hpLoaded, hpBack>>

ChooseSaved(chat) ==
    /\ chat \in OfVm(hpRows, hpHost)
    /\ Select(chat, hpHost)
    /\ hpRaced' = (hpRaced \/ hpDelete # Nil)
    /\ UNCHANGED <<hpRows, hpDelete, hpLoaded, hpBack>>

-----------------------------------------------------------------------------
(* Deleting *)

\* remove and removeAll, confirmed, with what the page shows at that moment.
ClickDelete(doomed, all) ==
    /\ hpDelete = Nil /\ doomed # {}
    /\ hpDelete' = [doomed |-> doomed, all |-> all, rows |-> hpRows, host |-> hpHost,
                    selected |-> hpSelected, answer |-> "asked"]
    /\ UNCHANGED <<hpRows, hpHost, hpSelected, hpShown, hpReads, hpLoaded, hpBack, hpRaced>>

DeleteServed ==
    /\ hpDelete # Nil /\ hpDelete.answer = "asked"
    /\ hpBack' = hpBack \ hpDelete.doomed
    /\ hpDelete' = [hpDelete EXCEPT !.answer = "ok"]
    /\ UNCHANGED <<hpRows, hpHost, hpSelected, hpShown, hpReads, hpLoaded, hpRaced>>

\* Another conversation of the VM takes the place of a selected one.
DeleteApplied ==
    /\ hpDelete # Nil /\ hpDelete.answer = "ok"
    /\ LET remaining == hpDelete.rows \ hpDelete.doomed
       IN  /\ hpRows' = remaining
           /\ IF hpDelete.all THEN Select(Nil, hpHost)
              ELSE IF hpDelete.selected \in hpDelete.doomed
              THEN \E chat \in FirstOf(remaining, hpDelete.host) : Select(chat, hpHost)
              ELSE UNCHANGED <<hpSelected, hpHost, hpShown, hpReads>>
    /\ hpDelete' = Nil
    /\ UNCHANGED <<hpLoaded, hpBack, hpRaced>>

\* Refused, or the answer lost.
DeleteFails ==
    /\ hpDelete # Nil /\ hpDelete' = Nil
    /\ UNCHANGED <<hpRows, hpHost, hpSelected, hpShown, hpReads, hpLoaded, hpBack, hpRaced>>

-----------------------------------------------------------------------------
HpNext ==
    \/ HpLoad \/ HpLoadFails
    \/ \E r \in hpReads : ReadServed(r) \/ ReadApplied(r)
    \/ \E c \in Saved : ChooseHistoryVm(VmOf[c]) \/ ChooseSaved(c)
    \/ \E c \in OfVm(hpRows, hpHost) : ClickDelete({c}, FALSE)
    \/ ClickDelete(hpRows, TRUE)
    \/ DeleteServed \/ DeleteApplied \/ DeleteFails

-----------------------------------------------------------------------------
(* Properties *)

\* The messages on the page are those of the selected conversation, in whatever
\* order the readings of earlier selections come back.
MessagesOfSelected == hpShown # Nil => hpShown = hpSelected

\* The conversation to continue is one of the list and of the VM chosen, unless
\* the user selected something while a deletion was under way.
SelectedIsListed ==
    (~hpRaced /\ hpSelected # Nil) => (hpSelected \in hpRows /\ VmOf[hpSelected] = hpHost)

\* The page in every state: the messages, the selection and the list fit together.
SelectionHolds == MessagesOfSelected /\ SelectedIsListed
===============================================================================
