-------------------------------- MODULE VmsPage -------------------------------
(***************************************************************************)
(* The page that enrols, removes and classifies machines                   *)
(* (ui/app/vms/page.tsx), over an inventory the backend keeps.             *)
(*                                                                         *)
(* Discover, decide and classify exclude one another through busy.         *)
(* Removals do not: each has its own request, and one variable remembers   *)
(* the last of them.  The list is loaded once, edited by what each answer  *)
(* means, and the page can be used before the load is answered.            *)
(***************************************************************************)
EXTENDS Browser

CONSTANTS
    Names, Environments,
    KeyTokens,     \* bound: host keys a behaviour may ask for
    MaxRemovals    \* bound: removals confirmed
ASSUME RemovalBound == MaxRemovals \in Nat
ASSUME FiniteNames == IsFiniteSet(Names)

VARIABLES
    vmLoad,        \* "asked", "read", "done" or "failed"
    vmSnapshot,    \* the list the load will bring
    vmRows,        \* hosts: the rows on screen
    vmPending,     \* the host key to decide on
    vmDialog,      \* classification: the machine it is about
    vmCall,        \* the request under way; busy
    vmRemoving,    \* the removal the page remembers
    vmRemovals,    \* the removals under way
    vmRemoved,     \* bound: removals confirmed so far
    vmInventory,   \* backend: the environment of each machine, Nil if absent
    vmOffers,      \* backend: the machine each token is for
    vmDecided,     \* observer: how often a decision on a token was sent
    vmDrift        \* observer: the rows may have missed something

vmVars == <<vmLoad, vmSnapshot, vmRows, vmPending, vmDialog, vmCall, vmRemoving, vmRemovals,
            vmRemoved, vmInventory, vmOffers, vmDecided, vmDrift>>
vmBackend == <<vmInventory, vmOffers>>

vmBusy == vmCall # Nil
Row(name, env) == [name |-> name, env |-> env]

\* What the enrolment form can ask for; the other fields are passed on.
Forms == [name : Names, env : Environments]

\* The requests of discover, decide and classify.
VmCalls ==
    [kind : {"discover", "decide", "classify"}, token : KeyTokens \cup {Nil}, row : Forms,
     trust : BOOLEAN, answer : {"asked", "ok", "failed"}]
ASSUME NilIsNoneOfThem == Nil \notin Environments \cup KeyTokens \cup Forms \cup VmCalls

Listed(inventory) == SetToSeq({Row(n, inventory[n]) : n \in {m \in Names : inventory[m] # Nil}})

VmInit(inventory) ==
    /\ vmLoad = "asked" /\ vmSnapshot = <<>> /\ vmRows = <<>>
    /\ vmPending = Nil /\ vmDialog = Nil /\ vmCall = Nil
    /\ vmRemoving = Nil /\ vmRemovals = {} /\ vmRemoved = 0
    /\ vmInventory = inventory
    /\ vmOffers = [t \in KeyTokens |-> Nil]
    /\ vmDecided = [t \in KeyTokens |-> 0]
    /\ vmDrift = FALSE

\* The rows the page will never hear of again: a change made while the load
\* was under way.
Overtaken == vmLoad \in {"asked", "read"}

-----------------------------------------------------------------------------
(* Loading *)

VmListRead ==
    /\ vmLoad = "asked" /\ vmLoad' = "read"
    /\ vmSnapshot' = Listed(vmInventory)
    /\ UNCHANGED <<vmRows, vmPending, vmDialog, vmCall, vmRemoving, vmRemovals, vmRemoved,
                   vmBackend, vmDecided, vmDrift>>

VmListArrives ==
    /\ vmLoad = "read" /\ vmLoad' = "done"
    /\ vmRows' = vmSnapshot /\ vmSnapshot' = <<>>
    /\ UNCHANGED <<vmPending, vmDialog, vmCall, vmRemoving, vmRemovals, vmRemoved, vmBackend,
                   vmDecided, vmDrift>>

VmLoadFails ==
    /\ vmLoad \in {"asked", "read"} /\ vmLoad' = "failed" /\ vmSnapshot' = <<>>
    /\ vmDrift' = TRUE
    /\ UNCHANGED <<vmRows, vmPending, vmDialog, vmCall, vmRemoving, vmRemovals, vmRemoved,
                   vmBackend, vmDecided>>

-----------------------------------------------------------------------------
(* Handlers up to their await *)

\* The form is there when no key waits for a decision.
DiscoverKey(form) ==
    /\ ~vmBusy /\ vmPending = Nil /\ vmDialog = Nil
    /\ vmCall' = [kind |-> "discover", token |-> Nil, row |-> form, trust |-> FALSE,
                  answer |-> "asked"]
    /\ UNCHANGED <<vmLoad, vmSnapshot, vmRows, vmPending, vmDialog, vmRemoving, vmRemovals,
                   vmRemoved, vmBackend, vmDecided, vmDrift>>

\* The two buttons of the key, disabled while busy.
MayDecide == vmPending # Nil /\ ~vmBusy

DecideKey(trust) ==
    /\ MayDecide /\ vmDialog = Nil
    /\ vmCall' = [kind |-> "decide", token |-> vmPending, row |-> vmOffers[vmPending],
                  trust |-> trust, answer |-> "asked"]
    /\ vmDecided' = [vmDecided EXCEPT ![vmPending] = @ + 1]
    /\ UNCHANGED <<vmLoad, vmSnapshot, vmRows, vmPending, vmDialog, vmRemoving, vmRemovals,
                   vmRemoved, vmBackend, vmDrift>>

\* The dialog opens on a row and covers the rest of the page.
OpenDialog(i) ==
    /\ i \in DOMAIN vmRows /\ vmDialog = Nil /\ vmDialog' = vmRows[i].name
    /\ UNCHANGED <<vmLoad, vmSnapshot, vmRows, vmPending, vmCall, vmRemoving, vmRemovals,
                   vmRemoved, vmBackend, vmDecided, vmDrift>>

CancelDialog ==
    /\ vmDialog # Nil /\ ~vmBusy /\ vmDialog' = Nil
    /\ UNCHANGED <<vmLoad, vmSnapshot, vmRows, vmPending, vmCall, vmRemoving, vmRemovals,
                   vmRemoved, vmBackend, vmDecided, vmDrift>>

\* The environment chosen last is sent, and is what the answer will show.
ClassifyVm(env) ==
    /\ vmDialog # Nil /\ ~vmBusy
    /\ vmCall' = [kind |-> "classify", token |-> Nil, row |-> Row(vmDialog, env),
                  trust |-> FALSE, answer |-> "asked"]
    /\ UNCHANGED <<vmLoad, vmSnapshot, vmRows, vmPending, vmDialog, vmRemoving, vmRemovals,
                   vmRemoved, vmBackend, vmDecided, vmDrift>>

\* A removal is confirmed; only the button of the remembered one is disabled.
RemoveVm(i) ==
    /\ i \in DOMAIN vmRows /\ vmRemoving # vmRows[i].name
    /\ vmDialog = Nil /\ vmRemoved < MaxRemovals
    /\ vmRemoving' = vmRows[i].name
    /\ vmRemoved' = vmRemoved + 1
    /\ vmRemovals' = vmRemovals \cup {[nr |-> vmRemoved, name |-> vmRows[i].name,
                                       answer |-> "asked"]}
    /\ UNCHANGED <<vmLoad, vmSnapshot, vmRows, vmPending, vmDialog, vmCall, vmBackend,
                   vmDecided, vmDrift>>

-----------------------------------------------------------------------------
(* The backend *)

\* A key is offered, a machine enrolled or classified, or the request refused.
VmServed ==
    /\ vmBusy /\ vmCall.answer = "asked"
    /\ LET name == vmCall.row.name
       IN  \/ /\ vmCall.kind = "discover" /\ vmInventory[name] = Nil
              /\ \E t \in KeyTokens :
                   /\ vmOffers[t] = Nil
                   /\ vmOffers' = [vmOffers EXCEPT ![t] = vmCall.row]
                   /\ vmCall' = [vmCall EXCEPT !.answer = "ok", !.token = t]
              /\ UNCHANGED <<vmInventory, vmDrift>>
           \/ /\ vmCall.kind = "decide" /\ vmCall.trust /\ vmInventory[name] = Nil
              /\ vmInventory' = [vmInventory EXCEPT ![name] = vmCall.row.env]
              /\ vmCall' = [vmCall EXCEPT !.answer = "ok"]
              /\ vmDrift' = (vmDrift \/ Overtaken \/ \E r \in vmRemovals : r.name = name)
              /\ UNCHANGED vmOffers
           \/ /\ vmCall.kind = "decide" /\ ~vmCall.trust
              /\ vmCall' = [vmCall EXCEPT !.answer = "ok"]
              /\ UNCHANGED <<vmInventory, vmOffers, vmDrift>>
           \/ /\ vmCall.kind = "classify" /\ vmInventory[name] # Nil
              /\ vmInventory' = [vmInventory EXCEPT ![name] = vmCall.row.env]
              /\ vmCall' = [vmCall EXCEPT !.answer = "ok"]
              /\ vmDrift' = (vmDrift \/ Overtaken)
              /\ UNCHANGED vmOffers
    /\ UNCHANGED <<vmLoad, vmSnapshot, vmRows, vmPending, vmDialog, vmRemoving, vmRemovals,
                   vmRemoved, vmDecided>>

VmRemovalServed(r) ==
    /\ r \in Open(vmRemovals) /\ vmInventory[r.name] # Nil
    /\ vmInventory' = [vmInventory EXCEPT ![r.name] = Nil]
    /\ vmRemovals' = Serve(vmRemovals, r, [r EXCEPT !.answer = "ok"])
    /\ vmDrift' = (vmDrift \/ Overtaken)
    /\ UNCHANGED <<vmLoad, vmSnapshot, vmRows, vmPending, vmDialog, vmCall, vmRemoving,
                   vmRemoved, vmOffers, vmDecided>>

\* A refusal, or an answer that is lost with what it says.
VmRefused ==
    /\ vmBusy /\ vmCall.answer # "failed"
    /\ vmCall' = [vmCall EXCEPT !.answer = "failed"]
    /\ vmDrift' = (vmDrift \/ vmCall.answer = "ok")
    /\ UNCHANGED <<vmLoad, vmSnapshot, vmRows, vmPending, vmDialog, vmRemoving, vmRemovals,
                   vmRemoved, vmBackend, vmDecided>>

VmRemovalRefused(r) ==
    /\ r \in vmRemovals /\ r.answer # "failed"
    /\ vmRemovals' = Serve(vmRemovals, r, [r EXCEPT !.answer = "failed"])
    /\ vmDrift' = (vmDrift \/ r.answer = "ok")
    /\ UNCHANGED <<vmLoad, vmSnapshot, vmRows, vmPending, vmDialog, vmCall, vmRemoving,
                   vmRemoved, vmBackend, vmDecided>>

-----------------------------------------------------------------------------
(* Handlers after their await *)

KeyArrives ==
    /\ vmBusy /\ vmCall.kind = "discover" /\ vmCall.answer = "ok"
    /\ vmPending' = vmCall.token /\ vmCall' = Nil
    /\ UNCHANGED <<vmLoad, vmSnapshot, vmRows, vmDialog, vmRemoving, vmRemovals, vmRemoved,
                   vmBackend, vmDecided, vmDrift>>

\* The key is decided: the card goes, and a trusted machine joins the rows.
DecisionArrives ==
    /\ vmBusy /\ vmCall.kind = "decide" /\ vmCall.answer = "ok"
    /\ vmPending' = Nil /\ vmCall' = Nil
    /\ vmRows' = IF vmCall.trust THEN Append(vmRows, vmCall.row) ELSE vmRows
    /\ UNCHANGED <<vmLoad, vmSnapshot, vmDialog, vmRemoving, vmRemovals, vmRemoved, vmBackend,
                   vmDecided, vmDrift>>

ClassificationArrives ==
    /\ vmBusy /\ vmCall.kind = "classify" /\ vmCall.answer = "ok"
    /\ vmRows' = [i \in DOMAIN vmRows |->
                    IF vmRows[i].name = vmCall.row.name THEN vmCall.row ELSE vmRows[i]]
    /\ vmDialog' = Nil /\ vmCall' = Nil
    /\ UNCHANGED <<vmLoad, vmSnapshot, vmPending, vmRemoving, vmRemovals, vmRemoved, vmBackend,
                   vmDecided, vmDrift>>

\* A failed decision takes the card away too; the dialog stays.
VmCallFails ==
    /\ vmBusy /\ vmCall.answer = "failed"
    /\ vmPending' = IF vmCall.kind = "decide" THEN Nil ELSE vmPending
    /\ vmCall' = Nil
    /\ UNCHANGED <<vmLoad, vmSnapshot, vmRows, vmDialog, vmRemoving, vmRemovals, vmRemoved,
                   vmBackend, vmDecided, vmDrift>>

\* The rows of other machines, in their order.
Without(rows, name) ==
    LET kept[i \in 0..Len(rows)] ==
          IF i = 0 THEN <<>>
          ELSE IF rows[i].name = name THEN kept[i - 1] ELSE Append(kept[i - 1], rows[i])
    IN  kept[Len(rows)]

\* Faulty variant of RowsAfter: the row goes whatever the backend said.
RowsAfterAnyway(r) == Without(vmRows, r.name)
\* The functional update filters the rows of now.
RowsAfter(r) == IF r.answer = "ok" THEN Without(vmRows, r.name) ELSE vmRows

\* A removal is answered; whichever it is, the page forgets the remembered one.
RemovalArrives(r) ==
    /\ r \in Answered(vmRemovals)
    /\ vmRows' = RowsAfter(r)
    /\ vmRemovals' = vmRemovals \ {r}
    /\ vmRemoving' = Nil
    /\ UNCHANGED <<vmLoad, vmSnapshot, vmPending, vmDialog, vmCall, vmRemoved, vmBackend,
                   vmDecided, vmDrift>>

-----------------------------------------------------------------------------
VmUser ==
    \/ \E f \in Forms : DiscoverKey(f)
    \/ \E trust \in BOOLEAN : DecideKey(trust)
    \/ \E i \in DOMAIN vmRows : OpenDialog(i) \/ RemoveVm(i)
    \/ \E e \in Environments : ClassifyVm(e)
    \/ CancelDialog

VmAnswers ==
    \/ VmListRead \/ VmListArrives \/ VmLoadFails
    \/ VmServed \/ VmRefused
    \/ KeyArrives \/ DecisionArrives \/ ClassificationArrives \/ VmCallFails

VmRemovalAnswers ==
    \E r \in vmRemovals : VmRemovalServed(r) \/ VmRemovalRefused(r) \/ RemovalArrives(r)

VmNext == VmUser \/ VmAnswers \/ VmRemovalAnswers

-----------------------------------------------------------------------------
(* Properties *)

\* Once every request is answered the rows are the inventory, each machine
\* once, whatever the order of the answers; unless an answer was lost, a
\* machine was enrolled under a name whose removal was still unanswered, or the
\* inventory changed before the page had loaded it (setHosts everywhere).
RowsAreInventory ==
    vmCall = Nil /\ vmRemovals = {} /\ vmLoad = "done" /\ ~vmDrift =>
        /\ ToSet(vmRows) = ToSet(Listed(vmInventory))
        /\ IsInjective(vmRows)

\* A host key is decided on at most once, and the card is gone with the answer.
KeyDecidedOnce ==
    \A t \in KeyTokens : vmDecided[t] <= 1 /\ (vmPending = t /\ ~vmBusy => vmDecided[t] = 0)

\* The dialog and the key never leave the page busy for ever, and the button
\* of a removal comes back (the finally branches).
VmsSettle == []<>~vmBusy /\ []<>(vmRemoving = Nil)

\* The page in every state: the rows, and the host key to be decided on.
VmsHold == RowsAreInventory /\ KeyDecidedOnce
===============================================================================
