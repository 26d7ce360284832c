----------------------------- MODULE AuthorityPanel ---------------------------
(***************************************************************************)
(* The authority control at the foot of every page                         *)
(* (ui/components/authority-control.tsx) and the MCP connection of an      *)
(* armed session (ui/components/mcp-execution-connection.tsx).             *)
(*                                                                         *)
(* Arming and its transitions answer with the new state; a timer reads the *)
(* state again every ten seconds, but not while the panel shows Observe.   *)
(* Readings and answers come back in any order.                            *)
(***************************************************************************)
EXTENDS Browser

CONSTANTS
    MaxArms,        \* bound: leases armed
    MaxReadings,    \* bound: readings under way at once
    MaxConnections  \* bound: MCP connections made
ASSUME PanelBounds == MaxArms \in Nat /\ MaxReadings \in Nat /\ MaxConnections \in Nat

VARIABLES
    auShown,     \* state: "observe", "active" or "paused"; Nil before the first reading
    auOpen,      \* open: the form
    auCall,      \* arm or a transition under way; busy
    auReadings,  \* the readings of refresh under way
    auStatus,    \* backend: the authority
    auArms,      \* backend: leases so far
    auMissed,    \* observer: an answer that armed was lost, or overtaken by an older reading
    mcToken,     \* token: the connection on screen
    mcCall,      \* the request for one; busy
    mcValid,     \* backend: the connection in force
    mcMade       \* backend: connections so far

panelVars == <<auShown, auOpen, auCall, auReadings, auStatus, auArms, auMissed>>
mcVars == <<mcToken, mcCall, mcValid, mcMade>>
auVars == <<auShown, auOpen, auCall, auReadings, auStatus, auArms, auMissed,
            mcToken, mcCall, mcValid, mcMade>>

Armed == {"active", "paused"}
Transitions == {"pause", "resume", "stop", "emergency-stop"}

\* The requests of the panel, each with the state its answer brings.
PanelCalls ==
    [kind : Transitions \cup {"arm"}, reopen : BOOLEAN, answer : {"asked", "ok", "failed"},
     status : Armed \cup {"observe", Nil}]
ASSUME NilIsNoCall == Nil \notin PanelCalls /\ Nil \notin Armed

AuInit ==
    /\ auShown = Nil /\ auOpen = FALSE /\ auCall = Nil
    /\ auReadings = {[answer |-> "asked", status |-> Nil, old |-> FALSE]}
    /\ auStatus = "observe" /\ auArms = 0 /\ auMissed = FALSE
    /\ mcToken = 0 /\ mcCall = Nil /\ mcValid = 0 /\ mcMade = 0

-----------------------------------------------------------------------------
(* Reading *)

\* The timer, while the panel does not show Observe.
Tick ==
    /\ auShown # "observe"
    /\ Cardinality(auReadings) < MaxReadings /\ Open(auReadings) = {}
    /\ auReadings' = auReadings \cup {[answer |-> "asked", status |-> Nil, old |-> FALSE]}
    /\ UNCHANGED <<auShown, auOpen, auCall, auStatus, auArms, auMissed, mcVars>>

ReadingServed(r) ==
    /\ r \in Open(auReadings)
    /\ auReadings' = Serve(auReadings, r, [r EXCEPT !.answer = "ok", !.status = auStatus])
    /\ UNCHANGED <<auShown, auOpen, auCall, auStatus, auArms, auMissed, mcVars>>

\* setState, whatever happened since.
ReadingApplied(r) ==
    /\ r \in Answered(auReadings)
    /\ auShown' = r.status
    /\ auReadings' = auReadings \ {r}
    /\ auMissed' = r.old
    /\ UNCHANGED <<auOpen, auCall, auStatus, auArms, mcVars>>

ReadingLost(r) ==
    /\ r \in auReadings /\ auReadings' = auReadings \ {r}
    /\ UNCHANGED <<auShown, auOpen, auCall, auStatus, auArms, auMissed, mcVars>>

-----------------------------------------------------------------------------
(* The form and the banner *)

\* Change scope stops first and opens the form when that succeeded.
Press(kind, reopen) ==
    /\ auCall = Nil
    /\ CASE kind = "arm" -> auOpen
         [] kind = "pause" -> auShown = "active"
         [] kind = "resume" -> auShown = "paused"
         [] OTHER -> auShown \in Armed
    /\ reopen => kind = "stop"
    /\ auCall' = [kind |-> kind, reopen |-> reopen, answer |-> "asked", status |-> Nil]
    /\ UNCHANGED <<auShown, auOpen, auReadings, auStatus, auArms, auMissed, mcVars>>

\* The button of Observe opens the form, Cancel closes it.
OpenForm ==
    /\ auShown = "observe" /\ ~auOpen /\ auOpen' = TRUE
    /\ UNCHANGED <<auShown, auCall, auReadings, auStatus, auArms, auMissed, mcVars>>

CancelForm ==
    /\ auOpen /\ auCall = Nil /\ auOpen' = FALSE
    /\ UNCHANGED <<auShown, auCall, auReadings, auStatus, auArms, auMissed, mcVars>>

\* What the authority may become by a request.
Follows(kind) ==
    CASE kind = "arm" /\ auStatus = "observe" /\ auArms < MaxArms -> {"active"}
      [] kind = "pause" /\ auStatus = "active" -> {"paused"}
      [] kind = "resume" /\ auStatus = "paused" -> {"active"}
      [] kind \in {"stop", "emergency-stop"} -> {"observe"}
      [] OTHER -> {}

\* A reading made before a change is an old one.
Aged == {[r EXCEPT !.old = (r.answer = "ok")] : r \in auReadings}

\* Ending a lease ends its connection.
Becoming(status) ==
    /\ auStatus' = status
    /\ auArms' = IF auStatus = "observe" /\ status = "active" THEN auArms + 1 ELSE auArms
    /\ mcValid' = IF status = "observe" THEN 0 ELSE mcValid

PressServed ==
    /\ auCall # Nil /\ auCall.answer = "asked"
    /\ \E status \in Follows(auCall.kind) :
         /\ Becoming(status)
         /\ auCall' = [auCall EXCEPT !.answer = "ok", !.status = status]
    /\ auReadings' = Aged
    /\ UNCHANGED <<auShown, auOpen, auMissed, mcToken, mcCall, mcMade>>

PressLost ==
    /\ auCall # Nil /\ auCall.answer \in {"asked", "ok"}
    /\ auCall' = [auCall EXCEPT !.answer = "failed", !.status = Nil]
    /\ auMissed' = (auMissed \/ auCall.status = "active")
    /\ UNCHANGED <<auShown, auOpen, auReadings, auStatus, auArms, mcVars>>

\* Faulty variant of PressApplied: arming closes the form and awaits the timer.
PressAppliedToForm ==
    /\ auCall # Nil /\ auCall.answer = "ok"
    /\ auShown' = IF auCall.kind = "arm" THEN auShown ELSE auCall.status
    /\ auOpen' = IF auCall.kind = "arm" THEN FALSE ELSE (auOpen \/ auCall.reopen)
    /\ auCall' = Nil /\ auMissed' = FALSE
    /\ UNCHANGED <<auReadings, auStatus, auArms, mcVars>>

PressApplied ==
    /\ auCall # Nil /\ auCall.answer = "ok"
    /\ auShown' = auCall.status
    /\ auOpen' = IF auCall.kind = "arm" THEN FALSE ELSE (auOpen \/ auCall.reopen)
    /\ auCall' = Nil /\ auMissed' = FALSE
    /\ UNCHANGED <<auReadings, auStatus, auArms, mcVars>>

PressFails ==
    /\ auCall # Nil /\ auCall.answer = "failed" /\ auCall' = Nil
    /\ UNCHANGED <<auShown, auOpen, auReadings, auStatus, auArms, auMissed, mcVars>>

\* The lease expires, or is stopped elsewhere.
LeaseEnds ==
    /\ auStatus \in Armed /\ Becoming("observe")
    /\ auReadings' = Aged
    /\ UNCHANGED <<auShown, auOpen, auCall, auMissed, mcToken, mcCall, mcMade>>

-----------------------------------------------------------------------------
(* The MCP connection *)

ClickConnect ==
    /\ mcCall = Nil
    /\ mcCall' = [answer |-> "asked", token |-> 0] /\ mcToken' = 0
    /\ UNCHANGED <<mcValid, mcMade, panelVars>>

\* Another connection revokes the one before.
ConnectServed ==
    /\ mcCall # Nil /\ mcCall.answer = "asked"
    /\ auStatus = "active" /\ mcMade < MaxConnections
    /\ mcMade' = mcMade + 1 /\ mcValid' = mcMade + 1
    /\ mcCall' = [answer |-> "ok", token |-> mcMade + 1]
    /\ UNCHANGED <<mcToken, panelVars>>

\* The token, or none when it was refused or lost.
ConnectApplied ==
    /\ mcCall # Nil
    /\ mcToken' \in {0, mcCall.token}
    /\ mcCall' = Nil
    /\ UNCHANGED <<mcValid, mcMade, panelVars>>

-----------------------------------------------------------------------------
AuUser ==
    \/ \E k \in Transitions \cup {"arm"}, reopen \in BOOLEAN : Press(k, reopen)
    \/ OpenForm \/ CancelForm \/ ClickConnect

AuAnswers == PressServed \/ PressLost \/ PressApplied \/ PressFails

AuReadingServed == \E r \in auReadings : ReadingServed(r)
AuReadingApplied == \E r \in auReadings : ReadingApplied(r)
AuReadingLost == \E r \in auReadings : ReadingLost(r)

AuNext ==
    \/ AuUser \/ AuAnswers \/ LeaseEnds \/ ConnectServed \/ ConnectApplied
    \/ Tick \/ AuReadingServed \/ AuReadingApplied \/ AuReadingLost

-----------------------------------------------------------------------------
(* Properties *)

\* The panel shows Observe over an armed backend only while the answer is on its
\* way, after it was lost, or after a reading made before the arming overtook it.
ObserveIsReal ==
    (auShown = "observe" /\ auStatus \in Armed) =>
        (auMissed \/ (auCall # Nil /\ auCall.status = "active"))

\* A banner that is wrong about the authority does not stay wrong, whatever
\* readings are lost: the timer goes on as long as it is shown.
BannerIsCorrected == []<>(auShown \in Armed => auShown = auStatus)

\* The token on the screen was not revoked by a later connection.
TokenIsLatest == mcToken # 0 => mcValid \in {0, mcToken}

\* The panel in every state: the authority and the token that it shows.
PanelHolds == ObserveIsReal /\ TokenIsLatest
===============================================================================
