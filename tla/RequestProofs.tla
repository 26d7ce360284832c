----------------------------- MODULE RequestProofs ----------------------------
(***************************************************************************)
(* What holds of the pages whose requests, timers and readings are         *)
(* answered in any order: the authority panel, the pages of changes and of *)
(* scripts and the console, for any number of requests under way.          *)
(***************************************************************************)
EXTENDS AuthorityPanel, ChangesPage, ScriptPages, Console, TLAPS

-----------------------------------------------------------------------------
(* The authority panel *)

AuSpec == AuInit /\ [][AuNext]_auVars

Readings == [answer : {"asked", "ok"}, status : Armed \cup {"observe", Nil}, old : BOOLEAN]

\* A reading that is not old says what the backend is, and so does the answer of a
\* request, unless the lease ended since.  Each connection revokes the one before.
ReadingFits(r) == IF r.answer = "asked" THEN ~r.old ELSE r.old \/ r.status = auStatus
ReadingsFit == auReadings \subseteq Readings /\ \A r \in auReadings : ReadingFits(r)
PressFits ==
    /\ auCall \in PanelCalls
    /\ IF auCall.answer = "ok" THEN auStatus \in {"observe", auCall.status}
       ELSE auCall.status = Nil
TokenFits ==
    /\ mcCall # Nil => mcToken = 0 /\ (mcCall.token # 0 => mcValid \in {0, mcCall.token})
    /\ TokenIsLatest
AuInv ==
    /\ auStatus \in Armed \cup {"observe"}
    /\ ReadingsFit
    /\ auCall # Nil => PressFits
    /\ ObserveIsReal
    /\ TokenFits

\* A reading replaces what is shown, and is remembered when it is old.
LEMMA ReadingStep ==
    ASSUME AuInv, Tick \/ AuReadingServed \/ AuReadingApplied \/ AuReadingLost
    PROVE  AuInv'
<1>1. /\ UNCHANGED <<auCall, auStatus, mcVars>>
      /\ AuReadingApplied \/ UNCHANGED <<auShown, auMissed>>
  BY Zenon DEF Tick, AuReadingServed, ReadingServed, AuReadingApplied, ReadingApplied,
               AuReadingLost, ReadingLost
<1>2. ReadingsFit'
  <2>1. CASE Tick
    <3>1. /\ [answer |-> "asked", status |-> Nil, old |-> FALSE] \in Readings
          /\ ReadingFits([answer |-> "asked", status |-> Nil, old |-> FALSE])
      BY DEF Readings, ReadingFits
    <3>2. \A r \in auReadings' : r \in Readings /\ ReadingFits(r)
      BY <2>1, <3>1 DEF Tick, AuInv, ReadingsFit
    <3>3. QED BY <1>1, <3>2 DEF ReadingsFit, ReadingFits, Readings
  <2>2. CASE AuReadingServed
    <3>1. PICK r \in auReadings : ReadingServed(r)
      BY <2>2 DEF AuReadingServed
    <3> DEFINE new == [r EXCEPT !.answer = "ok", !.status = auStatus]
    <3>2. new \in Readings /\ ReadingFits(new)
      BY <3>1 DEF Readings, ReadingFits, AuInv, ReadingsFit
    <3>3. auReadings' = (auReadings \ {r}) \cup {new}
      BY <3>1 DEF ReadingServed, Serve
    <3> HIDE DEF new
    <3>4. \A s \in auReadings' : s \in Readings /\ ReadingFits(s)
      BY <3>2, <3>3 DEF AuInv, ReadingsFit
    <3>5. QED BY <1>1, <3>4 DEF ReadingsFit, ReadingFits, Readings
  <2>3. CASE AuReadingApplied \/ AuReadingLost
    <3>1. auReadings' \subseteq auReadings
      BY <2>3 DEF AuReadingApplied, ReadingApplied, AuReadingLost, ReadingLost
    <3>2. \A s \in auReadings' : s \in Readings /\ ReadingFits(s)
      BY <3>1 DEF AuInv, ReadingsFit
    <3>3. QED BY <1>1, <3>2 DEF ReadingsFit, ReadingFits, Readings
  <2>4. QED BY <2>1, <2>2, <2>3
<1>3. ObserveIsReal'
  <2>1. CASE AuReadingApplied
    <3>1. PICK r \in auReadings : ReadingApplied(r)
      BY <2>1 DEF AuReadingApplied
    <3>2. auShown' = r.status /\ auMissed' = r.old /\ (r.old \/ r.status = auStatus)
      BY <3>1 DEF ReadingApplied, Answered, AuInv, ReadingsFit, ReadingFits
    <3>3. CASE r.old
      BY <3>2, <3>3 DEF ObserveIsReal
    <3>4. CASE r.status = auStatus
      BY <1>1, <3>2, <3>4 DEF ObserveIsReal, Armed
    <3>5. QED BY <3>2, <3>3, <3>4
  <2>2. CASE UNCHANGED <<auShown, auMissed>>
    BY <1>1, <2>2 DEF ObserveIsReal, AuInv
  <2>3. QED BY <1>1, <2>1, <2>2
<1>4. QED BY <1>1, <1>2, <1>3 DEF AuInv, PressFits, TokenFits, TokenIsLatest, mcVars

\* After a change of the authority every reading made before it is old.
LEMMA ReadingsAge ==
    ASSUME AuInv
    PROVE  /\ Aged \subseteq Readings
           /\ \A r \in Aged : IF r.answer = "asked" THEN ~r.old ELSE r.old
<1>1. ASSUME NEW r \in Readings
      PROVE  /\ [r EXCEPT !.old = (r.answer = "ok")] \in Readings
             /\ [r EXCEPT !.old = (r.answer = "ok")].answer = r.answer
             /\ [r EXCEPT !.old = (r.answer = "ok")].old = (r.answer = "ok")
             /\ r.answer \in {"asked", "ok"}
  BY DEF Readings
<1>2. auReadings \subseteq Readings
  BY DEF AuInv, ReadingsFit
<1>3. QED BY <1>1, <1>2 DEF Aged

\* The backend serves a request, or ends the lease.
LEMMA BackendStep ==
    ASSUME AuInv, PressServed \/ LeaseEnds
    PROVE  AuInv'
<1>1. /\ auReadings' = Aged /\ UNCHANGED <<auShown, auMissed, mcToken, mcCall>>
      /\ mcValid' \in {0, mcValid}
  <2>1. auReadings' = Aged /\ UNCHANGED <<auShown, auMissed, mcToken, mcCall>>
    BY Zenon DEF PressServed, LeaseEnds
  <2>2. \E status : Becoming(status)
    BY Zenon DEF PressServed, LeaseEnds
  <2>3. QED BY <2>1, <2>2 DEF Becoming
<1>2. ReadingsFit'
  BY <1>1, ReadingsAge DEF ReadingsFit, ReadingFits, Readings
<1>3. TokenFits'
  BY <1>1 DEF AuInv, TokenFits, TokenIsLatest
<1>4. CASE PressServed
  <2>1. PICK status \in Follows(auCall.kind) :
           /\ auStatus' = status
           /\ auCall' = [auCall EXCEPT !.answer = "ok", !.status = status]
    <3>1. PICK status \in Follows(auCall.kind) :
             /\ Becoming(status)
             /\ auCall' = [auCall EXCEPT !.answer = "ok", !.status = status]
      BY <1>4, Zenon DEF PressServed
    <3>2. auStatus' = status
      BY <3>1 DEF Becoming
    <3>3. QED BY <3>1, <3>2, Zenon
  <2>2. auCall # Nil /\ auCall \in PanelCalls /\ auCall.status = Nil
    <3>1. auCall # Nil /\ auCall.answer = "asked"
      BY <1>4, Zenon DEF PressServed
    <3>2. QED BY <3>1, Zenon DEF AuInv, PressFits
  <2>3. /\ status \in {"active", "paused", "observe"}
        /\ status = "paused" => auStatus = "active"
    BY <2>1 DEF Follows
  <2>4. auCall' \in PanelCalls /\ auCall'.status = status /\ auCall'.answer = "ok"
    <3> DEFINE new == [auCall EXCEPT !.answer = "ok", !.status = status]
    <3>1. status \in Armed \cup {"observe", Nil}
      BY <2>3 DEF Armed
    <3>2. new \in PanelCalls /\ new.status = status /\ new.answer = "ok"
      BY <2>2, <3>1 DEF PanelCalls
    <3>3. QED BY <2>1, <3>2
  <2>5. auCall' # Nil
    BY <2>4, NilIsNoCall
  <2>6. PressFits'
    BY <2>1, <2>4 DEF PressFits, PanelCalls
  <2>7. ObserveIsReal'
    <3>1. CASE status = "active"
      BY <2>4, <2>5, <3>1 DEF ObserveIsReal
    <3>2. CASE status = "paused"
      BY <1>1, <2>2, <2>3, <3>2, NilIsNoCall DEF ObserveIsReal, AuInv, Armed
    <3>3. CASE status = "observe"
      BY <2>1, <3>3 DEF ObserveIsReal, Armed
    <3>4. QED BY <2>3, <3>1, <3>2, <3>3
  <2>8. QED BY <1>2, <1>3, <2>1, <2>3, <2>6, <2>7 DEF AuInv, Armed
<1>5. CASE LeaseEnds
  <2>1. auStatus' = "observe" /\ auCall' = auCall
    BY <1>5 DEF LeaseEnds, Becoming
  <2>2. ObserveIsReal'
    BY <2>1 DEF ObserveIsReal, Armed
  <2>3. auCall' # Nil => PressFits'
    BY <2>1 DEF AuInv, PressFits, PanelCalls
  <2>4. QED BY <1>2, <1>3, <2>1, <2>2, <2>3 DEF AuInv
<1>6. QED BY <1>4, <1>5

\* The panel sends a request, and applies its answer or its failure.
LEMMA PanelStep ==
    ASSUME AuInv,
           \/ \E k \in Transitions \cup {"arm"}, reopen \in BOOLEAN : Press(k, reopen)
           \/ OpenForm \/ CancelForm \/ PressLost \/ PressApplied \/ PressFails
    PROVE  AuInv'
<1>1. UNCHANGED <<auReadings, auStatus, mcVars>>
  BY DEF Press, OpenForm, CancelForm, PressLost, PressApplied, PressFails
<1>2. ReadingsFit' /\ TokenFits'
  BY <1>1 DEF AuInv, ReadingsFit, ReadingFits, Readings, TokenFits, TokenIsLatest, mcVars
<1>3. ASSUME NEW k \in Transitions \cup {"arm"}, NEW reopen \in BOOLEAN, Press(k, reopen)
      PROVE  AuInv'
  <2>1. /\ auCall = Nil /\ UNCHANGED <<auShown, auMissed>>
        /\ auCall' = [kind |-> k, reopen |-> reopen, answer |-> "asked", status |-> Nil]
    BY <1>3 DEF Press
  <2>2. PressFits'
    BY <2>1 DEF PressFits, PanelCalls
  <2>3. ObserveIsReal'
    BY <1>1, <2>1 DEF ObserveIsReal, AuInv
  <2>4. QED BY <1>1, <1>2, <2>2, <2>3 DEF AuInv
<1>4. CASE OpenForm \/ CancelForm
  <2>1. UNCHANGED <<auShown, auMissed, auCall>>
    BY <1>4 DEF OpenForm, CancelForm
  <2>2. ObserveIsReal' /\ (auCall' # Nil => PressFits')
    BY <1>1, <2>1 DEF ObserveIsReal, AuInv, PressFits, PanelCalls
  <2>3. QED BY <1>1, <1>2, <2>2 DEF AuInv
<1>5. CASE PressLost
  <2>1. /\ auCall \in PanelCalls /\ auShown' = auShown
        /\ auCall' = [auCall EXCEPT !.answer = "failed", !.status = Nil]
        /\ auMissed' = (auMissed \/ auCall.status = "active")
    BY <1>5 DEF PressLost, AuInv, PressFits
  <2>2. PressFits'
    BY <2>1 DEF PressFits, PanelCalls
  <2>3. ObserveIsReal'
    BY <1>1, <2>1 DEF ObserveIsReal, AuInv
  <2>4. QED BY <1>1, <1>2, <2>2, <2>3 DEF AuInv
<1>6. CASE PressApplied
  <2>1. auCall' = Nil /\ auShown' = auCall.status /\ auStatus \in {"observe", auCall.status}
    BY <1>6 DEF PressApplied, AuInv, PressFits
  <2>2. ObserveIsReal'
    BY <1>1, <2>1 DEF ObserveIsReal, Armed
  <2>3. QED BY <1>1, <1>2, <2>1, <2>2 DEF AuInv
<1>7. CASE PressFails
  <2>1. /\ auCall' = Nil /\ auCall # Nil /\ auCall.status = Nil
        /\ UNCHANGED <<auShown, auMissed>>
    BY <1>7 DEF PressFails, AuInv, PressFits
  <2>2. ObserveIsReal'
    BY <1>1, <2>1, NilIsNoCall DEF ObserveIsReal, AuInv, Armed
  <2>3. QED BY <1>1, <1>2, <2>1, <2>2 DEF AuInv
<1>8. QED BY <1>3, <1>4, <1>5, <1>6, <1>7

\* The MCP connection: none is on screen while another is asked for.
LEMMA ConnectionStep ==
    ASSUME AuInv, ClickConnect \/ ConnectServed \/ ConnectApplied
    PROVE  AuInv'
<1>1. UNCHANGED panelVars
  BY DEF ClickConnect, ConnectServed, ConnectApplied
<1>2. TokenFits'
  BY DEF ClickConnect, ConnectServed, ConnectApplied, TokenFits, TokenIsLatest, AuInv
<1>3. ReadingsFit' /\ (auCall' # Nil => PressFits')
  BY <1>1 DEF panelVars, AuInv, ReadingsFit, ReadingFits, Readings, PressFits, PanelCalls
<1>4. ObserveIsReal'
  BY <1>1 DEF panelVars, AuInv, ObserveIsReal
<1>5. QED BY <1>1, <1>2, <1>3, <1>4 DEF panelVars, AuInv

\* The panel does not show Observe over an armed backend, and no revoked token, but
\* for an answer that was lost or overtaken (authority-control.tsx,
\* mcp-execution-connection.tsx).
THEOREM PanelIsReal == AuSpec => []PanelHolds
<1>1. AuInit => AuInv
  BY DEF AuInit, AuInv, ReadingsFit, ReadingFits, Readings, TokenFits, TokenIsLatest,
         ObserveIsReal, Armed
<1>2. ASSUME AuInv, [AuNext]_auVars
      PROVE  AuInv'
  <2>1. CASE AuNext
    BY <1>2, <2>1, ReadingStep, BackendStep, PanelStep, ConnectionStep
       DEF AuNext, AuUser, AuAnswers
  <2>2. CASE UNCHANGED auVars
    <3>1. ReadingsFit' /\ (auCall' # Nil => PressFits')
      BY <1>2, <2>2 DEF auVars, AuInv, ReadingsFit, ReadingFits, Readings, PressFits, PanelCalls
    <3>2. ObserveIsReal' /\ TokenFits'
      BY <1>2, <2>2 DEF auVars, AuInv, ObserveIsReal, TokenFits, TokenIsLatest
    <3>3. QED BY <1>2, <2>2, <3>1, <3>2 DEF auVars, AuInv
  <2>3. QED BY <1>2, <2>1, <2>2
<1>3. AuInv => PanelHolds
  BY DEF AuInv, TokenFits, PanelHolds
<1>4. QED BY <1>1, <1>2, <1>3, PTL DEF AuSpec

-----------------------------------------------------------------------------
(* The page of changes *)

\* Opened on any transactions that are planned.
CpSpec == (\E made \in SUBSET Plans : CpInit(made)) /\ [][CpNext]_cpVars

TxnStates == Unstarted \cup Started \cup Terminal
Rows == [Plans -> TxnStates \cup {Nil}]
RowCalls ==
    [plan : Plans \cup {Nil}, request : Requests, answer : {"asked", "ok", "failed"},
     row : TxnStates \cup {Nil}]

\* What is shown of a transaction is not ahead of what it is.
Behind(shown, state) ==
    shown # Nil => state # Nil /\ CompletedSteps(shown) \subseteq CompletedSteps(state)
RowsBehind(rows) == rows \in Rows /\ \A p \in Plans : Behind(rows[p], cpBack[p])

\* Neither are the lists and the answer still to be shown.
RequestFits ==
    /\ cpCall \in RowCalls
    /\ cpCall.answer = "ok" =>
          cpCall.plan \in Plans /\ Behind(cpCall.row, cpBack[cpCall.plan])
CpInv ==
    /\ cpBack \in Rows
    /\ RowsBehind(cpRows)
    /\ \A l \in cpLists : l.answer # "asked" => RowsBehind(l.rows)
    /\ cpEditing \in Plans \cup {Nil}
    /\ cpBusy => RequestFits

\* A request takes a transaction forward: it keeps its steps, and is not taken
\* back once it has started.
LEMMA BecomesGrows ==
    ASSUME NEW state, NEW request, NEW new \in Becomes(state, request)
    PROVE  /\ new \in TxnStates /\ state \in TxnStates
           /\ CompletedSteps(state) \subseteq CompletedSteps(new)
           /\ state \in Started => new \in Started
<1> USE DEF TxnStates, Unstarted, Started, Staged, Terminal
<1>1. CASE request = "preview" /\ state \in {"planned", "previewed"}
  BY <1>1 DEF Becomes, CompletedSteps, Evidence
<1>2. CASE request = "approve" /\ state = "previewed"
  BY <1>2 DEF Becomes, CompletedSteps, Evidence
<1>3. CASE request = "start" /\ state = "approved"
  BY <1>3 DEF Becomes, CompletedSteps, Evidence
<1>4. CASE request = "advance" /\ state \in Staged
  <2>1. new = NextStage(state)
    BY <1>4 DEF Becomes
  <2>2. CASE state = "backed_up"
    BY <2>1, <2>2 DEF NextStage, CompletedSteps, Evidence
  <2>3. CASE state = "applying"
    BY <2>1, <2>3 DEF NextStage, CompletedSteps, Evidence
  <2>4. CASE state = "validating"
    BY <2>1, <2>4 DEF NextStage, CompletedSteps, Evidence
  <2>5. CASE state = "activating"
    BY <2>1, <2>5 DEF NextStage, CompletedSteps, Evidence
  <2>6. QED BY <1>4, <2>2, <2>3, <2>4, <2>5
<1>5. CASE request \in {"accept", "rollback"} /\ state = "verifying"
  <2>1. new \in {"accepted", "rolled_back"}
    BY <1>5 DEF Becomes
  <2>2. QED BY <1>5, <2>1 DEF CompletedSteps, Evidence
<1>6. CASE request = "cancel" /\ state \in Unstarted
  BY <1>6 DEF Becomes, Cancelled, CompletedSteps, Evidence
<1>7. QED BY <1>1, <1>2, <1>3, <1>4, <1>5, <1>6 DEF Becomes

\* A plan that is replaced keeps its steps as well.
LEMMA CancelledKeeps ==
    ASSUME NEW state \in Unstarted
    PROVE  /\ Cancelled(state) \in TxnStates
           /\ CompletedSteps(state) \subseteq CompletedSteps(Cancelled(state))
BY DEF Unstarted, Cancelled, TxnStates, Terminal, CompletedSteps, Evidence

\* The page, its lists and an answer under way stay behind the backend as it grows.
LEMMA BackendGrows ==
    ASSUME CpInv, cpBack' \in Rows, UNCHANGED <<cpRows, cpLists, cpEditing>>,
           \A p \in Plans : Behind(cpBack[p], cpBack'[p]),
           RequestFits'
    PROVE  CpInv'
<1>1. ASSUME NEW rows, RowsBehind(rows)
      PROVE  rows \in Rows /\ \A p \in Plans : Behind(rows[p], cpBack'[p])
  BY <1>1 DEF RowsBehind, Behind
<1>2. RowsBehind(cpRows)'
  BY <1>1 DEF CpInv, RowsBehind, Rows
<1>3. ASSUME NEW l \in cpLists', l.answer # "asked"
      PROVE  RowsBehind(l.rows)'
  BY <1>1, <1>3 DEF CpInv, RowsBehind, Rows
<1>4. QED BY <1>2, <1>3 DEF CpInv, Rows

\* The backend serves a click or the form.
LEMMA ServedStep ==
    ASSUME CpInv, ClickServed \/ \E p \in Plans : SaveServed(p)
    PROVE  /\ CpInv'
           /\ \A p \in Plans : cpBack[p] \in Started => cpBack'[p] \in Started
<1>1. CASE ClickServed
  <2>1. PICK new \in Becomes(cpBack[cpCall.plan], cpCall.request) :
           /\ cpBack' = [cpBack EXCEPT ![cpCall.plan] = new]
           /\ cpCall' = [cpCall EXCEPT !.answer = "ok", !.row = new]
    BY <1>1, Zenon DEF ClickServed
  <2>2. /\ cpCall \in RowCalls /\ cpCall.plan \in Plans
        /\ UNCHANGED <<cpRows, cpTokens, cpEditing, cpLists>>
    <3>1. /\ cpBusy /\ cpCall.plan # Nil
          /\ UNCHANGED <<cpRows, cpTokens, cpEditing, cpLists>>
      BY <1>1, Zenon DEF ClickServed
    <3>2. QED BY <3>1 DEF CpInv, RequestFits, RowCalls
  <2>3. /\ new \in TxnStates
        /\ Behind(cpBack[cpCall.plan], new) /\ Behind(new, new)
        /\ cpBack[cpCall.plan] \in Started => new \in Started
    BY BecomesGrows, NilIsNoState DEF Behind, TxnStates
  <2>4. /\ cpBack' \in Rows
        /\ \A p \in Plans : cpBack'[p] = IF p = cpCall.plan THEN new ELSE cpBack[p]
    BY <2>1, <2>2, <2>3 DEF CpInv, Rows
  <2>5. RequestFits'
    <3>1. cpCall' \in RowCalls /\ cpCall'.plan = cpCall.plan /\ cpCall'.row = new
      BY <2>1, <2>2, <2>3 DEF RowCalls
    <3>2. Behind(cpCall'.row, cpBack'[cpCall'.plan])
      BY <2>2, <2>3, <2>4, <3>1
    <3>3. QED BY <2>2, <3>1, <3>2 DEF RequestFits, RowCalls, Behind
  <2>6. \A p \in Plans : Behind(cpBack[p], cpBack'[p])
    BY <2>3, <2>4 DEF Behind
  <2>7. QED BY <2>2, <2>3, <2>4, <2>5, <2>6, BackendGrows
<1>2. ASSUME NEW new \in Plans, SaveServed(new)
      PROVE  /\ CpInv'
             /\ \A p \in Plans : cpBack[p] \in Started => cpBack'[p] \in Started
  <2>1. /\ cpCall \in RowCalls /\ cpBack[new] = Nil
        /\ cpCall.plan # Nil => cpCall.plan \in Plans /\ cpBack[cpCall.plan] \in Unstarted
        /\ UNCHANGED <<cpRows, cpTokens, cpEditing, cpLists>>
    <3>1. /\ cpBusy /\ cpBack[new] = Nil
          /\ cpCall.plan # Nil => cpBack[cpCall.plan] \in Unstarted
          /\ UNCHANGED <<cpRows, cpTokens, cpEditing, cpLists>>
      BY <1>2, Zenon DEF SaveServed
    <3>2. QED BY <3>1 DEF CpInv, RequestFits, RowCalls
  <2>2. /\ cpBack' = [p \in Plans |->
              IF p = new THEN "planned"
              ELSE IF p = cpCall.plan THEN Cancelled(cpBack[p]) ELSE cpBack[p]]
        /\ cpCall' = [cpCall EXCEPT !.answer = "ok", !.plan = new, !.row = "planned"]
    BY <1>2, Zenon DEF SaveServed
  <2>3. ASSUME NEW p \in Plans
        PROVE  /\ cpBack'[p] \in TxnStates \cup {Nil}
               /\ Behind(cpBack[p], cpBack'[p])
               /\ cpBack[p] \in Started => cpBack'[p] \in Started
    <3>1. CASE p = new
      BY <2>1, <2>2, <3>1, NilIsNoState DEF Behind, TxnStates, Unstarted
    <3>2. CASE p # new /\ p = cpCall.plan
      <4>1. cpBack[p] \in Unstarted /\ cpBack'[p] = Cancelled(cpBack[p])
        BY <2>1, <2>2, <3>2, NilIsNoPlan
      <4>2. cpBack[p] \notin Started
        BY <4>1 DEF Unstarted, Started, Staged
      <4>3. QED BY <4>1, <4>2, CancelledKeeps, NilIsNoState DEF Behind, TxnStates
    <3>3. CASE p # new /\ p # cpCall.plan
      BY <2>2, <3>3 DEF Behind, CpInv, Rows
    <3>4. QED BY <3>1, <3>2, <3>3
  <2>4. cpBack' \in Rows
    BY <2>2, <2>3 DEF Rows
  <2>5. RequestFits'
    <3>1. cpCall' \in RowCalls /\ cpCall'.plan = new /\ cpCall'.row = "planned"
      BY <2>1, <2>2 DEF RowCalls, TxnStates, Unstarted
    <3>2. cpBack'[new] = "planned"
      BY <2>2
    <3>3. "planned" # Nil
      BY NilIsNoState DEF Unstarted
    <3>4. Behind(cpCall'.row, cpBack'[cpCall'.plan])
      BY <3>1, <3>2, <3>3 DEF Behind
    <3>5. QED BY <3>1, <3>4 DEF RequestFits, RowCalls, Behind
  <2>6. QED BY <2>1, <2>3, <2>4, <2>5, BackendGrows
<1>3. QED BY <1>1, <1>2

\* The lists: asked for, served with what the backend has, applied in any order.
LEMMA ListStep ==
    ASSUME CpInv, CpListAsked \/ CpListServed \/ CpListArrives \/ CpListLost
    PROVE  CpInv' /\ cpBack' = cpBack
<1>1. UNCHANGED <<cpCall, cpBack, cpEditing>>
  BY Zenon DEF CpListAsked, AskList, CpListServed, ListServed, CpListArrives, ListArrives,
               CpListLost, ListLost
<1>2. ASSUME NEW rows, RowsBehind(rows)
      PROVE  rows \in Rows /\ \A p \in Plans : Behind(rows[p], cpBack'[p])
  BY <1>1, <1>2 DEF RowsBehind
<1>3. RowsBehind(cpBack)
  BY DEF CpInv, RowsBehind, Behind
<1>4. /\ RowsBehind(cpRows')
      /\ \A l \in cpLists' : l.answer # "asked" => RowsBehind(l.rows)
  <2>1. CASE CpListAsked
    BY <2>1 DEF CpListAsked, AskList, LoadAgain, CpInv
  <2>2. CASE CpListServed
    <3>1. PICK l \in cpLists : /\ cpLists' = (cpLists \ {l}) \cup {[answer |-> "ok", rows |-> cpBack]}
                              /\ cpRows' = cpRows
      BY <2>2 DEF CpListServed, ListServed, Serve
    <3>2. QED BY <1>3, <3>1 DEF CpInv
  <2>3. CASE CpListArrives
    BY <2>3 DEF CpListArrives, ListArrives, Answered, CpInv
  <2>4. CASE CpListLost
    BY <2>4 DEF CpListLost, ListLost, CpInv
  <2>5. QED BY <2>1, <2>2, <2>3, <2>4
<1>5. RequestFits => RequestFits'
  BY <1>1 DEF RequestFits, RowCalls, Behind
<1>6. /\ cpRows' \in Rows /\ \A p \in Plans : Behind(cpRows'[p], cpBack'[p])
      /\ \A l \in cpLists' : l.answer # "asked" =>
            l.rows \in Rows /\ \A p \in Plans : Behind(l.rows[p], cpBack'[p])
  BY <1>2, <1>4
<1>7. RowsBehind(cpRows)' /\ \A l \in cpLists' : l.answer # "asked" => RowsBehind(l.rows)'
  BY <1>6 DEF RowsBehind, Rows, Behind
<1>8. CpInv'
  BY <1>1, <1>5, <1>7 DEF CpInv, cpBusy, Rows
<1>9. QED BY <1>1, <1>8

\* The buttons and the form, up to the request; and the answer, which becomes the row.
LEMMA PageStep ==
    ASSUME CpInv, CpUser \/ CallRefused \/ CallAnswered \/ CallFails
    PROVE  CpInv' /\ cpBack' = cpBack
<1>1. cpBack' = cpBack
  BY Zenon DEF CpUser, Click, EditPlan, StopEditing, SavePlan, CallRefused, CallAnswered, CallFails
<1>2. ASSUME cpRows' \in Rows, \A p \in Plans : Behind(cpRows'[p], cpBack[p]),
             cpEditing' \in Plans \cup {Nil}, cpBusy' => RequestFits',
             cpLists' = cpLists \/ LoadAgain
      PROVE  CpInv'
  <2>1. \A l \in cpLists' : l.answer # "asked" => l \in cpLists
    BY <1>2 DEF LoadAgain
  <2>2. \A l \in cpLists' : l.answer # "asked" =>
           l.rows \in Rows /\ \A p \in Plans : Behind(l.rows[p], cpBack[p])
    BY <2>1 DEF CpInv, RowsBehind
  <2>3. RowsBehind(cpRows)' /\ \A l \in cpLists' : l.answer # "asked" => RowsBehind(l.rows)'
    BY <1>1, <1>2, <2>2 DEF RowsBehind, Rows, Behind
  <2>4. QED BY <1>1, <1>2, <2>3 DEF CpInv, Rows
<1>3. /\ cpRows \in Rows /\ \A p \in Plans : Behind(cpRows[p], cpBack[p])
      /\ cpEditing \in Plans \cup {Nil}
  BY DEF CpInv, RowsBehind
<1>4. ASSUME NEW p \in Plans \cup {Nil}, NEW request \in Requests, cpCall' = Asks(p, request),
             UNCHANGED <<cpRows, cpEditing, cpLists>>
      PROVE  CpInv'
  <2>1. RequestFits'
    BY <1>4 DEF RequestFits, RowCalls, Asks
  <2>2. QED BY <1>2, <1>3, <1>4, <2>1
<1>5. CASE CpUser
  <2>1. CASE \E p \in Worked, r \in Requests : Click(p, r)
    BY <1>4, <2>1, PageBounds DEF Click
  <2>2. CASE SavePlan
    BY <1>3, <1>4, <2>2 DEF SavePlan, Requests
  <2>3. CASE StopEditing \/ \E p \in Plans : EditPlan(p)
    <3>1. UNCHANGED <<cpRows, cpLists, cpCall>> /\ cpEditing' \in Plans \cup {Nil}
      BY <2>3 DEF StopEditing, EditPlan
    <3>2. cpBusy' => RequestFits'
      BY <1>1, <3>1 DEF CpInv, cpBusy, RequestFits, RowCalls, Behind
    <3>3. QED BY <1>1, <1>2, <1>3, <3>1, <3>2
  <2>4. QED BY <1>5, <2>1, <2>2, <2>3 DEF CpUser
<1>6. CASE CallRefused
  <2>1. /\ cpBusy /\ UNCHANGED <<cpRows, cpTokens, cpEditing, cpLists, cpBack>>
        /\ cpCall' = [cpCall EXCEPT !.answer = "failed", !.row = Nil]
    BY <1>6, Zenon DEF CallRefused
  <2>2. cpCall' \in RowCalls /\ cpCall'.answer = "failed"
    <3>1. cpCall \in RowCalls
      BY <2>1 DEF CpInv, RequestFits
    <3>2. QED BY <2>1, <3>1 DEF RowCalls
  <2>3. RequestFits'
    BY <2>2 DEF RequestFits, RowCalls
  <2>4. QED BY <1>2, <1>3, <2>1, <2>3
<1>7. CASE CallAnswered
  <2>1. /\ cpBusy /\ cpCall.answer = "ok" /\ cpCall' = Nil
        /\ cpRows' = [cpRows EXCEPT ![cpCall.plan] = cpCall.row]
        /\ cpEditing' \in {Nil, cpEditing}
        /\ cpLists' = cpLists \/ LoadAgain
    BY <1>7 DEF CallAnswered
  <2>2. /\ cpCall \in RowCalls /\ cpCall.plan \in Plans
        /\ Behind(cpCall.row, cpBack[cpCall.plan])
    BY <2>1 DEF CpInv, RequestFits
  <2>3. cpCall.row \in TxnStates \cup {Nil}
    BY <2>2 DEF RowCalls
  <2>4. cpRows' \in Rows /\ \A p \in Plans : Behind(cpRows'[p], cpBack[p])
    BY <1>3, <2>1, <2>2, <2>3 DEF Rows
  <2>5. QED BY <1>1, <1>2, <1>3, <2>1, <2>4 DEF cpBusy
<1>8. CASE CallFails
  <2>1. /\ cpCall' = Nil /\ UNCHANGED <<cpRows, cpEditing>> /\ (cpLists' = cpLists \/ LoadAgain)
    BY <1>8 DEF CallFails
  <2>2. QED BY <1>1, <1>2, <1>3, <2>1 DEF cpBusy
<1>9. QED BY <1>1, <1>5, <1>6, <1>7, <1>8

\* Every step of the page keeps what it knows, and takes no transaction back.
LEMMA ChangesStep ==
    ASSUME CpInv, [CpNext]_cpVars
    PROVE  /\ CpInv'
           /\ \A p \in Plans : cpBack[p] \in Started => cpBack'[p] \in Started
<1>1. CASE UNCHANGED cpVars
  <2>1. UNCHANGED <<cpRows, cpEditing, cpCall, cpLists, cpBack>>
    BY <1>1 DEF cpVars
  <2>2. \A p \in Plans : Behind(cpBack[p], cpBack'[p])
    BY <2>1 DEF Behind
  <2>3. RowsBehind(cpRows)' /\ cpBack' \in Rows
    BY <2>1 DEF CpInv, RowsBehind, Behind, Rows
  <2>4. \A l \in cpLists' : l.answer # "asked" => RowsBehind(l.rows)'
    BY <2>1 DEF CpInv, RowsBehind, Behind, Rows
  <2>5. cpBusy' => RequestFits'
    BY <2>1 DEF CpInv, cpBusy, RequestFits, RowCalls, Behind
  <2>6. QED BY <2>1, <2>3, <2>4, <2>5 DEF CpInv
<1>2. CASE CpUser \/ CallRefused \/ CallAnswered \/ CallFails
  BY <1>2, PageStep
<1>3. CASE ClickServed \/ \E p \in Plans : SaveServed(p)
  BY <1>3, ServedStep
<1>4. CASE CpListAsked \/ CpListServed \/ CpListArrives \/ CpListLost
  BY <1>4, ListStep
<1>5. QED BY <1>1, <1>2, <1>3, <1>4 DEF CpNext, CpAnswers

\* The page opens with no rows, no request and no list.
LEMMA ChangesStart ==
    ASSUME NEW made, CpInit(made)
    PROVE  CpInv
<1>1. cpRows \in Rows /\ \A p \in Plans : cpRows[p] = Nil
  BY DEF CpInit, Rows
<1>2. cpBack \in Rows
  BY DEF CpInit, Rows, TxnStates, Unstarted
<1>3. RowsBehind(cpRows)
  BY <1>1 DEF RowsBehind, Behind
<1>4. QED BY <1>2, <1>3 DEF CpInit, CpInv, cpBusy

\* However late a list or an answer comes, the page draws no step as complete that
\* the transaction has not got to (completedSteps, load).
THEOREM RowsLag == CpSpec => []ProgressNotAhead
<1>1. (\E made \in SUBSET Plans : CpInit(made)) => CpInv
  BY ChangesStart
<1>2. CpInv /\ [CpNext]_cpVars => CpInv'
  BY ChangesStep
<1>3. CpInv => ProgressNotAhead
  BY DEF CpInv, RowsBehind, Behind, ProgressNotAhead
<1>4. QED BY <1>1, <1>2, <1>3, PTL DEF CpSpec

\* No button and no form of the page takes back what has started (create, call).
THEOREM NothingTakenBack == CpSpec => StartedIsKept
<1>1. (\E made \in SUBSET Plans : CpInit(made)) => CpInv
  BY ChangesStart
<1>2. CpInv /\ [CpNext]_cpVars => CpInv'
  BY ChangesStep
<1>3. CpInv /\ [CpNext]_cpVars
        => [\A p \in Plans : cpBack[p] \in Started => cpBack'[p] \in Started]_cpVars
  BY ChangesStep
<1>4. QED BY <1>1, <1>2, <1>3, PTL DEF CpSpec, StartedIsKept
-----------------------------------------------------------------------------
(* The pages of scripts *)

ScSpec == ScriptInit /\ [][ScriptNext]_scriptVars

IsJob(job) == job = Job(job.id, job.draft, job.host, job.state)
IsAsked(call) == call = [kind |-> call.kind, job |-> call.job, answer |-> call.answer]

\* A job the backend has, of this draft and this machine.
Filed(jobs, job) ==
    /\ IsJob(job) /\ job.id \in JobIds
    /\ jobs[job.id].id = job.id
    /\ jobs[job.id].draft = job.draft /\ jobs[job.id].host = job.host
BackJobs(jobs) ==
    /\ jobs = [i \in JobIds |-> jobs[i]]
    /\ \A i \in JobIds : jobs[i] = NoJob \/ (IsJob(jobs[i]) /\ jobs[i].id = i)

\* What the page shows, what its polls bring and what its request is about is such
\* a job; a request that ends in a job is about what is on the screen.
ShownFits == scriptJob = NoJob \/ Filed(scriptJobs, scriptJob)
PollsFit == \A p \in scriptPolls :
    IsAsked(p) /\ Filed(scriptJobs, p.job) /\ p.job.id = scriptJob.id
OnScreen(job) == scriptWanted = Nil => job.draft = scriptDraft /\ job.host = scriptHost
Kinds(page) ==
    IF page = "software" THEN {"plan", "install"} ELSE {"generate", "prepare", "run", "refetch"}
CallIsOf ==
    /\ IsAsked(scriptCall) /\ scriptCall.kind \in Kinds(scriptPage)
    /\ scriptCall.kind \in {"run", "refetch"} \/
       (scriptCall.kind \in {"prepare", "install"} /\ scriptCall.answer = "ok")
          => Filed(scriptJobs, scriptCall.job)
CallFits ==
    /\ scriptCall.kind \in {"prepare", "run", "refetch"} => OnScreen(scriptCall.job)
    /\ scriptCall.kind = "plan" =>
          scriptCall.job.draft = softWish /\ scriptCall.job.host = scriptHost
    /\ scriptCall.kind = "generate" /\ scriptWanted = Nil => scriptJob = NoJob

\* Before the machines are there nothing is chosen, shown or asked for; only the
\* script page shows jobs, and only the software page plans.
PlaceFits ==
    /\ scriptLoad = "hosts" =>
          scriptHost = Nil /\ scriptJob = NoJob /\ scriptCall = Nil /\ softPlan = Nil
    /\ scriptWanted # Nil =>
          /\ scriptPage = "scripts" /\ scriptWanted \in JobIds
          /\ scriptJobs[scriptWanted].id = scriptWanted
    /\ scriptLoad = "saved" => scriptWanted # Nil
    /\ scriptPage = "software" => scriptJob = NoJob
    /\ scriptPage # "software" => softPlan = Nil
ScInv ==
    /\ BackJobs(scriptJobs) /\ ShownFits /\ PollsFit
    /\ scriptCall # Nil => CallIsOf /\ CallFits
    /\ PlaceFits /\ OfferIsShown

\* A job that is not filed is nobody's poll.
LEMMA NoJobNoPoll ==
    ASSUME PollsFit, scriptJob = NoJob
    PROVE  scriptPolls = {}
BY NilIsNoJob DEF PollsFit, Filed, NoJob, Job

\* Another job on the screen drops the polls of the one before.
LEMMA ShownStep ==
    ASSUME PollsFit, ShowJob(scriptJob'), NEW p \in scriptPolls'
    PROVE  p \in scriptPolls /\ scriptJob'.id = scriptJob.id
BY DEF ShowJob, Watch

\* As long as the backend's jobs stay what they are, a step of the page is one of
\* its job, polls, request and place.
LEMMA PageKeeps ==
    ASSUME ScInv, scriptJobs' = scriptJobs,
           ShownFits', PollsFit', scriptCall' # Nil => (CallIsOf' /\ CallFits'),
           PlaceFits', OfferIsShown'
    PROVE  ScInv'
BY DEF ScInv, BackJobs

\* An answered request is of the kind it was.
LEMMA AnsweredIs ==
    ASSUME NEW call, NEW job, NEW answer, IsAsked(call)
    PROVE  /\ [call EXCEPT !.answer = answer, !.job = job]
                = [kind |-> call.kind, job |-> job, answer |-> answer]
           /\ [call EXCEPT !.answer = answer] = [kind |-> call.kind, job |-> call.job, answer |-> answer]
<1>1. PICK k, j, a : call = [kind |-> k, job |-> j, answer |-> a]
  BY DEF IsAsked
<1>2. [call EXCEPT !.answer = answer, !.job = job] = [kind |-> k, job |-> job, answer |-> answer]
  <2> DEFINE new == [call EXCEPT !.answer = answer, !.job = job]
             Calls == [kind : {k}, job : {j, job}, answer : {a, answer}]
  <2>1. call \in Calls
    BY <1>1
  <2>2. new \in Calls /\ new.job = job /\ new.answer = answer
    BY <2>1
  <2> HIDE DEF new
  <2>3. new = [kind |-> k, job |-> job, answer |-> answer]
    BY <2>2
  <2>4. QED BY <2>3 DEF new
<1>3. [call EXCEPT !.answer = answer] = [kind |-> k, job |-> j, answer |-> answer]
  BY <1>1
<1>4. call.kind = k /\ call.job = j
  BY <1>1
<1>5. QED BY <1>2, <1>3, <1>4, Zenon

\* A job that gets on is the job it was.
LEMMA JobGoesOn ==
    ASSUME NEW job, NEW state, IsJob(job)
    PROVE  [job EXCEPT !.state = state] = Job(job.id, job.draft, job.host, state)
<1>1. PICK i, d, h, s : job = [id |-> i, draft |-> d, host |-> h, state |-> s]
  BY DEF IsJob, Job
<1>2. QED BY <1>1 DEF Job

\* Of the same job only the state is shown anew.
LEMMA SameJobKeeps ==
    ASSUME ScInv, UNCHANGED <<scriptPage, scriptWanted, scriptLoad, scriptForm, scriptJobs, softVars>>,
           scriptJob' = scriptJob \/
             (/\ Filed(scriptJobs, scriptJob) /\ Filed(scriptJobs, scriptJob')
              /\ scriptJob'.id = scriptJob.id),
           PollsFit', scriptCall' # Nil => (CallIsOf' /\ CallFits'),
           scriptLoad = "hosts" => scriptCall' = Nil
    PROVE  ScInv'
<1>1. UNCHANGED <<scriptPage, scriptWanted, scriptLoad, scriptHost, scriptDraft, scriptJobs,
                  softWish, softPlan>>
  BY DEF scriptForm, softVars
<1>2. /\ scriptJob'.id = scriptJob.id /\ scriptJob'.draft = scriptJob.draft
      /\ scriptJob'.host = scriptJob.host /\ (scriptJob = NoJob => scriptJob' = NoJob)
  BY NilIsNoJob DEF Filed, NoJob, Job
<1>3. ShownFits'
  BY <1>1 DEF ScInv, ShownFits, Filed
<1>4. PlaceFits'
  BY <1>1, <1>2 DEF ScInv, PlaceFits
<1>5. OfferIsShown'
  BY <1>1, <1>2 DEF ScInv, OfferIsShown, ReviewedIsShown, PlanIsOfForm
<1>6. QED BY <1>1, <1>3, <1>4, <1>5, PageKeeps

\* A request stays what it is as long as only the state of its job changes.
LEMMA SameCallKeeps ==
    ASSUME ScInv, UNCHANGED <<scriptPage, scriptWanted, scriptForm, scriptCall, scriptJobs, softVars>>,
           scriptJob = NoJob => scriptJob' = NoJob, scriptCall # Nil
    PROVE  CallIsOf' /\ CallFits'
<1>1. UNCHANGED <<scriptPage, scriptWanted, scriptHost, scriptDraft, scriptJobs, scriptCall,
                  softWish, softPlan>>
  BY DEF scriptForm, softVars
<1>2. CallIsOf'
  BY <1>1 DEF ScInv, CallIsOf, IsAsked, Filed
<1>3. CallFits'
  BY <1>1 DEF ScInv, CallFits, OnScreen
<1>4. QED BY <1>2, <1>3

\* Polls: asked, served with the job, applied or lost.
LEMMA PollStep ==
    ASSUME ScInv, Poll \/ PollReaches \/ PollApplied \/ \E p \in scriptPolls : PollLost(p)
    PROVE  ScInv'
<1>1. UNCHANGED <<scriptPage, scriptWanted, scriptLoad, scriptForm, scriptCall, scriptJobs, softVars>>
  BY Zenon DEF Poll, PollReaches, PollServed, PollApplied, PollAnswered, PollLost
<1>2. ASSUME scriptJob' = scriptJob, PollsFit'
      PROVE  ScInv'
  <2>1. scriptCall' # Nil => CallIsOf' /\ CallFits'
    BY <1>1, <1>2, SameCallKeeps
  <2>2. scriptLoad = "hosts" => scriptCall' = Nil
    BY <1>1 DEF ScInv, PlaceFits
  <2>3. QED BY <1>1, <1>2, <2>1, <2>2, SameJobKeeps
<1>3. \A p \in scriptPolls :
         IsAsked(p) /\ Filed(scriptJobs, p.job) /\ p.job.id = scriptJob.id
  BY DEF ScInv, PollsFit
<1>4. CASE Poll
  <2>1. Filed(scriptJobs, scriptJob)
    BY <1>4 DEF Poll, ScInv, ShownFits, NoJob, Job
  <2>2. scriptJob' = scriptJob /\ scriptPolls' = scriptPolls \cup {Ask("poll", scriptJob)}
    BY <1>4, Zenon DEF Poll
  <2>3. IsAsked(Ask("poll", scriptJob)) /\ Ask("poll", scriptJob).job = scriptJob
    BY DEF Ask, IsAsked
  <2>4. \A p \in scriptPolls' :
           IsAsked(p) /\ Filed(scriptJobs, p.job) /\ p.job.id = scriptJob.id
    BY <1>3, <2>1, <2>2, <2>3
  <2>5. PollsFit'
    BY <1>1, <2>2, <2>4 DEF PollsFit, IsAsked, Filed
  <2>6. QED BY <1>2, <2>2, <2>5
<1>5. CASE PollReaches
  <2>1. PICK p \in scriptPolls :
           /\ scriptPolls' = (scriptPolls \ {p}) \cup
                              {[p EXCEPT !.answer = "ok", !.job = scriptJobs[p.job.id]]}
           /\ scriptJob' = scriptJob
    BY <1>5, Zenon DEF PollReaches, PollServed, Serve
  <2> DEFINE new == [p EXCEPT !.answer = "ok", !.job = scriptJobs[p.job.id]]
  <2>2. IsAsked(new) /\ new.job = scriptJobs[p.job.id]
    <3>1. IsAsked(p)
      BY <1>3
    <3>2. new = [kind |-> p.kind, job |-> scriptJobs[p.job.id], answer |-> "ok"]
      BY <3>1, AnsweredIs, Zenon
    <3> HIDE DEF new
    <3>3. QED BY <3>2 DEF IsAsked
  <2>3. Filed(scriptJobs, new.job) /\ new.job.id = scriptJob.id
    <3>1. Filed(scriptJobs, p.job) /\ p.job.id = scriptJob.id
      BY <1>3
    <3>2. IsJob(scriptJobs[p.job.id])
      BY <3>1 DEF ScInv, BackJobs, Filed, NoJob, Job, IsJob
    <3>3. QED BY <2>2, <3>1, <3>2 DEF Filed
  <2> HIDE DEF new
  <2>4. \A q \in scriptPolls' :
           IsAsked(q) /\ Filed(scriptJobs, q.job) /\ q.job.id = scriptJob.id
    BY <1>3, <2>1, <2>2, <2>3 DEF new
  <2>5. PollsFit'
    BY <1>1, <2>1, <2>4 DEF PollsFit, IsAsked, Filed
  <2>6. QED BY <1>2, <2>1, <2>5
<1>6. CASE PollApplied
  <2>1. PICK p \in scriptPolls :
           scriptJob' = p.job /\ scriptPolls' \subseteq scriptPolls
    BY <1>6 DEF PollApplied, PollAnswered, Answered, Watch
  <2>2. Filed(scriptJobs, p.job) /\ p.job.id = scriptJob.id
    BY <1>3
  <2>3. scriptJob # NoJob /\ Filed(scriptJobs, scriptJob)
    BY <2>2, NilIsNoJob DEF ScInv, ShownFits, NoJob, Job, Filed
  <2>4. PollsFit'
    BY <1>1, <1>3, <2>1, <2>2 DEF PollsFit, IsAsked, Filed
  <2>5. scriptCall' # Nil => CallIsOf' /\ CallFits'
    BY <1>1, <2>3, SameCallKeeps
  <2>6. scriptLoad # "hosts"
    BY <2>3 DEF ScInv, PlaceFits
  <2>7. QED BY <1>1, <2>1, <2>2, <2>3, <2>4, <2>5, <2>6, SameJobKeeps
<1>7. CASE \E p \in scriptPolls : PollLost(p)
  <2>1. scriptJob' = scriptJob /\ scriptPolls' \subseteq scriptPolls
    BY <1>7 DEF PollLost
  <2>2. PollsFit'
    BY <1>1, <1>3, <2>1 DEF PollsFit, IsAsked, Filed
  <2>3. QED BY <1>2, <2>1, <2>2
<1>8. QED BY <1>4, <1>5, <1>6, <1>7

\* What is asked for is a request.
LEMMA AskedIs ==
    ASSUME NEW kind, NEW job
    PROVE  /\ IsAsked(Ask(kind, job)) /\ Ask(kind, job).kind = kind
           /\ Ask(kind, job).job = job /\ Ask(kind, job).answer = "asked"
BY DEF Ask, IsAsked

\* A page that shows no job has no polls.
LEMMA NoJobStep ==
    ASSUME ScInv, ShowJob(NoJob), UNCHANGED scriptJobs
    PROVE  ShownFits' /\ PollsFit' /\ scriptJob' = NoJob
<1>1. scriptJob' = NoJob /\ scriptPolls' \in {{}, scriptPolls}
  BY DEF ShowJob, Watch
<1>2. scriptPolls' # {} => scriptJob.id = Nil
  BY DEF ShowJob, Watch, NoJob, Job
<1>3. scriptPolls' = {}
  BY <1>1, <1>2, NilIsNoJob DEF ScInv, PollsFit, Filed
<1>4. QED BY <1>1, <1>3 DEF ShownFits, PollsFit

\* The form and the buttons of the script page.
LEMMA ScriptStep ==
    ASSUME ScInv,
           \/ \E h \in Machines \cup {Nil}, d \in Drafts : EditScript(h, d)
           \/ Generate \/ Prepare \/ RunJob
    PROVE  ScInv'
<1>1. /\ UNCHANGED <<scriptPage, scriptWanted, scriptLoad, scriptJobs, softWish, softPlan>>
      /\ scriptPage = "scripts" /\ scriptCall = Nil
  BY DEF EditScript, Generate, Prepare, RunJob, softVars, scriptBusy
<1>2. softPlan = Nil /\ PlanIsOfForm'
  BY <1>1 DEF ScInv, PlaceFits, PlanIsOfForm
<1>3. CASE \E h \in Machines \cup {Nil}, d \in Drafts : EditScript(h, d)
  <2>1. /\ scriptHost' # scriptHost => scriptHost # Nil
        /\ ShowJob(NoJob) /\ scriptCall' = Nil
    BY <1>1, <1>3 DEF EditScript
  <2>2. ShownFits' /\ PollsFit' /\ scriptJob' = NoJob
    BY <1>1, <2>1, NoJobStep
  <2>3. PlaceFits'
    BY <1>1, <1>2, <2>1, <2>2 DEF ScInv, PlaceFits
  <2>4. OfferIsShown'
    BY <1>2, <2>2 DEF OfferIsShown, ReviewedIsShown, NoJob, Job
  <2>5. QED BY <1>1, <2>1, <2>2, <2>3, <2>4, PageKeeps
<1>4. CASE Generate
  <2>1. /\ scriptHost # Nil /\ UNCHANGED <<scriptHost, scriptDraft>>
        /\ ShowJob(NoJob) /\ scriptCall' = Ask("generate", Job(Nil, Nil, scriptHost, "none"))
    BY <1>4 DEF Generate, scriptForm
  <2>2. ShownFits' /\ PollsFit' /\ scriptJob' = NoJob
    BY <1>1, <2>1, NoJobStep
  <2>3. PlaceFits'
    BY <1>1, <1>2, <2>1, <2>2 DEF ScInv, PlaceFits
  <2>4. OfferIsShown'
    BY <1>2, <2>2 DEF OfferIsShown, ReviewedIsShown, NoJob, Job
  <2>5. IsAsked(scriptCall') /\ scriptCall'.kind = "generate"
    BY <2>1, AskedIs
  <2>6. CallIsOf' /\ CallFits'
    BY <1>1, <2>2, <2>5 DEF CallIsOf, CallFits, Kinds, IsAsked
  <2>7. QED BY <1>1, <2>2, <2>3, <2>4, <2>6, PageKeeps
<1>5. CASE Prepare
  <2>1. /\ scriptHost # Nil /\ UNCHANGED <<scriptHost, scriptDraft, scriptJob, scriptPolls>>
        /\ scriptCall' = Ask("prepare", Job(Nil, scriptDraft, scriptHost, "none"))
    BY <1>5 DEF Prepare, scriptForm
  <2>2. ShownFits' /\ PollsFit'
    BY <1>1, <2>1 DEF ScInv, ShownFits, PollsFit, IsAsked, Filed
  <2>3. PlaceFits'
    BY <1>1, <1>2, <2>1 DEF ScInv, PlaceFits
  <2>4. OfferIsShown'
    BY <1>1, <1>2, <2>1 DEF ScInv, OfferIsShown, ReviewedIsShown
  <2>5. /\ IsAsked(scriptCall') /\ scriptCall'.kind = "prepare" /\ scriptCall'.answer = "asked"
        /\ scriptCall'.job = Job(Nil, scriptDraft, scriptHost, "none")
    BY <2>1, AskedIs
  <2>6. CallIsOf' /\ CallFits'
    BY <1>1, <2>1, <2>5 DEF CallIsOf, CallFits, Kinds, IsAsked, OnScreen, Job
  <2>7. QED BY <1>1, <2>2, <2>3, <2>4, <2>6, PageKeeps
<1>6. CASE RunJob
  <2>1. /\ UNCHANGED scriptForm /\ scriptJob.state = "prepared"
        /\ scriptJob' = [scriptJob EXCEPT !.state = "running"]
        /\ scriptPolls' = Watch([scriptJob EXCEPT !.state = "running"])
        /\ scriptCall' = Ask("run", scriptJob)
    BY <1>6, Zenon DEF RunJob, ShowJob
  <2>2. Filed(scriptJobs, scriptJob) /\ IsJob(scriptJob)
    BY <2>1 DEF ScInv, ShownFits, NoJob, Job, Filed
  <2>3. scriptJob' = Job(scriptJob.id, scriptJob.draft, scriptJob.host, "running")
    BY <2>1, <2>2, JobGoesOn, Zenon
  <2>4. Filed(scriptJobs, scriptJob') /\ scriptJob'.id = scriptJob.id
    BY <2>2, <2>3 DEF Filed, IsJob, Job
  <2>5. PollsFit'
    <3>1. scriptPolls' \subseteq scriptPolls
      BY <2>1 DEF Watch
    <3>2. QED BY <1>1, <2>4, <3>1 DEF ScInv, PollsFit, IsAsked, Filed
  <2>6. /\ IsAsked(scriptCall') /\ scriptCall'.kind = "run" /\ scriptCall'.job = scriptJob
    BY <2>1, AskedIs
  <2>7. CallIsOf' /\ CallFits'
    <3>1. OnScreen(scriptJob)
      BY <2>2, NilIsNoJob DEF ScInv, OfferIsShown, ReviewedIsShown, OnScreen, Filed
    <3>2. CallIsOf'
      BY <1>1, <2>2, <2>6 DEF CallIsOf, Kinds, IsAsked, Filed
    <3>3. CallFits'
      BY <1>1, <2>1, <2>6, <3>1 DEF CallFits, OnScreen, scriptForm
    <3>4. QED BY <3>2, <3>3
  <2>8. scriptLoad # "hosts"
    BY <2>1 DEF ScInv, PlaceFits, NoJob, Job
  <2>9. UNCHANGED softVars
    BY <1>1 DEF softVars
  <2>10. QED BY <1>1, <2>1, <2>2, <2>4, <2>5, <2>7, <2>8, <2>9, SameJobKeeps
<1>7. QED BY <1>3, <1>4, <1>5, <1>6

\* The machines arrive, and the job of the address.
LEMMA LoadStep ==
    ASSUME ScInv, ScriptHosts \/ SavedArrives \/ ScriptLoadFails
    PROVE  ScInv'
<1>1. UNCHANGED <<scriptPage, scriptWanted, scriptCall, scriptJobs, softWish, softPlan>>
  BY DEF ScriptHosts, SavedArrives, ScriptLoadFails, softVars
<1>2. CASE ScriptHosts
  <2>1. /\ scriptLoad = "hosts" /\ UNCHANGED <<scriptDraft, scriptJob, scriptPolls>>
        /\ scriptLoad' = IF scriptPage = "scripts" /\ scriptWanted # Nil THEN "saved" ELSE "done"
    BY <1>2 DEF ScriptHosts
  <2>2. scriptJob = NoJob /\ scriptCall = Nil /\ softPlan = Nil
    BY <2>1 DEF ScInv, PlaceFits
  <2>3. ShownFits' /\ PollsFit'
    BY <1>1, <2>1, <2>2 DEF ScInv, ShownFits, PollsFit, IsAsked, Filed
  <2>4. PlaceFits'
    BY <1>1, <2>1, <2>2 DEF ScInv, PlaceFits
  <2>5. OfferIsShown'
    BY <1>1, <2>1, <2>2 DEF OfferIsShown, ReviewedIsShown, PlanIsOfForm, NoJob, Job
  <2>6. QED BY <1>1, <2>2, <2>3, <2>4, <2>5, PageKeeps
<1>3. CASE SavedArrives
  <2> DEFINE job == scriptJobs[scriptWanted]
  <2>1. /\ scriptLoad = "saved" /\ scriptLoad' = "done"
        /\ ShowJob(job) /\ scriptHost' = job.host /\ scriptDraft' = job.draft
    BY <1>3 DEF SavedArrives
  <2>2. scriptPage = "scripts" /\ scriptWanted # Nil /\ scriptWanted \in JobIds
        /\ job.id = scriptWanted
    BY <2>1 DEF ScInv, PlaceFits
  <2>3. Filed(scriptJobs, job)
    BY <2>2 DEF ScInv, BackJobs, Filed, NoJob, Job
  <2> HIDE DEF job
  <2>4. scriptJob' = job
    BY <2>1 DEF ShowJob
  <2>5. ShownFits' /\ PollsFit'
    <3>1. \A p \in scriptPolls' : p \in scriptPolls /\ scriptJob'.id = scriptJob.id
      BY <2>1, <2>4 DEF ShowJob, Watch
    <3>2. ShownFits'
      BY <1>1, <2>3, <2>4 DEF ShownFits, Filed
    <3>3. PollsFit'
      BY <1>1, <3>1 DEF ScInv, PollsFit, IsAsked, Filed
    <3>4. QED BY <3>2, <3>3
  <2>6. PlaceFits' /\ OfferIsShown'
    BY <1>1, <2>1, <2>2 DEF ScInv, PlaceFits, OfferIsShown, ReviewedIsShown, PlanIsOfForm
  <2>7. scriptCall' # Nil => CallIsOf' /\ CallFits'
    <3>1. scriptCall' # Nil => CallIsOf'
      BY <1>1 DEF ScInv, CallIsOf, IsAsked, Filed
    <3>2. scriptCall' # Nil => CallFits'
      <4>1. scriptCall' # Nil => scriptCall'.kind # "plan"
        BY <1>1, <2>2 DEF ScInv, CallIsOf, Kinds
      <4>2. QED BY <1>1, <2>2, <4>1 DEF CallFits, OnScreen
    <3>3. QED BY <3>1, <3>2
  <2>8. QED BY <1>1, <2>5, <2>6, <2>7, PageKeeps
<1>4. CASE ScriptLoadFails
  <2>1. /\ UNCHANGED <<scriptForm, scriptJob, scriptPolls>> /\ scriptLoad' = "failed"
    BY <1>4 DEF ScriptLoadFails
  <2>2. UNCHANGED <<scriptHost, scriptDraft>> /\ UNCHANGED softVars
    BY <1>1, <2>1 DEF scriptForm, softVars
  <2>3. ShownFits' /\ PollsFit'
    BY <1>1, <2>1 DEF ScInv, ShownFits, PollsFit, IsAsked, Filed
  <2>4. PlaceFits' /\ OfferIsShown'
    BY <1>1, <2>1, <2>2
       DEF ScInv, PlaceFits, OfferIsShown, ReviewedIsShown, PlanIsOfForm
  <2>5. scriptCall' # Nil => CallIsOf' /\ CallFits'
    BY <1>1, <2>1, <2>2, SameCallKeeps
  <2>6. QED BY <1>1, <2>3, <2>4, <2>5, PageKeeps
<1>5. QED BY <1>2, <1>3, <1>4

\* A request of the script page is answered, fails, or is refused.
LEMMA ScriptAnswerStep ==
    ASSUME ScInv, Generated \/ JobAnswered \/ ActFailed \/ ActRefused
    PROVE  ScInv'
<1>1. /\ UNCHANGED <<scriptPage, scriptWanted, scriptLoad, scriptHost, scriptJobs, softWish,
                      softPlan>>
      /\ scriptCall # Nil /\ CallIsOf /\ CallFits
  BY DEF Generated, JobAnswered, ActFailed, ActRefused, scriptForm, softVars, scriptBusy, ScInv
<1>2. CASE Generated
  <2>1. /\ UNCHANGED <<scriptJob, scriptPolls>> /\ scriptCall' = Nil
        /\ scriptCall.kind = "generate"
    BY <1>2 DEF Generated
  <2>2. scriptPage # "software" /\ (scriptWanted = Nil => scriptJob = NoJob)
    BY <1>1, <2>1 DEF CallIsOf, CallFits, Kinds
  <2>3. ShownFits' /\ PollsFit'
    BY <1>1, <2>1 DEF ScInv, ShownFits, PollsFit, IsAsked, Filed
  <2>4. PlaceFits'
    BY <1>1, <2>1, <2>2 DEF ScInv, PlaceFits
  <2>5. OfferIsShown'
    BY <1>1, <2>1, <2>2
       DEF ScInv, PlaceFits, OfferIsShown, ReviewedIsShown, PlanIsOfForm, NoJob, Job
  <2>6. QED BY <1>1, <2>1, <2>3, <2>4, <2>5, PageKeeps
<1>3. CASE JobAnswered
  <2>1. /\ UNCHANGED scriptForm /\ ShowJob(scriptCall.job) /\ scriptCall' = Nil
        /\ scriptCall.kind \in {"prepare", "run", "refetch"} /\ scriptCall.answer = "ok"
    BY <1>3 DEF JobAnswered
  <2>2. Filed(scriptJobs, scriptCall.job) /\ OnScreen(scriptCall.job)
    BY <1>1, <2>1 DEF CallIsOf, CallFits
  <2>3. scriptPage # "software" /\ scriptLoad # "hosts" /\ softPlan = Nil
    BY <1>1, <2>1 DEF CallIsOf, Kinds, ScInv, PlaceFits
  <2>4. scriptJob' = scriptCall.job
    BY <2>1 DEF ShowJob
  <2>5. ShownFits'
    BY <1>1, <2>2, <2>4 DEF ShownFits, Filed
  <2>6. PollsFit'
    <3>1. \A p \in scriptPolls' : p \in scriptPolls /\ scriptJob'.id = scriptJob.id
      BY <2>1, <2>4 DEF ShowJob, Watch
    <3>2. QED BY <1>1, <3>1 DEF ScInv, PollsFit, IsAsked, Filed
  <2>7. PlaceFits'
    BY <1>1, <2>3 DEF ScInv, PlaceFits
  <2>8. OfferIsShown'
    BY <1>1, <2>1, <2>2, <2>3, <2>4
       DEF OfferIsShown, ReviewedIsShown, PlanIsOfForm, OnScreen, scriptForm
  <2>9. QED BY <1>1, <2>1, <2>5, <2>6, <2>7, <2>8, PageKeeps
<1>4. CASE ActFailed \/ ActRefused
  <2>1. UNCHANGED scriptForm /\ UNCHANGED <<scriptJob, scriptPolls>> /\ UNCHANGED softVars
    BY <1>1, <1>4 DEF ActFailed, ActRefused, softVars
  <2>2. PollsFit'
    BY <1>1, <2>1 DEF ScInv, PollsFit, IsAsked, Filed
  <2>3. scriptLoad # "hosts"
    BY <1>1 DEF ScInv, PlaceFits
  <2>4. CASE ActFailed
    <3>1. /\ scriptCall' = IF scriptCall.kind = "run" THEN Ask("refetch", scriptCall.job) ELSE Nil
      BY <2>4 DEF ActFailed
    <3>2. CASE scriptCall.kind = "run"
      <4>1. /\ IsAsked(scriptCall') /\ scriptCall'.kind = "refetch"
            /\ scriptCall'.job = scriptCall.job
        BY <3>1, <3>2, AskedIs
      <4>2. Filed(scriptJobs, scriptCall.job) /\ OnScreen(scriptCall.job)
            /\ scriptPage # "software"
        BY <1>1, <3>2 DEF CallIsOf, CallFits, Kinds
      <4>3. CallIsOf'
        BY <1>1, <4>1, <4>2 DEF CallIsOf, Kinds, IsAsked, Filed
      <4>4. CallFits'
        BY <1>1, <2>1, <4>1, <4>2 DEF CallFits, OnScreen, scriptForm
      <4>5. QED BY <1>1, <2>1, <2>2, <2>3, <4>3, <4>4, SameJobKeeps
    <3>3. CASE scriptCall.kind # "run"
      <4>1. scriptCall' = Nil
        BY <3>1, <3>3
      <4>2. QED BY <1>1, <2>1, <2>2, <2>3, <4>1, SameJobKeeps
    <3>4. QED BY <3>2, <3>3
  <2>5. CASE ActRefused
    <3>1. scriptCall' = [kind |-> scriptCall.kind, job |-> scriptCall.job, answer |-> "failed"]
      <4>1. scriptCall' = [scriptCall EXCEPT !.answer = "failed"]
        BY <2>5, Zenon DEF ActRefused
      <4>2. IsAsked(scriptCall)
        BY <1>1 DEF CallIsOf
      <4>3. QED BY <4>1, <4>2, AnsweredIs, Zenon
    <3>2. CallIsOf'
      BY <1>1, <3>1 DEF CallIsOf, Kinds, IsAsked, Filed
    <3>3. CallFits'
      BY <1>1, <2>1, <3>1 DEF CallFits, OnScreen, scriptForm
    <3>4. QED BY <1>1, <2>1, <2>2, <2>3, <3>2, <3>3, SameJobKeeps
  <2>6. QED BY <1>4, <2>4, <2>5
<1>5. QED BY <1>2, <1>3, <1>4

\* The form and the buttons of the software page, and the plan they get.
LEMMA SoftwareStep ==
    ASSUME ScInv,
           \/ \E w \in Wishes : EditWish(w)
           \/ \E h \in Machines : ChooseSoftHost(h)
           \/ PreviewPlan \/ PrepareInstall \/ PlanAnswered
    PROVE  ScInv'
<1>1. /\ UNCHANGED <<scriptPage, scriptWanted, scriptLoad, scriptJob, scriptPolls, scriptJobs>>
      /\ scriptPage = "software"
  <2>1. PlanAnswered => scriptPage = "software"
    BY DEF PlanAnswered, ScInv, CallIsOf, Kinds, scriptBusy
  <2>2. QED BY <2>1 DEF EditWish, ChooseSoftHost, PreviewPlan, PrepareInstall, PlanAnswered
<1>2. scriptJob = NoJob /\ scriptWanted = Nil
  BY <1>1 DEF ScInv, PlaceFits
<1>3. ShownFits' /\ PollsFit'
  BY <1>1 DEF ScInv, ShownFits, PollsFit, IsAsked, Filed
<1>4. ReviewedIsShown'
  BY <1>1, <1>2 DEF ReviewedIsShown, NoJob, Job
<1>5. ASSUME PlanIsOfForm', scriptLoad = "hosts" => scriptHost' = Nil /\ softPlan' = Nil,
             scriptLoad = "hosts" => scriptCall' = Nil,
             scriptCall' # Nil => CallIsOf' /\ CallFits'
      PROVE  ScInv'
  <2>1. PlaceFits'
    BY <1>1, <1>2, <1>5 DEF ScInv, PlaceFits
  <2>2. OfferIsShown'
    BY <1>4, <1>5 DEF OfferIsShown
  <2>3. QED BY <1>1, <1>3, <1>5, <2>1, <2>2, PageKeeps
<1>6. CASE (\E w \in Wishes : EditWish(w)) \/ \E h \in Machines : ChooseSoftHost(h)
  <2>1. /\ scriptCall' = Nil /\ softPlan' = Nil
        /\ scriptHost' # scriptHost => scriptHost # Nil
    BY <1>6 DEF EditWish, ChooseSoftHost, scriptBusy, scriptForm
  <2>2. scriptLoad = "hosts" => scriptHost' = Nil
    BY <2>1 DEF ScInv, PlaceFits
  <2>3. QED BY <1>5, <2>1, <2>2 DEF PlanIsOfForm
<1>7. CASE PreviewPlan \/ PrepareInstall
  <2>1. /\ UNCHANGED <<scriptHost, scriptDraft, softWish>> /\ scriptHost # Nil
        /\ softPlan' \in {Nil, softPlan}
        /\ \E k \in {"plan", "install"} :
              scriptCall' = Ask(k, Job(Nil, softWish, scriptHost, "none"))
    BY <1>7 DEF PreviewPlan, PrepareInstall, scriptForm, softVars
  <2>2. /\ IsAsked(scriptCall') /\ scriptCall'.kind \in {"plan", "install"}
        /\ scriptCall'.job = Job(Nil, softWish, scriptHost, "none")
        /\ scriptCall'.answer = "asked"
    BY <2>1, AskedIs
  <2>3. CallIsOf'
    BY <1>1, <2>2 DEF CallIsOf, Kinds, IsAsked
  <2>4. CallFits'
    BY <2>1, <2>2 DEF CallFits, Job
  <2>5. PlanIsOfForm'
    BY <2>1 DEF ScInv, OfferIsShown, PlanIsOfForm
  <2>6. scriptLoad # "hosts"
    BY <2>1 DEF ScInv, PlaceFits
  <2>7. QED BY <1>5, <2>3, <2>4, <2>5, <2>6
<1>8. CASE PlanAnswered
  <2>1. /\ scriptCall # Nil /\ scriptCall.kind = "plan" /\ scriptCall' = Nil
        /\ softPlan' = [wish |-> scriptCall.job.draft, host |-> scriptCall.job.host]
        /\ UNCHANGED <<scriptHost, softWish>>
    BY <1>8 DEF PlanAnswered, scriptBusy, scriptForm
  <2>2. scriptCall.job.draft = softWish /\ scriptCall.job.host = scriptHost
    BY <2>1 DEF ScInv, CallFits
  <2>3. PlanIsOfForm'
    BY <2>1, <2>2 DEF PlanIsOfForm
  <2>4. scriptLoad # "hosts"
    BY <2>1 DEF ScInv, PlaceFits
  <2>5. QED BY <1>5, <2>1, <2>3, <2>4
<1>9. QED BY <1>6, <1>7, <1>8

\* To the script page, by its link or with a job to review.
LEMMA VisitStep ==
    ASSUME ScInv, VisitScripts \/ InstallReview
    PROVE  ScInv'
<1>1. /\ scriptPage' = "scripts" /\ scriptLoad' = "hosts" /\ scriptHost' = Nil
      /\ scriptCall' = Nil /\ softPlan' = Nil /\ UNCHANGED scriptJobs
  BY DEF VisitScripts, InstallReview, scriptBusy
<1>2. ShownFits' /\ PollsFit' /\ scriptJob' = NoJob
  <2>1. CASE VisitScripts
    <3>1. UNCHANGED <<scriptJob, scriptPolls>> /\ scriptJob = NoJob
      BY <2>1 DEF VisitScripts, ScInv, PlaceFits
    <3>2. QED BY <1>1, <3>1 DEF ScInv, ShownFits, PollsFit, IsAsked, Filed
  <2>2. CASE InstallReview
    <3>1. ShowJob(NoJob)
      BY <2>2 DEF InstallReview
    <3>2. QED BY <1>1, <3>1, NoJobStep
  <2>3. QED BY <2>1, <2>2
<1>3. scriptWanted' # Nil => scriptWanted' \in JobIds /\ scriptJobs[scriptWanted'].id = scriptWanted'
  <2>1. CASE VisitScripts
    BY <2>1 DEF VisitScripts
  <2>2. CASE InstallReview
    BY <2>2 DEF InstallReview, ScInv, CallIsOf, Filed, scriptBusy
  <2>3. QED BY <2>1, <2>2
<1>4. PlaceFits'
  BY <1>1, <1>2, <1>3 DEF PlaceFits
<1>5. OfferIsShown'
  BY <1>1, <1>2 DEF OfferIsShown, ReviewedIsShown, PlanIsOfForm, NoJob, Job
<1>6. QED BY <1>1, <1>2, <1>4, <1>5, PageKeeps

\* The backend keeps the draft and the machine of a job it has.
JobsKept == \A i \in JobIds :
    scriptJobs[i].id = i =>
        /\ scriptJobs'[i].id = i
        /\ scriptJobs'[i].draft = scriptJobs[i].draft
        /\ scriptJobs'[i].host = scriptJobs[i].host
JobsStep ==
    /\ BackJobs(scriptJobs') /\ JobsKept
    /\ UNCHANGED <<scriptPage, scriptWanted, scriptLoad, scriptForm, scriptJob, scriptPolls, softVars>>
LEMMA FiledStays ==
    ASSUME JobsStep, NEW job, Filed(scriptJobs, job)
    PROVE  Filed(scriptJobs', job)
BY DEF JobsStep, JobsKept, Filed

\* What the page has stands while the backend goes on.
LEMMA BackendKeeps ==
    ASSUME ScInv, JobsStep,
           scriptCall' # Nil => scriptCall # Nil /\ CallIsOf' /\ scriptCall'.kind = scriptCall.kind,
           scriptCall' # Nil /\ scriptCall.kind # "generate" =>
               /\ scriptCall'.job.draft = scriptCall.job.draft
               /\ scriptCall'.job.host = scriptCall.job.host
    PROVE  ScInv'
<1>1. /\ UNCHANGED <<scriptPage, scriptWanted, scriptLoad, scriptHost, scriptDraft, scriptJob,
                     scriptPolls, softWish, softPlan>>
      /\ BackJobs(scriptJobs') /\ JobsKept
  BY DEF JobsStep, scriptForm, softVars
<1>2. ShownFits'
  <2>1. scriptJob = NoJob \/ Filed(scriptJobs', scriptJob)
    BY FiledStays DEF ScInv, ShownFits
  <2>2. QED BY <1>1, <2>1 DEF ShownFits, Filed
<1>3. PollsFit'
  <2>1. \A p \in scriptPolls :
           IsAsked(p) /\ Filed(scriptJobs', p.job) /\ p.job.id = scriptJob.id
    BY FiledStays DEF ScInv, PollsFit
  <2>2. QED BY <1>1, <2>1 DEF PollsFit, IsAsked, Filed
<1>4. scriptCall' # Nil => CallIsOf' /\ CallFits'
  BY <1>1 DEF ScInv, CallFits, OnScreen
<1>5. PlaceFits'
  BY <1>1 DEF ScInv, PlaceFits, JobsKept
<1>6. OfferIsShown'
  BY <1>1 DEF ScInv, OfferIsShown, ReviewedIsShown, PlanIsOfForm
<1>7. QED BY <1>1, <1>2, <1>3, <1>4, <1>5, <1>6 DEF ScInv, BackJobs

\* A job gets on in the backend.
LEMMA JobStep ==
    ASSUME ScInv, NEW id \in JobIds, NEW state, scriptJobs[id].state # "none",
           scriptJobs' = [scriptJobs EXCEPT ![id].state = state]
    PROVE  /\ BackJobs(scriptJobs') /\ JobsKept
           /\ scriptJobs'[id] = Job(id, scriptJobs[id].draft, scriptJobs[id].host, state)
<1>1. /\ scriptJobs = [i \in JobIds |-> scriptJobs[i]]
      /\ \A i \in JobIds : scriptJobs[i] = NoJob \/ (IsJob(scriptJobs[i]) /\ scriptJobs[i].id = i)
  BY DEF ScInv, BackJobs
<1>2. IsJob(scriptJobs[id]) /\ scriptJobs[id].id = id
  BY <1>1 DEF NoJob, Job
<1> DEFINE new == [scriptJobs[id] EXCEPT !.state = state]
<1>3. new = Job(id, scriptJobs[id].draft, scriptJobs[id].host, state)
  BY <1>2, JobGoesOn, Zenon
<1>4. scriptJobs' = [scriptJobs EXCEPT ![id] = new]
  OBVIOUS
<1> HIDE DEF new
<1>5. scriptJobs' = [i \in JobIds |-> IF i = id THEN new ELSE scriptJobs[i]]
  BY <1>1, <1>4
<1>6. IsJob(new) /\ new.id = id /\ new.draft = scriptJobs[id].draft /\ new.host = scriptJobs[id].host
  BY <1>3 DEF IsJob, Job
<1>7. JobsKept
  BY <1>5, <1>6 DEF JobsKept
<1>8. BackJobs(scriptJobs')
  BY <1>1, <1>5, <1>6 DEF BackJobs
<1>9. QED BY <1>3, <1>5, <1>7, <1>8

\* A run starts, and ends with or without a request that waits for it.
LEMMA RunStep ==
    ASSUME ScInv, JobStarts \/ \E i \in JobIds, s \in Ended : JobEnds(i, s)
    PROVE  ScInv'
<1>1. UNCHANGED <<scriptPage, scriptWanted, scriptLoad, scriptForm, scriptJob, scriptPolls, softVars>>
  BY Zenon DEF JobStarts, JobEnds
<1>2. CASE JobStarts
  <2>1. /\ scriptCall # Nil /\ scriptCall.kind = "run" /\ scriptCall' = scriptCall
        /\ scriptJobs[scriptCall.job.id].state = "prepared"
        /\ scriptJobs' = [scriptJobs EXCEPT ![scriptCall.job.id].state = "running"]
    BY <1>2, Zenon DEF JobStarts, scriptBusy
  <2>2. CallIsOf
    BY <2>1 DEF ScInv
  <2>3. scriptCall.job.id \in JobIds
    BY <2>1, <2>2 DEF CallIsOf, Filed
  <2>4. JobsStep
    BY <1>1, <2>1, <2>3, JobStep DEF JobsStep
  <2>5. CallIsOf'
    <3>1. Filed(scriptJobs', scriptCall.job)
      BY <2>1, <2>2, <2>4, FiledStays DEF CallIsOf
    <3>2. QED BY <1>1, <2>1, <2>2, <3>1 DEF CallIsOf, Kinds, IsAsked, Filed
  <2>6. QED BY <2>1, <2>4, <2>5, BackendKeeps
<1>3. ASSUME NEW i \in JobIds, NEW s \in Ended, JobEnds(i, s)
      PROVE  ScInv'
  <2> DEFINE waits == /\ scriptBusy /\ scriptCall.kind = "run"
                      /\ scriptCall.answer = "asked" /\ scriptCall.job.id = i
  <2>1. /\ scriptJobs[i].state = "running"
        /\ scriptJobs' = [scriptJobs EXCEPT ![i].state = s]
        /\ scriptCall' = IF waits THEN [scriptCall EXCEPT !.answer = "ok", !.job = scriptJobs'[i]]
                         ELSE scriptCall
    BY <1>3, Zenon DEF JobEnds
  <2>2. /\ JobsStep
        /\ scriptJobs'[i] = Job(i, scriptJobs[i].draft, scriptJobs[i].host, s)
    BY <1>1, <2>1, JobStep DEF JobsStep
  <2>3. CASE waits
    <3>1. CallIsOf /\ scriptCall.kind = "run" /\ scriptCall.job.id = i /\ scriptCall # Nil
      BY <2>3 DEF ScInv, scriptBusy
    <3>2. scriptCall' = [kind |-> scriptCall.kind, job |-> scriptJobs'[i], answer |-> "ok"]
      <4>1. scriptCall' = [scriptCall EXCEPT !.answer = "ok", !.job = scriptJobs'[i]]
        BY <2>1, <2>3, Zenon
      <4>2. IsAsked(scriptCall)
        BY <3>1 DEF CallIsOf
      <4>3. QED BY <4>1, <4>2, AnsweredIs, Zenon
    <3>3. /\ Filed(scriptJobs', scriptJobs'[i])
          /\ scriptJobs'[i].draft = scriptCall.job.draft
          /\ scriptJobs'[i].host = scriptCall.job.host
      BY <2>2, <3>1 DEF CallIsOf, Filed, IsJob, Job
    <3>4. CallIsOf'
      BY <1>1, <3>1, <3>2, <3>3 DEF CallIsOf, Kinds, IsAsked, Filed
    <3>5. QED BY <2>2, <3>1, <3>2, <3>3, <3>4, BackendKeeps
  <2>4. CASE ~waits
    <3>1. scriptCall' = scriptCall
      BY <2>1, <2>4
    <3>2. scriptCall # Nil => CallIsOf'
      <4>1. ASSUME scriptCall # Nil PROVE CallIsOf'
        <5>1. CallIsOf
          BY <4>1 DEF ScInv
        <5>2. Filed(scriptJobs, scriptCall.job) => Filed(scriptJobs', scriptCall.job)
          BY <2>2, FiledStays
        <5>3. QED BY <1>1, <3>1, <5>1, <5>2 DEF CallIsOf, Kinds, IsAsked, Filed
      <4>2. QED BY <4>1
    <3>3. QED BY <2>2, <3>1, <3>2, BackendKeeps
  <2>5. QED BY <2>3, <2>4
<1>4. QED BY <1>2, <1>3

\* A free id takes a job.
LEMMA FileStep ==
    ASSUME ScInv, NEW id \in FreeIds, NEW draft, NEW host,
           scriptJobs' = [scriptJobs EXCEPT ![id] = Job(id, draft, host, "prepared")]
    PROVE  /\ BackJobs(scriptJobs') /\ JobsKept
           /\ Filed(scriptJobs', Job(id, draft, host, "prepared"))
<1> DEFINE new == Job(id, draft, host, "prepared")
<1>1. /\ scriptJobs = [i \in JobIds |-> scriptJobs[i]]
      /\ \A i \in JobIds : scriptJobs[i] = NoJob \/ (IsJob(scriptJobs[i]) /\ scriptJobs[i].id = i)
  BY DEF ScInv, BackJobs
<1>2. id \in JobIds /\ scriptJobs[id].id # id
  BY NilIsNoJob DEF FreeIds, NoJob, Job
<1>3. IsJob(new) /\ new.id = id
  BY DEF IsJob, Job
<1> HIDE DEF new
<1>4. scriptJobs' = [i \in JobIds |-> IF i = id THEN new ELSE scriptJobs[i]]
  BY <1>1 DEF new
<1>5. JobsKept
  BY <1>2, <1>4 DEF JobsKept
<1>6. BackJobs(scriptJobs')
  BY <1>1, <1>2, <1>3, <1>4 DEF BackJobs
<1>7. Filed(scriptJobs', new)
  BY <1>2, <1>3, <1>4 DEF Filed
<1>8. QED BY <1>5, <1>6, <1>7 DEF new

\* The backend serves a request of either page.
LEMMA ActStep ==
    ASSUME ScInv, NEW draft \in Drafts, ActServed(draft)
    PROVE  ScInv'
<1>1. /\ UNCHANGED <<scriptPage, scriptWanted, scriptLoad, scriptForm, scriptJob, scriptPolls,
                      softVars>>
      /\ scriptCall # Nil /\ scriptCall.answer = "asked"
  BY Zenon DEF ActServed, scriptBusy
<1>2. CallIsOf /\ IsAsked(scriptCall)
  BY <1>1 DEF ScInv, CallIsOf
<1>3. scriptJobs' = scriptJobs => JobsStep
  BY <1>1 DEF JobsStep, JobsKept, ScInv
<1>4. CASE /\ scriptCall.kind = "generate" /\ UNCHANGED scriptJobs
           /\ scriptCall' = [scriptCall EXCEPT !.answer = "ok", !.job.draft = draft]
  <2> DEFINE written == [scriptCall.job EXCEPT !.draft = draft]
  <2>1. scriptCall' = [scriptCall EXCEPT !.answer = "ok", !.job = written]
    BY <1>2, <1>4
  <2> HIDE DEF written
  <2>2. scriptCall' = [kind |-> scriptCall.kind, job |-> written, answer |-> "ok"]
    BY <1>2, <2>1, AnsweredIs, Zenon
  <2>3. CallIsOf'
    BY <1>1, <1>2, <1>4, <2>2 DEF CallIsOf, Kinds, IsAsked
  <2>4. QED BY <1>1, <1>3, <1>4, <2>2, <2>3, BackendKeeps
<1>5. CASE /\ scriptCall.kind \in {"prepare", "install"} /\ FreeIds # {}
           /\ LET id == CHOOSE i \in FreeIds : TRUE
                  job == Job(id, scriptCall.job.draft, scriptCall.job.host, "prepared")
              IN  /\ scriptJobs' = [scriptJobs EXCEPT ![id] = job]
                  /\ scriptCall' = [scriptCall EXCEPT !.answer = "ok", !.job = job]
  <2>1. PICK id \in FreeIds :
          /\ scriptJobs' = [scriptJobs EXCEPT
                ![id] = Job(id, scriptCall.job.draft, scriptCall.job.host, "prepared")]
          /\ scriptCall' = [scriptCall EXCEPT !.answer = "ok",
                !.job = Job(id, scriptCall.job.draft, scriptCall.job.host, "prepared")]
    BY <1>5, Zenon
  <2> DEFINE job == Job(id, scriptCall.job.draft, scriptCall.job.host, "prepared")
  <2>2. BackJobs(scriptJobs') /\ JobsKept /\ Filed(scriptJobs', job)
    BY <2>1, FileStep
  <2>3. job.draft = scriptCall.job.draft /\ job.host = scriptCall.job.host
    BY DEF Job
  <2> HIDE DEF job
  <2>4. scriptCall' = [kind |-> scriptCall.kind, job |-> job, answer |-> "ok"]
    BY <1>2, <2>1, AnsweredIs, Zenon DEF job
  <2>5. CallIsOf'
    BY <1>1, <1>2, <2>2, <2>4 DEF CallIsOf, Kinds, IsAsked, Filed
  <2>6. QED BY <1>1, <2>2, <2>3, <2>4, <2>5, BackendKeeps DEF JobsStep
<1>6. CASE /\ scriptCall.kind = "refetch" /\ UNCHANGED scriptJobs
           /\ scriptCall' = [scriptCall EXCEPT !.answer = "ok",
                                               !.job = scriptJobs[scriptCall.job.id]]
  <2> DEFINE job == scriptJobs[scriptCall.job.id]
  <2>1. Filed(scriptJobs, scriptCall.job)
    BY <1>2, <1>6 DEF CallIsOf
  <2>2. Filed(scriptJobs, job) /\ job.draft = scriptCall.job.draft /\ job.host = scriptCall.job.host
    BY <2>1, NilIsNoJob DEF ScInv, BackJobs, Filed, NoJob, Job
  <2> HIDE DEF job
  <2>3. scriptCall' = [kind |-> scriptCall.kind, job |-> job, answer |-> "ok"]
    BY <1>2, <1>6, AnsweredIs, Zenon DEF job
  <2>4. scriptJobs' = scriptJobs /\ scriptCall.kind = "refetch"
    BY <1>6, Zenon
  <2>5. CallIsOf'
    BY <1>1, <1>2, <2>2, <2>3, <2>4 DEF CallIsOf, Kinds, IsAsked, Filed
  <2>6. QED BY <1>1, <1>3, <2>2, <2>3, <2>4, <2>5, BackendKeeps
<1>7. CASE /\ scriptCall.kind = "plan" /\ UNCHANGED scriptJobs
           /\ scriptCall' = [scriptCall EXCEPT !.answer = "ok"]
  <2>1. scriptCall' = [kind |-> scriptCall.kind, job |-> scriptCall.job, answer |-> "ok"]
    BY <1>2, <1>7, AnsweredIs, Zenon
  <2>2. CallIsOf'
    BY <1>1, <1>2, <1>7, <2>1 DEF CallIsOf, Kinds, IsAsked
  <2>3. QED BY <1>1, <1>3, <1>7, <2>1, <2>2, BackendKeeps
<1>8. QED BY <1>4, <1>5, <1>6, <1>7, Zenon DEF ActServed

\* What the pages offer to run or to install is what they show, in whatever order
\* polls, answers and the job of the address come (invalidate, setPlan).
THEOREM OfferIsReal == ScSpec => []OfferIsShown
<1>1. ScriptInit => ScInv
  <2>1. ScriptInit => BackJobs(scriptJobs)
    BY DEF ScriptInit, BackJobs
  <2>2. ScriptInit => ShownFits /\ PollsFit /\ PlaceFits /\ scriptCall = Nil
    BY DEF ScriptInit, ShownFits, PollsFit, PlaceFits
  <2>3. ScriptInit => OfferIsShown
    BY DEF ScriptInit, OfferIsShown, ReviewedIsShown, PlanIsOfForm, NoJob, Job
  <2>4. QED BY <2>1, <2>2, <2>3 DEF ScInv
<1>2. ASSUME ScInv, [ScriptNext]_scriptVars
      PROVE  ScInv'
  <2>1. CASE ScriptUser
    BY <1>2, <2>1, ScriptStep, SoftwareStep, VisitStep DEF ScriptUser
  <2>2. CASE ScriptAnswers
    BY <1>2, <2>2, ActStep, RunStep, ScriptAnswerStep, SoftwareStep, VisitStep, LoadStep
       DEF ScriptAnswers
  <2>3. CASE ScriptJobsEnd
    BY <1>2, <2>3, RunStep DEF ScriptJobsEnd
  <2>4. CASE ScriptFaults
    BY <1>2, <2>4, PollStep, ScriptAnswerStep, LoadStep DEF ScriptFaults
  <2>5. CASE Poll \/ PollReaches \/ PollApplied
    BY <1>2, <2>5, PollStep
  <2>6. CASE UNCHANGED scriptVars
    <3>1. UNCHANGED <<scriptPage, scriptWanted, scriptLoad, scriptForm, scriptJob, scriptCall,
                      scriptPolls, scriptJobs, softVars>>
      BY <2>6 DEF scriptVars, scriptForm, softVars
    <3>2. PollsFit'
      BY <1>2, <3>1 DEF ScInv, PollsFit, IsAsked, Filed
    <3>3. scriptCall' # Nil => CallIsOf' /\ CallFits'
      BY <1>2, <3>1, SameCallKeeps
    <3>4. scriptLoad = "hosts" => scriptCall' = Nil
      BY <1>2, <3>1 DEF ScInv, PlaceFits
    <3>5. QED BY <1>2, <3>1, <3>2, <3>3, <3>4, SameJobKeeps
  <2>7. QED BY <1>2, <2>1, <2>2, <2>3, <2>4, <2>5, <2>6 DEF ScriptNext
<1>3. ScInv => OfferIsShown
  BY DEF ScInv
<1>4. QED BY <1>1, <1>2, <1>3, PTL DEF ScSpec

-----------------------------------------------------------------------------
(* The console *)

\* Opened with any conversations that are stored.
ChatStart == \E stored \in [Chats -> Vms \cup {Nil}] : ConsoleInit(stored)
ChSpec == ChatStart /\ [][ConsoleNext]_chatVars

Roles == {"user", "agent"}
Turns == [role : Roles, of : Chats \cup {Nil}, events : SUBSET Events]
ChatCalls ==
    [kind : {"list", "open"}, vm : Vms, want : Chats \cup {Nil}, version : Nat,
     answer : {"asked", "ok", "failed"}, rows : SUBSET Chats, log : Seq(Roles)]

ServerFits ==
    /\ chatOwner \in [Chats -> Vms \cup {Nil}]
    /\ chatStore \in [Chats -> Seq(Roles)]

\* A request is about a machine and its conversations; the one of the last choice is
\* the only one, and until its answer nothing is shown.
CallHolds(c) ==
    /\ c \in ChatCalls /\ c.version <= chatVersion
    /\ c.kind = "open" => c.want \in Chats /\ chatOwner[c.want] = c.vm
    /\ \A s \in c.rows : chatOwner[s] = c.vm
Awaited(c) ==
    c.vm = chatVm /\ chatLoading /\ chatTurns = <<>> /\ chatSid = Nil /\ chatRun = Nil
CallsHold ==
    /\ \A c \in chatCalls : CallHolds(c) /\ (Current(c) => Awaited(c))
    /\ \A c, d \in chatCalls : Current(c) /\ Current(d) => c = d

ScreenFits ==
    /\ chatVm \in Vms \cup {Nil} /\ chatSid \in Chats \cup {Nil}
    /\ chatActive \in [Vms -> Chats \cup {Nil}]
    /\ chatVersion \in Nat /\ chatProvider \in Providers
    /\ chatSid # Nil => chatVm # Nil
    /\ chatPhase = "loading" => chatVm = Nil
    /\ \A s \in chatRows : s \in Chats /\ chatVm # Nil /\ chatOwner[s] = chatVm
RunFits == chatRun # Nil => chatRun \in Runs /\ ~chatLoading

\* Only the last turn can still be working, and only as long as neither a summary nor
\* an error has come.
Verdicts == {"summary", "error"}
TurnsFit ==
    /\ chatTurns \in Seq(Turns)
    /\ \A i \in 1..Len(chatTurns) :
          Working(chatTurns[i]) => chatRun # Nil /\ i = Len(chatTurns)
    /\ chatRun # Nil /\ chatRun.stage \in Verdicts \cup {"done"} =>
          chatTurns # <<>> /\ chatTurns[Len(chatTurns)].events \cap Verdicts # {}
ChInv ==
    /\ ServerFits /\ CallsHold /\ ScreenFits /\ RunFits /\ TurnsFit
    /\ TurnsOfSession /\ ChatOfVm /\ RunStaysOnScreen

\* A conversation stays with its machine.
OwnersKept == \A s \in Chats : chatOwner[s] # Nil => chatOwner'[s] = chatOwner[s]

\* A new conversation is its machine's, and takes no other's place.
LEMMA NewOwner ==
    ASSUME ServerFits, Fresh # {}, NEW vm \in Vms, chatOwner' = [chatOwner EXCEPT ![NewId] = vm]
    PROVE  /\ NewId \in Chats /\ OwnersKept /\ chatOwner' \in [Chats -> Vms \cup {Nil}]
           /\ chatOwner'[NewId] = vm
<1>1. NewId \in Fresh
  BY DEF NewId
<1>2. QED BY <1>1 DEF Fresh, ServerFits, OwnersKept

\* Requests that stay under way are still about conversations of their machine.
LEMMA CallsStay ==
    ASSUME CallsHold, OwnersKept, chatVersion \in Nat, chatVersion' \in Nat,
           chatVersion <= chatVersion', NEW c \in chatCalls
    PROVE  CallHolds(c)'
<1>1. c \in ChatCalls /\ c.version <= chatVersion /\ c.vm \in Vms /\ c.version \in Nat
      /\ c.rows \subseteq Chats
  BY DEF CallsHold, CallHolds, ChatCalls
<1>2. c.kind = "open" => c.want \in Chats /\ chatOwner'[c.want] = c.vm
  BY <1>1, NilIsNoName DEF CallsHold, CallHolds, OwnersKept
<1>3. \A s \in c.rows : chatOwner'[s] = c.vm
  BY <1>1, NilIsNoName DEF CallsHold, CallHolds, OwnersKept
<1>4. QED BY <1>1, <1>2, <1>3 DEF CallHolds, ChatCalls

\* The screen without turns.
LEMMA NoTurns ==
    ASSUME chatTurns' = <<>>, chatRun' = Nil
    PROVE  TurnsFit' /\ TurnsOfSession'
BY DEF TurnsFit, TurnsOfSession

\* What the screen shows stays as long as its turns and its run do.
LEMMA SameTurns ==
    ASSUME TurnsFit, UNCHANGED <<chatTurns, chatRun>>
    PROVE  TurnsFit'
BY DEF TurnsFit, Turns, Working, Verdicts

\* A new request.
LEMMA NewCall ==
    ASSUME NEW kind \in {"list", "open"}, NEW vm \in Vms, NEW want \in Chats \cup {Nil},
           NEW version \in Nat
    PROVE  /\ Call(kind, vm, want, version) \in ChatCalls
           /\ Call(kind, vm, want, version).kind = kind
           /\ Call(kind, vm, want, version).vm = vm
           /\ Call(kind, vm, want, version).want = want
           /\ Call(kind, vm, want, version).version = version
           /\ Call(kind, vm, want, version).rows = {}
BY DEF Call, ChatCalls

\* The invariant, where the screen is emptied and nothing runs.
LEMMA EmptyScreen ==
    ASSUME chatTurns' = <<>>, chatRun' = Nil, ServerFits', CallsHold', ScreenFits', ChatOfVm'
    PROVE  ChInv'
BY NoTurns DEF ChInv, RunFits, RunStaysOnScreen

\* The invariant, where nothing but the requests and what is typed changes.
LEMMA SameScreen ==
    ASSUME ChInv,
           UNCHANGED <<chatPhase, chatVm, chatSid, chatTurns, chatRows, chatLoading, chatActive,
                       chatVersion, chatRun, chatServer>>,
           chatProvider' = chatProvider \/ (chatProvider' \in Providers /\ chatRun = Nil),
           \A d \in chatCalls' : CallHolds(d) /\ (Current(d) => Awaited(d)),
           \A d, e \in chatCalls' : Current(d) /\ Current(e) => d = e
    PROVE  ChInv'
<1>1. chatStore' = chatStore /\ chatOwner' = chatOwner
  BY DEF chatServer
<1>2. ServerFits' /\ ScreenFits'
  BY <1>1 DEF ChInv, ServerFits, ScreenFits
<1>3. CallsHold'
  BY <1>1 DEF CallsHold, CallHolds, ChatCalls, Current, Awaited
<1>4. RunFits' /\ RunStaysOnScreen'
  BY DEF ChInv, RunFits, Runs, RunStaysOnScreen
<1>5. TurnsFit' /\ TurnsOfSession' /\ ChatOfVm'
  BY <1>1, SameTurns DEF ChInv, TurnsOfSession, ChatOfVm
<1>6. QED BY <1>2, <1>3, <1>4, <1>5 DEF ChInv

\* The choice of a machine, by the user or by the address, and of a conversation: the
\* request takes a new number, which makes every other one outdated.
LEMMA ChooseStep ==
    ASSUME ChInv,
           \/ \E v \in Vms : ChooseVm(v)
           \/ \E v \in Vms, s \in Addressed : LoadConsole(v, s)
           \/ \E s \in Chats : ChooseChat(s)
    PROVE  ChInv'
<1>1. UNCHANGED <<chatStore, chatOwner, chatActive, chatProvider>>
  BY DEF ChooseVm, LoadConsole, ChooseChat, SelectVm, chatServer
<1>2. /\ chatTurns' = <<>> /\ chatSid' = Nil /\ chatLoading' /\ chatVersion' = chatVersion + 1
      /\ chatRun' = chatRun
  BY DEF ChooseVm, LoadConsole, ChooseChat, SelectVm
<1>3. chatRun = Nil
  <2>1. chatPhase = "loading" => chatRun = Nil
    BY NilIsNoName DEF ChInv, ScreenFits, RunFits, RunStaysOnScreen, Runs
  <2>2. QED BY <2>1 DEF ChooseVm, LoadConsole, ChooseChat, MayChooseChat, MayChooseVm
<1>4. ServerFits' /\ OwnersKept
  BY <1>1 DEF ChInv, ServerFits, OwnersKept
<1>5. \E kind \in {"list", "open"}, vm \in Vms, want \in Chats \cup {Nil} :
         /\ chatCalls' = chatCalls \cup {Call(kind, vm, want, chatVersion + 1)}
         /\ vm = chatVm' /\ (kind = "open" => want \in Chats /\ chatOwner[want] = vm)
  <2>1. CASE \/ \E v \in Vms : ChooseVm(v)
             \/ \E v \in Vms, s \in Addressed : LoadConsole(v, s)
    BY <2>1 DEF ChooseVm, LoadConsole, SelectVm, Addressed
  <2>2. CASE \E s \in Chats : ChooseChat(s)
    BY <2>2 DEF ChooseChat, MayChooseChat, ChInv, ScreenFits
  <2>3. QED BY <2>1, <2>2
<1>6. PICK kind \in {"list", "open"}, vm \in Vms, want \in Chats \cup {Nil} :
         /\ chatCalls' = chatCalls \cup {Call(kind, vm, want, chatVersion + 1)}
         /\ vm = chatVm' /\ (kind = "open" => want \in Chats /\ chatOwner[want] = vm)
  BY <1>5
<1> DEFINE new == Call(kind, vm, want, chatVersion + 1)
<1>7. chatVersion \in Nat
  BY DEF ChInv, ScreenFits
<1>8. /\ new \in ChatCalls /\ new.kind = kind /\ new.vm = vm /\ new.want = want
      /\ new.version = chatVersion + 1 /\ new.rows = {}
  BY <1>7, NewCall
<1>9. chatCalls' = chatCalls \cup {new}
  BY <1>6
<1> HIDE DEF new
<1>10. CallsHold'
  <2>1. \A c \in chatCalls : CallHolds(c)' /\ c.version <= chatVersion /\ c.version \in Nat
    BY <1>2, <1>4, <1>7, CallsStay DEF ChInv, CallsHold, CallHolds, ChatCalls
  <2>2. ASSUME NEW c, c = new PROVE CallHolds(c)'
    BY <1>1, <1>2, <1>6, <1>7, <1>8, <2>2 DEF CallHolds, ChatCalls
  <2>3. ASSUME NEW c, c = new PROVE Awaited(c)'
    BY <1>2, <1>3, <1>6, <1>8, <2>3 DEF Awaited
  <2>4. \A c \in chatCalls' : Current(c)' => c = new
    BY <1>2, <1>7, <1>8, <1>9, <2>1 DEF Current
  <2>5. QED BY <1>9, <2>1, <2>2, <2>3, <2>4 DEF CallsHold
<1>11. ScreenFits'
  <2>1. \A s \in chatRows' : s \in chatRows /\ chatVm' = chatVm
    BY DEF ChooseVm, LoadConsole, ChooseChat, SelectVm
  <2>2. chatPhase' # "loading"
    BY DEF ChooseVm, LoadConsole, ChooseChat, MayChooseChat, MayChooseVm
  <2>3. QED BY <1>1, <1>2, <1>6, <1>7, <2>1, <2>2 DEF ChInv, ScreenFits
<1>12. ChatOfVm'
  BY <1>1, <1>2 DEF ChInv, ChatOfVm
<1>13. QED BY <1>2, <1>3, <1>4, <1>10, <1>11, <1>12, EmptyScreen

\* A new conversation, by its button or because there is none to reopen.
LEMMA NewChatStep ==
    ASSUME ChInv, NewChat \/ \E c \in chatCalls : ListThenNew(c)
    PROVE  ChInv'
<1>1. PICK vm \in Vms :
        /\ vm = chatVm /\ Fresh # {} /\ chatSid' = NewId /\ chatTurns' = <<>> /\ chatRun' = Nil
        /\ chatActive' = [chatActive EXCEPT ![vm] = NewId]
        /\ chatOwner' = [chatOwner EXCEPT ![NewId] = vm]
        /\ UNCHANGED <<chatVm, chatStore, chatPhase, chatProvider>>
        /\ chatVersion' \in {chatVersion, chatVersion + 1} /\ chatCalls' \subseteq chatCalls
        /\ \A d \in chatCalls' : d.version # chatVersion'
        /\ \A s \in chatRows' : s \in Chats /\ chatOwner[s] = vm
  <2>1. CASE NewChat
    <3>1. chatVm \in Vms /\ chatRun = Nil
      BY <2>1 DEF NewChat, MayChooseChat, MayChooseVm, ChInv, ScreenFits
    <3>2. \A d \in chatCalls : d.version # chatVersion + 1
      BY DEF ChInv, CallsHold, CallHolds, ChatCalls, ScreenFits
    <3>3. \A s \in chatRows : s \in Chats /\ chatOwner[s] = chatVm
      BY DEF ChInv, ScreenFits
    <3>4. QED BY <2>1, <3>1, <3>2, <3>3 DEF NewChat
  <2>2. ASSUME NEW c \in chatCalls, ListThenNew(c)
        PROVE  \E vm \in Vms :
          /\ vm = chatVm /\ Fresh # {} /\ chatSid' = NewId /\ chatTurns' = <<>> /\ chatRun' = Nil
          /\ chatActive' = [chatActive EXCEPT ![vm] = NewId]
          /\ chatOwner' = [chatOwner EXCEPT ![NewId] = vm]
          /\ UNCHANGED <<chatVm, chatStore, chatPhase, chatProvider>>
          /\ chatVersion' \in {chatVersion, chatVersion + 1} /\ chatCalls' \subseteq chatCalls
          /\ \A d \in chatCalls' : d.version # chatVersion'
          /\ \A s \in chatRows' : s \in Chats /\ chatOwner[s] = vm
    <3>1. /\ Current(c) /\ Fresh # {} /\ chatRows' = c.rows /\ chatSid' = NewId
          /\ chatActive' = [chatActive EXCEPT ![c.vm] = NewId]
          /\ chatOwner' = [chatOwner EXCEPT ![NewId] = c.vm]
          /\ chatCalls' = chatCalls \ {c}
          /\ UNCHANGED <<chatVm, chatStore, chatPhase, chatProvider, chatTurns, chatVersion, chatRun>>
      BY <2>2 DEF ListThenNew
    <3>2. CallHolds(c) /\ Awaited(c) /\ c.vm \in Vms /\ c.rows \subseteq Chats
      BY <3>1 DEF ChInv, CallsHold, CallHolds, ChatCalls
    <3>3. \A d \in chatCalls' : d.version # chatVersion'
      BY <3>1 DEF ChInv, CallsHold, Current
    <3>4. \A s \in chatRows' : s \in Chats /\ chatOwner[s] = c.vm
      BY <3>1, <3>2 DEF CallHolds
    <3>5. c.vm = chatVm /\ chatTurns' = <<>> /\ chatRun' = Nil
      BY <3>1, <3>2 DEF Awaited
    <3>6. QED BY <3>1, <3>2, <3>3, <3>4, <3>5
  <2>3. QED BY <2>1, <2>2, Zenon
<1>2. /\ NewId \in Chats /\ OwnersKept /\ chatOwner' \in [Chats -> Vms \cup {Nil}]
      /\ chatOwner'[NewId] = vm
  BY <1>1, NewOwner DEF ChInv
<1>3. chatVersion \in Nat /\ chatVersion' \in Nat /\ chatVersion <= chatVersion'
  BY <1>1 DEF ChInv, ScreenFits
<1>4. ServerFits'
  BY <1>1, <1>2 DEF ChInv, ServerFits
<1>5. CallsHold'
  <2>1. \A c \in chatCalls' : CallHolds(c)'
    BY <1>1, <1>2, <1>3, CallsStay DEF ChInv
  <2>2. QED BY <1>1, <2>1 DEF CallsHold, Current
<1>6. ScreenFits'
  <2>1. \A s \in chatRows' : s \in Chats /\ chatOwner'[s] = vm
    BY <1>1, <1>2, NilIsNoName DEF OwnersKept
  <2>2. chatActive' \in [Vms -> Chats \cup {Nil}]
    BY <1>1, <1>2 DEF ChInv, ScreenFits
  <2>3. QED BY <1>1, <1>2, <1>3, <2>1, <2>2, NilIsNoName DEF ChInv, ScreenFits
<1>7. ChatOfVm'
  <2>1. chatOwner'[chatSid'] = chatVm'
    BY <1>1, <1>2
  <2>2. ASSUME NEW v \in Vms, chatActive'[v] # Nil PROVE chatOwner'[chatActive'[v]] = v
    <3>1. chatActive \in [Vms -> Chats \cup {Nil}] /\ (chatActive[v] # Nil => chatOwner[chatActive[v]] = v)
      BY DEF ChInv, ScreenFits, ChatOfVm
    <3>2. CASE v = vm
      BY <1>1, <1>2, <3>1, <3>2
    <3>3. CASE v # vm
      BY <1>1, <1>2, <2>2, <3>1, <3>3, NilIsNoName DEF OwnersKept
    <3>4. QED BY <3>2, <3>3
  <2>3. QED BY <2>1, <2>2 DEF ChatOfVm
<1>8. QED BY <1>1, <1>4, <1>5, <1>6, <1>7, EmptyScreen

\* The backend serves a request.
LEMMA ServeStep ==
    ASSUME ChInv, NEW c \in chatCalls, NEW ok \in BOOLEAN, ServeChats(c, ok)
    PROVE  ChInv'
<1>1. UNCHANGED <<chatPhase, chatProvider, chatVm, chatSid, chatTurns, chatRows, chatTyped, chatLoading,
                  chatFailed, chatActive, chatVersion, chatRun, chatPrompts, chatServer>>
  BY Zenon DEF ServeChats
<1> DEFINE rows == {s \in Chats : chatStore[s] # <<>> /\ chatOwner[s] = c.vm}
           fits == c.kind = "list" \/ c.want \in rows \/ chatStore[c.want] = <<>>
           served == [c EXCEPT !.answer = "ok",
                               !.rows = IF c.kind = "list" THEN rows ELSE {},
                               !.log = IF c.kind = "list" THEN <<>> ELSE chatStore[c.want]]
           refused == [c EXCEPT !.answer = "failed"]
<1>2. PICK new \in {served, refused} : chatCalls' = (chatCalls \ {c}) \cup {new}
  <2>1. chatCalls' = Serve(chatCalls, c, IF ok /\ fits THEN served ELSE refused)
    BY Zenon DEF ServeChats
  <2> HIDE DEF served, refused, fits
  <2>2. QED BY <2>1 DEF Serve
<1>3. CallHolds(c) /\ (Current(c) => Awaited(c))
  BY DEF ChInv, CallsHold
<1>4. /\ new \in ChatCalls /\ new.kind = c.kind /\ new.vm = c.vm /\ new.want = c.want
      /\ new.version = c.version /\ new.rows \subseteq c.rows \cup rows
  <2>1. c \in ChatCalls /\ rows \subseteq Chats
    BY <1>3 DEF CallHolds
  <2>2. CASE new = refused
    <3> HIDE DEF served, rows
    <3>1. QED BY <2>1, <2>2 DEF ChatCalls
  <2>3. CASE new = served
    <3> DEFINE shown == IF c.kind = "list" THEN rows ELSE {}
               read == IF c.kind = "list" THEN <<>> ELSE chatStore[c.want]
    <3>1. shown \subseteq rows
      OBVIOUS
    <3>2. read \in Seq(Roles)
      <4>1. c.kind # "list" => c.want \in Chats
        BY <1>3 DEF CallHolds, ChatCalls
      <4>2. QED BY <4>1 DEF ChInv, ServerFits
    <3>3. new = [c EXCEPT !.answer = "ok", !.rows = shown, !.log = read]
      BY <2>3, Zenon
    <3> HIDE DEF shown, read, served, refused, rows
    <3>4. QED BY <2>1, <3>1, <3>2, <3>3 DEF ChatCalls
  <2>4. QED BY <2>2, <2>3
<1> HIDE DEF served, refused, fits
<1>5. CallHolds(new) /\ (Current(new) => Awaited(new))
  BY <1>3, <1>4 DEF CallHolds, Current, Awaited
<1> HIDE DEF rows
<1>6. \A d \in chatCalls' : CallHolds(d) /\ (Current(d) => Awaited(d))
  BY <1>2, <1>5 DEF ChInv, CallsHold
<1>7. \A d, e \in chatCalls' : Current(d) /\ Current(e) => d = e
  BY <1>2, <1>4 DEF ChInv, CallsHold, Current
<1>8. QED BY <1>1, <1>6, <1>7, SameScreen

\* A failed or outdated answer is dropped; the text, the provider and the failure to
\* load change nothing that is on the screen.
LEMMA DropStep ==
    ASSUME ChInv,
           \/ \E c \in chatCalls : DropAnswer(c)
           \/ TypePrompt \/ LoadConsoleFails \/ \E p \in Providers : ChooseProvider(p)
    PROVE  ChInv'
<1>1. /\ UNCHANGED <<chatVm, chatSid, chatTurns, chatRows, chatActive, chatVersion, chatRun>>
      /\ UNCHANGED <<chatStore, chatOwner>>
      /\ chatProvider' = chatProvider \/ (chatProvider' \in Providers /\ chatRun = Nil)
      /\ chatPhase' = "loading" => chatPhase = "loading"
  BY DEF DropAnswer, TypePrompt, LoadConsoleFails, ChooseProvider, chatServer
<1>2. /\ chatCalls' \subseteq chatCalls
      /\ chatLoading' = chatLoading \/ (~chatLoading' /\ \A d \in chatCalls' : ~Current(d))
  <2>1. CASE \E c \in chatCalls : DropAnswer(c)
    BY <2>1 DEF DropAnswer, ChInv, CallsHold
  <2>2. CASE TypePrompt \/ LoadConsoleFails \/ \E p \in Providers : ChooseProvider(p)
    BY <2>2 DEF TypePrompt, LoadConsoleFails, ChooseProvider
  <2>3. QED BY <2>1, <2>2
<1>3. ServerFits' /\ ScreenFits'
  BY <1>1 DEF ChInv, ServerFits, ScreenFits
<1>4. CallsHold'
  <2>1. \A d \in chatCalls' : CallHolds(d)'
    BY <1>1, <1>2 DEF ChInv, CallsHold, CallHolds, ChatCalls
  <2>2. \A d \in chatCalls' : Current(d)' => Awaited(d)'
    BY <1>1, <1>2 DEF ChInv, CallsHold, Current, Awaited
  <2>3. \A d, e \in chatCalls' : Current(d)' /\ Current(e)' => d = e
    BY <1>1, <1>2 DEF ChInv, CallsHold, Current
  <2>4. QED BY <2>1, <2>2, <2>3 DEF CallsHold
<1>5. RunFits' /\ RunStaysOnScreen'
  <2>1. chatRun # Nil => chatRun \in Runs /\ ~chatLoading'
    BY <1>2 DEF ChInv, RunFits
  <2>2. QED BY <1>1, <2>1 DEF ChInv, RunFits, Runs, RunStaysOnScreen
<1>6. TurnsFit' /\ TurnsOfSession' /\ ChatOfVm'
  BY <1>1, SameTurns DEF ChInv, TurnsOfSession, ChatOfVm
<1>7. QED BY <1>3, <1>4, <1>5, <1>6 DEF ChInv

\* The list arrives and one of its conversations is asked for, under the same number.
LEMMA ReopenStep ==
    ASSUME ChInv, NEW c \in chatCalls, ListThenOpen(c)
    PROVE  ChInv'
<1> DEFINE previous == IF c.want # Nil THEN c.want ELSE chatActive[c.vm]
           new == Call("open", c.vm, previous, c.version)
<1>1. /\ Current(c) /\ previous \in c.rows /\ chatRows' = c.rows
      /\ chatLoading' /\ chatTurns' = <<>> /\ chatSid' = Nil
      /\ chatCalls' = (chatCalls \ {c}) \cup {new}
      /\ UNCHANGED <<chatPhase, chatProvider, chatVm, chatActive, chatVersion, chatRun>>
      /\ UNCHANGED <<chatStore, chatOwner>>
  BY DEF ListThenOpen, chatServer
<1>2. /\ CallHolds(c) /\ Awaited(c)
      /\ c.vm \in Vms /\ c.rows \subseteq Chats /\ c.version \in Nat
  BY <1>1 DEF ChInv, CallsHold, CallHolds, ChatCalls
<1>3. previous \in Chats /\ chatOwner[previous] = c.vm
  BY <1>1, <1>2 DEF CallHolds
<1> HIDE DEF previous
<1>4. /\ new \in ChatCalls /\ new.kind = "open" /\ new.vm = c.vm /\ new.want = previous
      /\ new.version = c.version /\ new.rows = {}
  BY <1>2, <1>3, NewCall
<1> HIDE DEF new
<1>5. CallsHold'
  <2>1. CallHolds(new)
    BY <1>2, <1>3, <1>4 DEF CallHolds
  <2>2. \A d \in chatCalls' : CallHolds(d) /\ (Current(d) => d = new)
    BY <1>1, <2>1 DEF ChInv, CallsHold
  <2>3. \A d \in chatCalls' : CallHolds(d)'
    BY <1>1, <2>2 DEF CallHolds, ChatCalls
  <2>4. c.vm = chatVm /\ chatRun = Nil
    BY <1>2 DEF Awaited
  <2>5. \A d \in chatCalls' : Current(d)' => d = new /\ Awaited(d)'
    BY <1>1, <1>4, <2>2, <2>4 DEF Awaited, Current
  <2>6. QED BY <2>3, <2>5 DEF CallsHold
<1>6. ServerFits' /\ ScreenFits'
  <2>1. \A s \in chatRows' : s \in Chats /\ chatVm # Nil /\ chatOwner[s] = chatVm
    BY <1>1, <1>2, NilIsNoName DEF Awaited, CallHolds
  <2>2. QED BY <1>1, <2>1 DEF ChInv, ServerFits, ScreenFits
<1>7. ChatOfVm' /\ chatRun' = Nil
  BY <1>1, <1>2 DEF ChInv, ChatOfVm, Awaited
<1>8. QED BY <1>1, <1>5, <1>6, <1>7, EmptyScreen

\* The messages arrive: what is shown is a finished conversation of the machine.
LEMMA ShowStep ==
    ASSUME ChInv, NEW c \in chatCalls, ShowChat(c)
    PROVE  ChInv'
<1>1. /\ c.kind = "open" /\ Current(c) /\ chatSid' = c.want
      /\ chatActive' = [chatActive EXCEPT ![c.vm] = c.want]
      /\ chatTurns' = Replay(c.want, c.log) /\ chatCalls' = chatCalls \ {c}
      /\ UNCHANGED <<chatPhase, chatProvider, chatVm, chatRows, chatVersion, chatRun>>
      /\ UNCHANGED <<chatStore, chatOwner>>
  BY DEF ShowChat, chatServer
<1>2. /\ CallHolds(c) /\ Awaited(c)
      /\ c.vm \in Vms /\ c.log \in Seq(Roles)
  BY <1>1 DEF ChInv, CallsHold, CallHolds, ChatCalls
<1>3. /\ c.want \in Chats /\ chatOwner[c.want] = c.vm
      /\ c.vm = chatVm /\ chatRun = Nil
  BY <1>1, <1>2 DEF CallHolds, Awaited
<1>4. TurnsFit' /\ TurnsOfSession'
  <2>1. DOMAIN c.log = 1..Len(c.log) /\ Len(c.log) \in Nat /\ \A i \in 1..Len(c.log) : c.log[i] \in Roles
    BY <1>2
  <2>2. \A i \in 1..Len(c.log) :
           /\ Replay(c.want, c.log)[i] \in Turns /\ ~Working(Replay(c.want, c.log)[i])
           /\ Replay(c.want, c.log)[i].of = c.want
    BY <1>3, <2>1 DEF Replay, Turn, Turns, Roles, Events, Working
  <2>3. Replay(c.want, c.log) = [i \in 1..Len(c.log) |-> Replay(c.want, c.log)[i]]
    BY <2>1 DEF Replay
  <2> DEFINE turns == Replay(c.want, c.log)
  <2> HIDE DEF turns
  <2>4. turns \in Seq(Turns) /\ Len(turns) = Len(c.log)
    <3>1. turns = [i \in 1..Len(c.log) |-> turns[i]] /\ \A i \in 1..Len(c.log) : turns[i] \in Turns
      BY <2>2, <2>3 DEF turns
    <3>2. turns \in [1..Len(c.log) -> Turns]
      BY <3>1
    <3>3. QED BY <2>1, <3>2
  <2>5. \A i \in 1..Len(turns) : ~Working(turns[i]) /\ turns[i].of = c.want
    BY <2>2, <2>4 DEF turns
  <2>6. chatTurns' = turns /\ chatRun' = Nil /\ chatSid' = c.want
    BY <1>1, <1>3 DEF turns
  <2>7. TurnsFit'
    BY <2>4, <2>5, <2>6 DEF TurnsFit, Turns, Working
  <2>8. TurnsOfSession'
    BY <2>4, <2>5, <2>6 DEF TurnsOfSession
  <2>9. QED BY <2>7, <2>8
<1>5. CallsHold'
  <2>1. \A d \in chatCalls' : CallHolds(d) /\ ~Current(d)
    BY <1>1 DEF ChInv, CallsHold
  <2>2. \A d \in chatCalls' : CallHolds(d)' /\ ~Current(d)'
    BY <1>1, <2>1 DEF CallHolds, ChatCalls, Current
  <2>3. QED BY <2>2 DEF CallsHold
<1>6. ServerFits' /\ ScreenFits'
  <2>1. ServerFits'
    BY <1>1 DEF ChInv, ServerFits
  <2>2. chatActive' \in [Vms -> Chats \cup {Nil}] /\ chatVm # Nil
    BY <1>1, <1>2, <1>3, NilIsNoName DEF ChInv, ScreenFits
  <2>3. ScreenFits'
    BY <1>1, <1>3, <2>2 DEF ChInv, ScreenFits
  <2>4. QED BY <2>1, <2>3
<1>7. ChatOfVm'
  BY <1>1, <1>3 DEF ChInv, ChatOfVm, ScreenFits
<1>8. RunFits' /\ RunStaysOnScreen'
  BY <1>1, <1>3 DEF RunFits, RunStaysOnScreen
<1>9. QED BY <1>4, <1>5, <1>6, <1>7, <1>8 DEF ChInv

\* The first n turns.
LEMMA FirstTurns ==
    ASSUME NEW s \in Seq(Turns), NEW n \in 0..Len(s)
    PROVE  /\ SubSeq(s, 1, n) \in Seq(Turns) /\ Len(SubSeq(s, 1, n)) = n
           /\ \A i \in 1..n : SubSeq(s, 1, n)[i] = s[i]
OBVIOUS

\* An event joins the last turn, and a summary or an error stops its wheel.
LEMMA JoinStep ==
    ASSUME ChInv, chatRun # Nil, NEW event \in Events, Append1(event)
    PROVE  /\ chatTurns' \in Seq(Turns) /\ chatTurns' # <<>>
           /\ \A i \in 1..Len(chatTurns') :
                 /\ Working(chatTurns'[i]) => i = Len(chatTurns')
                 /\ chatTurns'[i].of = chatSid
           /\ event \in Verdicts \/ chatRun.stage \in Verdicts =>
                 chatTurns'[Len(chatTurns')].events \cap Verdicts # {}
<1>1. /\ chatTurns \in Seq(Turns) /\ chatRun.sid = chatSid /\ chatSid \in Chats \cup {Nil}
      /\ \A i \in 1..Len(chatTurns) :
            chatTurns[i].of = chatSid /\ (Working(chatTurns[i]) => i = Len(chatTurns))
      /\ chatRun.stage \in Verdicts =>
            chatTurns # <<>> /\ chatTurns[Len(chatTurns)].events \cap Verdicts # {}
  BY DEF ChInv, TurnsFit, TurnsOfSession, RunStaysOnScreen, ScreenFits
<1>2. ASSUME NEW before \in Seq(Turns), NEW old \in SUBSET Events,
             Len(before) <= Len(chatTurns),
             Len(before) < Len(chatTurns) \/ before = <<>>,
             \A i \in 1..Len(before) : before[i] = chatTurns[i],
             chatRun.stage \in Verdicts => old \cap Verdicts # {},
             chatTurns' = Append(before, Turn("agent", chatRun.sid, old \cup {event}))
      PROVE  /\ chatTurns' \in Seq(Turns) /\ chatTurns' # <<>>
             /\ \A i \in 1..Len(chatTurns') :
                   /\ Working(chatTurns'[i]) => i = Len(chatTurns')
                   /\ chatTurns'[i].of = chatSid
             /\ event \in Verdicts \/ chatRun.stage \in Verdicts =>
                   chatTurns'[Len(chatTurns')].events \cap Verdicts # {}
  <2> DEFINE turn == Turn("agent", chatRun.sid, old \cup {event})
  <2>1. turn \in Turns /\ turn.of = chatSid /\ turn.events = old \cup {event}
    BY <1>1 DEF Turn, Turns, Roles
  <2> HIDE DEF turn
  <2>2. /\ chatTurns' = Append(before, turn) /\ Len(before) \in Nat /\ Len(chatTurns) \in Nat
    BY <1>1, <1>2 DEF turn
  <2>3. /\ chatTurns' \in Seq(Turns) /\ Len(chatTurns') = Len(before) + 1
        /\ chatTurns'[Len(before) + 1] = turn
        /\ \A i \in 1..Len(before) : chatTurns'[i] = before[i]
    BY <2>1, <2>2
  <2>4. ASSUME NEW i \in 1..Len(chatTurns')
        PROVE  /\ Working(chatTurns'[i]) => i = Len(chatTurns')
               /\ chatTurns'[i].of = chatSid
    <3>1. CASE i = Len(before) + 1
      BY <2>1, <2>3, <3>1
    <3>2. CASE i # Len(before) + 1
      <4>1. i \in 1..Len(before) /\ Len(before) < Len(chatTurns)
        BY <1>2, <2>2, <2>3, <2>4, <3>2
      <4>2. i \in 1..Len(chatTurns) /\ i # Len(chatTurns) /\ chatTurns'[i] = chatTurns[i]
        BY <1>2, <2>2, <2>3, <4>1
      <4>3. QED BY <1>1, <4>2
    <3>3. QED BY <3>1, <3>2
  <2>5. chatTurns' # <<>>
    BY <2>2, <2>3
  <2>6. QED BY <1>2, <2>1, <2>3, <2>4, <2>5
<1>3. CASE chatTurns = <<>>
  <2>1. \E before \in Seq(Turns) : before = <<>> /\ Len(before) = 0
    <3>1. <<>> \in Seq(Turns) /\ Len(<<>>) = 0
      OBVIOUS
    <3>2. QED BY <3>1, Zenon
  <2> PICK before \in Seq(Turns) : before = <<>> /\ Len(before) = 0
    BY <2>1
  <2>2. PICK old \in SUBSET Events : old = {}
    OBVIOUS
  <2>3. chatTurns' = Append(before, Turn("agent", chatRun.sid, old \cup {event}))
    BY <1>3, <2>2 DEF Append1
  <2>4. chatRun.stage \notin Verdicts /\ Len(chatTurns) = 0
    BY <1>1, <1>3
  <2>5. /\ Len(before) <= Len(chatTurns) /\ \A i \in 1..Len(before) : before[i] = chatTurns[i]
    BY <2>4
  <2>6. QED BY <1>2, <2>3, <2>4, <2>5
<1>4. CASE chatTurns # <<>>
  <2> DEFINE n == Len(chatTurns)
             before == SubSeq(chatTurns, 1, n - 1)
             old == chatTurns[n].events
  <2>1. n \in Nat /\ n > 0 /\ n - 1 \in 0..n
    BY <1>1, <1>4
  <2>2. chatTurns' = Append(before, Turn("agent", chatRun.sid, old \cup {event}))
    BY <1>4 DEF Append1, Last, Front
  <2>3. /\ before \in Seq(Turns) /\ Len(before) = n - 1
        /\ \A i \in 1..(n - 1) : before[i] = chatTurns[i]
    BY <1>1, <2>1, FirstTurns
  <2>4. old \in SUBSET Events
    <3>1. chatTurns[n] \in Turns
      BY <1>1, <2>1
    <3>2. QED BY <3>1 DEF Turns
  <2>5. chatRun.stage \in Verdicts => old \cap Verdicts # {}
    BY <1>1
  <2> HIDE DEF before, old
  <2>6. Len(before) <= Len(chatTurns) /\ Len(before) < Len(chatTurns)
    BY <2>1, <2>3
  <2>7. \A i \in 1..Len(before) : before[i] = chatTurns[i]
    BY <2>3
  <2>8. QED BY <1>2, <2>2, <2>3, <2>4, <2>5, <2>6, <2>7
<1>5. QED BY <1>3, <1>4

\* A prompt is sent: its two turns are of the conversation on the screen.
LEMMA SubmitStep ==
    ASSUME ChInv, Submit
    PROVE  ChInv'
<1>1. /\ chatVm # Nil /\ chatSid # Nil /\ chatRun = Nil /\ ~chatLoading
      /\ chatRows' = chatRows \cup {chatSid}
      /\ chatTurns' = chatTurns \o <<Turn("user", chatSid, {}), Turn("agent", chatSid, {})>>
      /\ chatRun' = [vm |-> chatVm, sid |-> chatSid, provider |-> chatProvider, stage |-> "asked"]
      /\ UNCHANGED <<chatPhase, chatProvider, chatVm, chatSid, chatLoading, chatActive, chatVersion,
                     chatCalls>>
      /\ UNCHANGED <<chatStore, chatOwner>>
  BY DEF Submit, MaySubmit, chatServer
<1>2. chatVm \in Vms /\ chatSid \in Chats /\ chatOwner[chatSid] = chatVm /\ chatProvider \in Providers
  BY <1>1 DEF ChInv, ScreenFits, ChatOfVm
<1>3. RunFits' /\ RunStaysOnScreen'
  BY <1>1, <1>2 DEF RunFits, RunStaysOnScreen, Runs
<1>4. /\ chatTurns \in Seq(Turns)
      /\ \A i \in 1..Len(chatTurns) : chatTurns[i].of = chatSid /\ ~Working(chatTurns[i])
  BY <1>1 DEF ChInv, TurnsFit, TurnsOfSession
<1> DEFINE mine == Turn("user", chatSid, {})
           its == Turn("agent", chatSid, {})
<1>5. /\ mine \in Turns /\ its \in Turns /\ mine.of = chatSid /\ its.of = chatSid /\ ~Working(mine)
  BY <1>2 DEF Turn, Turns, Roles, Working
<1> HIDE DEF mine, its
<1>6. chatTurns' = chatTurns \o <<mine, its>>
  BY <1>1 DEF mine, its
<1>7. /\ chatTurns' \in Seq(Turns) /\ Len(chatTurns') = Len(chatTurns) + 2 /\ Len(chatTurns) \in Nat
      /\ \A i \in 1..Len(chatTurns) : chatTurns'[i] = chatTurns[i]
      /\ chatTurns'[Len(chatTurns) + 1] = mine /\ chatTurns'[Len(chatTurns) + 2] = its
  BY <1>4, <1>5, <1>6
<1>8. ASSUME NEW i \in 1..Len(chatTurns')
      PROVE  chatTurns'[i].of = chatSid /\ (Working(chatTurns'[i]) => i = Len(chatTurns'))
  <2>1. i \in 1..Len(chatTurns) \/ i = Len(chatTurns) + 1 \/ i = Len(chatTurns) + 2
    BY <1>7
  <2>2. QED BY <1>4, <1>5, <1>7, <2>1
<1>9. TurnsFit'
  <2>1. chatRun' # Nil
    BY <1>1, <1>2, NilIsNoRun DEF Runs
  <2>2. QED BY <1>1, <1>7, <1>8, <2>1 DEF TurnsFit, Working, Verdicts, Turns, Events
<1>10. TurnsOfSession'
  <2>1. DOMAIN chatTurns' = 1..Len(chatTurns')
    BY <1>7
  <2>2. QED BY <1>1, <1>8, <2>1 DEF TurnsOfSession
<1>11. CallsHold'
  <2>1. \A c \in chatCalls : CallHolds(c) /\ ~Current(c)
    BY <1>1 DEF ChInv, CallsHold, Awaited
  <2>2. QED BY <1>1, <2>1 DEF CallsHold, CallHolds, ChatCalls, Current
<1>12. ServerFits' /\ ScreenFits' /\ ChatOfVm'
  BY <1>1, <1>2 DEF ChInv, ServerFits, ScreenFits, ChatOfVm
<1>13. QED BY <1>3, <1>9, <1>10, <1>11, <1>12 DEF ChInv

\* A run that goes on, or ends, touches the store, its stage and the turns.
LEMMA RunGoesOn ==
    ASSUME ChInv, chatRun # Nil,
           UNCHANGED <<chatPhase, chatProvider, chatVm, chatSid, chatRows, chatLoading, chatActive,
                       chatVersion, chatCalls, chatOwner>>,
           chatStore' \in [Chats -> Seq(Roles)],
           chatRun' # Nil =>
              /\ chatRun' \in Runs /\ chatRun'.vm = chatRun.vm /\ chatRun'.sid = chatRun.sid
              /\ chatRun'.provider = chatRun.provider,
           TurnsFit', TurnsOfSession'
    PROVE  ChInv'
<1>1. ServerFits' /\ ScreenFits' /\ ChatOfVm'
  BY DEF ChInv, ServerFits, ScreenFits, ChatOfVm
<1>2. \A c \in chatCalls : CallHolds(c) /\ ~Current(c)
  BY DEF ChInv, CallsHold, Awaited
<1>3. CallsHold'
  BY <1>2 DEF CallsHold, CallHolds, ChatCalls, Current
<1>4. RunFits' /\ RunStaysOnScreen'
  BY DEF ChInv, RunFits, Runs, RunStaysOnScreen
<1>5. QED BY <1>1, <1>3, <1>4 DEF ChInv

\* The next stage of a run.
LEMMA NextStageIs ==
    ASSUME NEW stage \in {"asked", "session"} \cup Events, chatRun \in Runs
    PROVE  /\ [chatRun EXCEPT !.stage = stage] \in Runs
           /\ [chatRun EXCEPT !.stage = stage] # Nil
           /\ [chatRun EXCEPT !.stage = stage].vm = chatRun.vm
           /\ [chatRun EXCEPT !.stage = stage].sid = chatRun.sid
           /\ [chatRun EXCEPT !.stage = stage].provider = chatRun.provider
           /\ [chatRun EXCEPT !.stage = stage].stage = stage
<1> DEFINE new == [chatRun EXCEPT !.stage = stage]
<1>1. /\ new \in Runs /\ new.vm = chatRun.vm /\ new.sid = chatRun.sid
      /\ new.provider = chatRun.provider /\ new.stage = stage
  BY DEF Runs
<1>2. QED BY <1>1, NilIsNoRun

\* The turns fit as an event joins them and the run goes on.
LEMMA TurnsGoOn ==
    ASSUME ChInv, chatRun # Nil, NEW event \in Events, Append1(event), chatSid' = chatSid,
           chatRun' = Nil => event = "error",
           chatRun' # Nil /\ chatRun'.stage \in Verdicts \cup {"done"} =>
              event \in Verdicts \/ chatRun.stage \in Verdicts
    PROVE  TurnsFit' /\ TurnsOfSession'
<1>1. /\ chatTurns' \in Seq(Turns) /\ chatTurns' # <<>>
      /\ \A i \in 1..Len(chatTurns') :
            /\ Working(chatTurns'[i]) => i = Len(chatTurns')
            /\ chatTurns'[i].of = chatSid
      /\ event \in Verdicts \/ chatRun.stage \in Verdicts =>
            chatTurns'[Len(chatTurns')].events \cap Verdicts # {}
  BY JoinStep
<1>2. chatRun' = Nil => \A i \in 1..Len(chatTurns') : ~Working(chatTurns'[i])
  <2>1. chatRun' = Nil => chatTurns'[Len(chatTurns')].events \cap Verdicts # {}
    BY <1>1 DEF Verdicts
  <2>2. \A i \in 1..Len(chatTurns') :
           chatTurns'[i].events \cap Verdicts # {} => ~Working(chatTurns'[i])
    BY DEF Working, Verdicts
  <2>3. QED BY <1>1, <2>1, <2>2
<1>3. TurnsFit'
  BY <1>1, <1>2 DEF TurnsFit, Turns, Working, Verdicts
<1>4. TurnsOfSession'
  <2>1. DOMAIN chatTurns' = 1..Len(chatTurns')
    BY <1>1
  <2>2. \A i \in 1..Len(chatTurns') : chatTurns'[i].of = chatSid
    BY <1>1, Zenon
  <2>3. QED BY <2>1, <2>2, Zenon DEF TurnsOfSession
<1>5. QED BY <1>3, <1>4

\* The stream: it begins, brings an event, ends or breaks.
LEMMA StreamStep ==
    ASSUME ChInv,
           StreamBegins \/ (\E e \in Events : StreamEvent(e)) \/ StreamEnds \/ StreamBreaks
    PROVE  ChInv'
<1>1. /\ chatRun # Nil
      /\ UNCHANGED <<chatPhase, chatProvider, chatVm, chatRows, chatLoading, chatActive,
                     chatVersion, chatCalls, chatOwner>>
  BY DEF StreamBegins, StreamEvent, StreamEnds, StreamBreaks, chatServer
<1>2. /\ chatRun \in Runs /\ chatRun.sid \in Chats /\ chatRun.sid = chatSid
      /\ chatStore \in [Chats -> Seq(Roles)]
  BY <1>1 DEF ChInv, RunFits, Runs, RunStaysOnScreen, ServerFits
<1>3. CASE StreamBegins
  <2>1. CASE chatStore[chatRun.sid] = <<>> \/ chatOwner[chatRun.sid] = chatRun.vm
    <3>1. /\ chatStore' = [chatStore EXCEPT ![chatRun.sid] = Append(chatStore[chatRun.sid], "user")]
          /\ chatSid' = chatRun.sid /\ chatTurns' = chatTurns
      BY <1>3, <2>1 DEF StreamBegins
    <3>2. chatRun' = [chatRun EXCEPT !.stage = "session"]
      BY <1>3, <2>1, Zenon DEF StreamBegins
    <3>3. /\ chatRun' \in Runs /\ chatRun' # Nil /\ chatRun'.vm = chatRun.vm
          /\ chatRun'.sid = chatRun.sid /\ chatRun'.provider = chatRun.provider
          /\ chatRun'.stage = "session"
      BY <1>2, <3>2, NextStageIs
    <3>4. chatStore' \in [Chats -> Seq(Roles)]
      BY <1>2, <3>1 DEF Roles
    <3>5. TurnsFit'
      BY <1>1, <3>1, <3>3 DEF ChInv, TurnsFit, Turns, Working, Verdicts
    <3>6. TurnsOfSession'
      BY <1>2, <3>1 DEF ChInv, TurnsOfSession
    <3>7. chatSid' = chatSid
      BY <1>2, <3>1
    <3>8. QED BY <1>1, <3>3, <3>4, <3>5, <3>6, <3>7, RunGoesOn
  <2>2. CASE ~(chatStore[chatRun.sid] = <<>> \/ chatOwner[chatRun.sid] = chatRun.vm)
    <3>1. Append1("error") /\ chatStore' = chatStore /\ chatSid' = chatSid
      BY <1>3, <2>2 DEF StreamBegins
    <3>2. chatRun' = [chatRun EXCEPT !.stage = "done"]
      BY <1>3, <2>2, Zenon DEF StreamBegins
    <3>3. /\ chatRun' \in Runs /\ chatRun' # Nil /\ chatRun'.vm = chatRun.vm
          /\ chatRun'.sid = chatRun.sid /\ chatRun'.provider = chatRun.provider
      BY <1>2, <3>2, NextStageIs DEF Events
    <3>4. TurnsFit' /\ TurnsOfSession'
      BY <1>1, <3>1, <3>3, TurnsGoOn DEF Events, Verdicts
    <3>5. QED BY <1>1, <1>2, <3>1, <3>3, <3>4, RunGoesOn
  <2>3. QED BY <2>1, <2>2
<1>4. ASSUME NEW event \in Events, StreamEvent(event)
      PROVE  ChInv'
  <2>1. /\ event \in After(chatRun.stage) /\ Append1(event) /\ chatSid' = chatSid
        /\ chatStore' = IF event \in {"summary", "error"}
                        THEN [chatStore EXCEPT ![chatRun.sid] = Append(chatStore[chatRun.sid], "agent")]
                        ELSE chatStore
    BY <1>4 DEF StreamEvent
  <2>2. chatRun' = [chatRun EXCEPT !.stage = event]
    BY <1>4, Zenon DEF StreamEvent
  <2>3. /\ chatRun' \in Runs /\ chatRun' # Nil /\ chatRun'.vm = chatRun.vm
        /\ chatRun'.sid = chatRun.sid /\ chatRun'.provider = chatRun.provider
        /\ chatRun'.stage = event
    BY <1>2, <2>2, NextStageIs
  <2>4. event = "done" => chatRun.stage \in Verdicts
    BY <2>1 DEF After, Verdicts
  <2>5. TurnsFit' /\ TurnsOfSession'
    BY <1>1, <2>1, <2>3, <2>4, TurnsGoOn
  <2>6. chatStore' \in [Chats -> Seq(Roles)]
    BY <1>2, <2>1 DEF Roles
  <2>7. QED BY <1>1, <2>1, <2>3, <2>5, <2>6, RunGoesOn
<1>5. CASE StreamEnds
  <2>1. chatRun.stage = "done" /\ chatRun' = Nil /\ UNCHANGED <<chatTurns, chatSid, chatStore>>
    BY <1>5 DEF StreamEnds, chatServer
  <2>2. \A i \in 1..Len(chatTurns) : ~Working(chatTurns[i])
    <3>1. \A i \in 1..Len(chatTurns) :
             chatTurns[i].events \cap Verdicts # {} => ~Working(chatTurns[i])
      BY DEF Working, Verdicts
    <3>2. QED BY <1>1, <2>1, <3>1 DEF ChInv, TurnsFit
  <2>3. TurnsFit'
    BY <2>1, <2>2 DEF ChInv, TurnsFit, Turns, Working
  <2>4. TurnsOfSession'
    BY <2>1 DEF ChInv, TurnsOfSession
  <2>5. QED BY <1>1, <1>2, <2>1, <2>3, <2>4, RunGoesOn
<1>6. CASE StreamBreaks
  <2>1. Append1("error") /\ chatRun' = Nil /\ UNCHANGED <<chatSid, chatStore>>
    BY <1>6 DEF StreamBreaks, chatServer
  <2>2. TurnsFit' /\ TurnsOfSession'
    BY <1>1, <2>1, TurnsGoOn DEF Events
  <2>3. QED BY <1>1, <1>2, <2>1, <2>2, RunGoesOn
<1>7. QED BY <1>3, <1>4, <1>5, <1>6

\* The console opens empty, over the conversations that are stored.
LEMMA ConsoleStart == ChatStart => ChInv
<1> SUFFICES ASSUME NEW stored \in [Chats -> Vms \cup {Nil}], ConsoleInit(stored) PROVE ChInv
  BY DEF ChatStart
<1>1. ServerFits
  <2>1. <<>> \in Seq(Roles) /\ <<"user", "agent">> \in Seq(Roles)
    BY DEF Roles
  <2>2. QED BY <2>1 DEF ConsoleInit, ServerFits
<1>2. ScreenFits
  BY ChatBounds DEF ConsoleInit, ScreenFits
<1>3. CallsHold /\ RunFits /\ TurnsFit /\ TurnsOfSession /\ ChatOfVm /\ RunStaysOnScreen
  BY DEF ConsoleInit, CallsHold, RunFits, TurnsFit, TurnsOfSession, ChatOfVm, RunStaysOnScreen
<1>4. QED BY <1>1, <1>2, <1>3 DEF ChInv

\* What the console shows is of the machine and the conversation chosen and of the
\* prompt that runs, however late answers and events come (selectHost, openChat, submit).
THEOREM ConsoleIsReal == ChSpec => []ConsoleHolds
<1>1. ChatStart => ChInv
  BY ConsoleStart
<1>2. ASSUME ChInv, [ConsoleNext]_chatVars
      PROVE  ChInv'
  <2>1. CASE ChatUser
    BY <1>2, <2>1, ChooseStep, NewChatStep, DropStep, SubmitStep DEF ChatUser
  <2>2. CASE ChatAnswers
    <3>1. CASE \E c \in chatCalls : \E ok \in BOOLEAN : ServeChats(c, ok)
      BY <1>2, <3>1, ServeStep
    <3>2. CASE \E c \in chatCalls : ListThenOpen(c)
      BY <1>2, <3>2, ReopenStep
    <3>3. CASE \E c \in chatCalls : ShowChat(c)
      BY <1>2, <3>3, ShowStep
    <3>4. QED BY <1>2, <2>2, <3>1, <3>2, <3>3, ChooseStep, DropStep, NewChatStep, StreamStep
                 DEF ChatAnswers
  <2>3. CASE UNCHANGED chatVars
    <3>1. /\ UNCHANGED <<chatPhase, chatVm, chatSid, chatTurns, chatRows, chatLoading, chatActive,
                         chatVersion, chatRun, chatServer, chatCalls>>
          /\ chatProvider' = chatProvider
      BY <2>3 DEF chatVars, chatServer
    <3>2. /\ \A d \in chatCalls' : CallHolds(d) /\ (Current(d) => Awaited(d))
          /\ \A d, e \in chatCalls' : Current(d) /\ Current(e) => d = e
      BY <1>2, <3>1 DEF ChInv, CallsHold
    <3>3. QED BY <1>2, <3>1, <3>2, SameScreen
  <2>4. QED BY <1>2, <2>1, <2>2, <2>3 DEF ConsoleNext
<1>3. ChInv => ConsoleHolds
  <2>1. ChInv => WheelsStop
    <3>1. ChInv => DOMAIN chatTurns = 1..Len(chatTurns)
      BY DEF ChInv, TurnsFit
    <3>2. QED BY <3>1 DEF ChInv, TurnsFit, WheelsStop
  <2>2. QED BY <2>1 DEF ChInv, ConsoleHolds
<1>4. QED BY <1>1, <1>2, <1>3, PTL DEF ChSpec
===============================================================================
