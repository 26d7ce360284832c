-------------------------------- MODULE Console -------------------------------
(***************************************************************************)
(* The chat console (ui/app/page.tsx) and the part of the chat store it    *)
(* sees.  Choosing a machine loads its conversations and perhaps one of    *)
(* them; each choice takes a new number, and an answer is applied only     *)
(* under the number it was asked with.  A submitted prompt is answered by  *)
(* a stream of events that arrive one at a time while the user goes on.    *)
(***************************************************************************)
EXTENDS Browser

CONSTANTS
    Vms, Chats, Providers,
    MaxChoices,  \* bound: choices of a machine or a conversation
    MaxPrompts   \* bound: prompts sent
ASSUME ChatBounds == MaxChoices \in Nat /\ MaxPrompts \in Nat /\ Providers # {}
ASSUME NilIsNoName == Nil \notin Vms /\ Nil \notin Chats

VARIABLES
    chatPhase,    \* "loading", "online" or "offline"
    chatProvider,
    chatVm, chatSid, chatTurns, chatRows, chatTyped, chatLoading, chatFailed,
    chatActive,   \* activeChats: the conversation last used on each machine
    chatVersion,  \* selection
    chatCalls,    \* the requests of selectHost and openChat under way
    chatRun,      \* the request of submit, Nil when nothing is running
    chatStore,    \* backend: the messages of each conversation
    chatOwner,    \* the machine a conversation was created for
    chatPrompts   \* bound: prompts sent so far

chatVars == <<chatPhase, chatProvider, chatVm, chatSid, chatTurns, chatRows, chatTyped, chatLoading,
              chatFailed, chatActive, chatVersion, chatCalls, chatRun, chatStore,
              chatOwner, chatPrompts>>
chatServer == <<chatStore, chatOwner>>

Events == {"thinking", "tool", "summary", "error", "done"}

\* The request of submit, and how far its stream got.
Runs == [vm : Vms, sid : Chats, provider : Providers, stage : {"asked", "session"} \cup Events]
ASSUME NilIsNoRun == Nil \notin Runs

\* A turn names the conversation its contents come from.
Turn(role, sid, events) == [role |-> role, of |-> sid, events |-> events]
Call(kind, vm, want, version) ==
    [kind |-> kind, vm |-> vm, want |-> want, version |-> version,
     answer |-> "asked", rows |-> {}, log |-> <<>>]

\* The turns a saved conversation is shown as.
Replay(sid, log) ==
    [i \in DOMAIN log |-> Turn(log[i], sid, IF log[i] = "agent" THEN {"summary"} ELSE {})]

\* createSessionId: an id nobody used.
Fresh == {c \in Chats : chatOwner[c] = Nil}
NewId == CHOOSE c \in Fresh : TRUE

ConsoleInit(stored) ==
    /\ chatPhase = "loading"
    /\ chatProvider = CHOOSE p \in Providers : TRUE
    /\ chatVm = Nil /\ chatSid = Nil /\ chatTurns = <<>> /\ chatRows = {}
    /\ chatTyped = FALSE /\ chatLoading = FALSE /\ chatFailed = FALSE
    /\ chatActive = [v \in Vms |-> Nil]
    /\ chatVersion = 0 /\ chatCalls = {} /\ chatRun = Nil /\ chatPrompts = 0
    /\ chatOwner = stored
    /\ chatStore = [c \in Chats |-> IF stored[c] = Nil THEN <<>> ELSE <<"user", "agent">>]

-----------------------------------------------------------------------------
(* What is rendered *)

\* The list of machines is enabled.
MayChooseVm == chatPhase = "online" /\ chatRun = Nil /\ chatVersion < MaxChoices
\* The list of conversations and the button for a new one are enabled.
MayChooseChat == MayChooseVm /\ ~chatLoading /\ chatVm # Nil

\* The guard of submit, which the Enter key reaches past the disabled button.
MaySubmit ==
    /\ chatTyped /\ chatVm # Nil /\ chatSid # Nil
    /\ chatRun = Nil /\ ~chatLoading /\ chatPrompts < MaxPrompts

\* A turn of the agent is shown with a turning wheel.
Working(turn) ==
    /\ turn.role = "agent"
    /\ turn.events = {} \/ ("thinking" \in turn.events
                            /\ turn.events \cap {"summary", "error"} = {})

\* The turn the panel of live activity lists.
Latest ==
    LET agents == SelectSeq(chatTurns, LAMBDA t : t.role = "agent")
    IN  IF agents = <<>> THEN {} ELSE agents[Len(agents)].events

-----------------------------------------------------------------------------
(* Choosing a machine and a conversation *)

\* selectHost up to its first await.
SelectVm(vm, want) ==
    /\ chatVersion' = chatVersion + 1
    /\ chatVm' = vm /\ chatTurns' = <<>> /\ chatRows' = {} /\ chatTyped' = FALSE
    /\ chatSid' = Nil /\ chatFailed' = FALSE /\ chatLoading' = TRUE
    /\ chatCalls' = chatCalls \cup {Call("list", vm, want, chatVersion + 1)}

\* The session, the machines and the providers are there; the address may
\* name a machine and a conversation.
LoadConsole(vm, want) ==
    /\ chatPhase = "loading"
    /\ chatPhase' = "online"
    /\ SelectVm(vm, want)
    /\ UNCHANGED <<chatProvider, chatActive, chatRun, chatPrompts, chatServer>>

LoadConsoleFails ==
    /\ chatPhase = "loading"
    /\ chatPhase' = "offline"
    /\ UNCHANGED <<chatProvider, chatVm, chatSid, chatTurns, chatRows, chatTyped, chatLoading, chatFailed,
                   chatActive, chatVersion, chatCalls, chatRun, chatPrompts, chatServer>>

ChooseVm(vm) ==
    /\ MayChooseVm
    /\ SelectVm(vm, Nil)
    /\ UNCHANGED <<chatPhase, chatProvider, chatActive, chatRun, chatPrompts, chatServer>>

ChooseChat(sid) ==
    /\ MayChooseChat /\ sid \in chatRows
    /\ chatVersion' = chatVersion + 1
    /\ chatLoading' = TRUE /\ chatFailed' = FALSE /\ chatTurns' = <<>> /\ chatSid' = Nil
    /\ chatCalls' = chatCalls \cup {Call("open", chatVm, sid, chatVersion + 1)}
    /\ UNCHANGED <<chatPhase, chatProvider, chatVm, chatRows, chatTyped, chatActive, chatRun, chatPrompts,
                   chatServer>>

NewChat ==
    /\ MayChooseChat /\ Fresh # {}
    /\ chatVersion' = chatVersion + 1
    /\ chatSid' = NewId
    /\ chatActive' = [chatActive EXCEPT ![chatVm] = NewId]
    /\ chatOwner' = [chatOwner EXCEPT ![NewId] = chatVm]
    /\ chatTurns' = <<>> /\ chatTyped' = FALSE /\ chatFailed' = FALSE /\ chatLoading' = FALSE
    /\ UNCHANGED <<chatPhase, chatProvider, chatVm, chatRows, chatCalls, chatRun, chatPrompts, chatStore>>

\* The providers' buttons go out during a run.
ChooseProvider(provider) ==
    /\ chatPhase = "online" /\ chatRun = Nil
    /\ chatProvider' = provider
    /\ UNCHANGED <<chatPhase, chatVm, chatSid, chatTurns, chatRows, chatTyped, chatLoading,
                   chatFailed, chatActive, chatVersion, chatCalls, chatRun, chatPrompts,
                   chatServer>>

\* The text becomes a prompt, or is deleted again.
TypePrompt ==
    /\ chatTyped' = ~chatTyped
    /\ UNCHANGED <<chatPhase, chatProvider, chatVm, chatSid, chatTurns, chatRows, chatLoading, chatFailed,
                   chatActive, chatVersion, chatCalls, chatRun, chatPrompts, chatServer>>

\* The backend lists the conversations of the machine, or the messages of one
\* of them, none for an unknown one; it refuses one of another machine.
ServeChats(c, ok) ==
    /\ c \in Open(chatCalls)
    /\ LET rows == {s \in Chats : chatStore[s] # <<>> /\ chatOwner[s] = c.vm}
           fits == c.kind = "list" \/ c.want \in rows \/ chatStore[c.want] = <<>>
       IN  chatCalls' = Serve(chatCalls, c,
             IF ok /\ fits
             THEN [c EXCEPT !.answer = "ok",
                            !.rows = IF c.kind = "list" THEN rows ELSE {},
                            !.log = IF c.kind = "list" THEN <<>> ELSE chatStore[c.want]]
             ELSE [c EXCEPT !.answer = "failed"])
    /\ UNCHANGED <<chatPhase, chatProvider, chatVm, chatSid, chatTurns, chatRows, chatTyped, chatLoading,
                   chatFailed, chatActive, chatVersion, chatRun, chatPrompts, chatServer>>

\* Faulty variant of Current: an answer is applied whatever was chosen since.
CurrentAlways(c) == TRUE
\* The answer belongs to the last choice.
Current(c) == c.version = chatVersion

\* A failed or outdated answer; only the first is shown.
DropAnswer(c) ==
    /\ c \in Answered(chatCalls) /\ (c.answer = "failed" \/ ~Current(c))
    /\ chatCalls' = chatCalls \ {c}
    /\ IF Current(c) THEN chatFailed' = TRUE /\ chatLoading' = FALSE
       ELSE UNCHANGED <<chatFailed, chatLoading>>
    /\ UNCHANGED <<chatPhase, chatProvider, chatVm, chatSid, chatTurns, chatRows, chatTyped, chatActive,
                   chatVersion, chatRun, chatPrompts, chatServer>>

\* The list arrived, and the conversation to reopen is one of it.
ListThenOpen(c) ==
    LET previous == IF c.want # Nil THEN c.want ELSE chatActive[c.vm]
    IN  /\ c \in chatCalls /\ c.kind = "list" /\ c.answer = "ok" /\ Current(c)
        /\ previous \in c.rows
        /\ chatRows' = c.rows
        /\ chatLoading' = TRUE /\ chatFailed' = FALSE /\ chatTurns' = <<>> /\ chatSid' = Nil
        /\ chatCalls' = (chatCalls \ {c}) \cup {Call("open", c.vm, previous, c.version)}
        /\ UNCHANGED <<chatPhase, chatProvider, chatVm, chatTyped, chatActive, chatVersion, chatRun,
                       chatPrompts, chatServer>>

\* The list arrived and a new conversation begins.
ListThenNew(c) ==
    LET previous == IF c.want # Nil THEN c.want ELSE chatActive[c.vm]
    IN  /\ c \in chatCalls /\ c.kind = "list" /\ c.answer = "ok" /\ Current(c)
        /\ previous \notin c.rows /\ Fresh # {}
        /\ chatRows' = c.rows /\ chatLoading' = FALSE
        /\ chatSid' = NewId
        /\ chatActive' = [chatActive EXCEPT ![c.vm] = NewId]
        /\ chatOwner' = [chatOwner EXCEPT ![NewId] = c.vm]
        /\ chatCalls' = chatCalls \ {c}
        /\ UNCHANGED <<chatPhase, chatProvider, chatVm, chatTurns, chatTyped, chatFailed, chatVersion,
                       chatRun, chatPrompts, chatStore>>

\* The messages arrived.
ShowChat(c) ==
    /\ c \in chatCalls /\ c.kind = "open" /\ c.answer = "ok" /\ Current(c)
    /\ chatSid' = c.want
    /\ chatActive' = [chatActive EXCEPT ![c.vm] = c.want]
    /\ chatTurns' = Replay(c.want, c.log)
    /\ chatLoading' = FALSE
    /\ chatCalls' = chatCalls \ {c}
    /\ UNCHANGED <<chatPhase, chatProvider, chatVm, chatRows, chatTyped, chatFailed, chatVersion, chatRun,
                   chatPrompts, chatServer>>

-----------------------------------------------------------------------------
(* A prompt and the stream that answers it *)

Submit ==
    /\ MaySubmit
    /\ chatRows' = chatRows \cup {chatSid}
    /\ chatTyped' = FALSE
    /\ chatTurns' = chatTurns \o <<Turn("user", chatSid, {}), Turn("agent", chatSid, {})>>
    /\ chatRun' = [vm |-> chatVm, sid |-> chatSid, provider |-> chatProvider,
                   stage |-> "asked"]
    /\ chatPrompts' = chatPrompts + 1
    /\ UNCHANGED <<chatPhase, chatProvider, chatVm, chatSid, chatLoading, chatFailed, chatActive,
                   chatVersion, chatCalls, chatServer>>

\* The event joins the last turn, whatever that is by now.
Append1(event) ==
    LET old == IF chatTurns = <<>> THEN {} ELSE Last(chatTurns).events
        before == IF chatTurns = <<>> THEN <<>> ELSE Front(chatTurns)
    IN  chatTurns' = Append(before, Turn("agent", chatRun.sid, old \cup {event}))

\* The backend accepts the prompt, files it and names the conversation; one
\* that belongs to another machine is refused with an event.
StreamBegins ==
    /\ chatRun # Nil /\ chatRun.stage = "asked"
    /\ IF chatStore[chatRun.sid] = <<>> \/ chatOwner[chatRun.sid] = chatRun.vm
       THEN /\ chatStore' = [chatStore EXCEPT ![chatRun.sid] = Append(@, "user")]
            /\ chatSid' = chatRun.sid
            /\ chatRun' = [chatRun EXCEPT !.stage = "session"]
            /\ UNCHANGED chatTurns
       ELSE /\ Append1("error")
            /\ chatRun' = [chatRun EXCEPT !.stage = "done"]
            /\ UNCHANGED <<chatStore, chatSid>>
    /\ UNCHANGED <<chatPhase, chatProvider, chatVm, chatRows, chatTyped, chatLoading, chatFailed, chatActive,
                   chatVersion, chatCalls, chatPrompts, chatOwner>>

\* The stages of the stream; a summary or an error is filed before it is sent.
After(stage) ==
    CASE stage = "session"  -> {"thinking", "summary", "error"}
      [] stage = "thinking" -> {"tool", "summary", "error"}
      [] stage = "tool"     -> {"summary", "error"}
      [] stage \in {"summary", "error"} -> {"done"}
      [] OTHER -> {}

StreamEvent(event) ==
    /\ chatRun # Nil /\ event \in After(chatRun.stage)
    /\ Append1(event)
    /\ chatRun' = [chatRun EXCEPT !.stage = event]
    /\ chatStore' = IF event \in {"summary", "error"}
                    THEN [chatStore EXCEPT ![chatRun.sid] = Append(@, "agent")]
                    ELSE chatStore
    /\ UNCHANGED <<chatPhase, chatProvider, chatVm, chatSid, chatRows, chatTyped, chatLoading, chatFailed,
                   chatActive, chatVersion, chatCalls, chatPrompts, chatOwner>>

\* The stream is over: running goes out.
StreamEnds ==
    /\ chatRun # Nil /\ chatRun.stage = "done"
    /\ chatRun' = Nil
    /\ UNCHANGED <<chatPhase, chatProvider, chatVm, chatSid, chatTurns, chatRows, chatTyped, chatLoading,
                   chatFailed, chatActive, chatVersion, chatCalls, chatPrompts, chatServer>>

\* The request is refused or the connection lost, before or during the stream.
StreamBreaks ==
    /\ chatRun # Nil
    /\ Append1("error")
    /\ chatRun' = Nil
    /\ UNCHANGED <<chatPhase, chatProvider, chatVm, chatSid, chatRows, chatTyped, chatLoading, chatFailed,
                   chatActive, chatVersion, chatCalls, chatPrompts, chatServer>>

-----------------------------------------------------------------------------
ChatUser ==
    \/ \E v \in Vms : ChooseVm(v)
    \/ \E s \in Chats : ChooseChat(s)
    \/ NewChat
    \/ \E p \in Providers : ChooseProvider(p)
    \/ TypePrompt
    \/ Submit

\* An address that names no stored conversation is as good as none.
Addressed == {Nil} \cup {c \in Chats : chatOwner[c] # Nil}

ChatAnswers ==
    \/ \E v \in Vms, s \in Addressed : LoadConsole(v, s)
    \/ LoadConsoleFails
    \/ \E c \in chatCalls : (\E ok \in BOOLEAN : ServeChats(c, ok)) \/ DropAnswer(c)
                            \/ ListThenOpen(c) \/ ListThenNew(c) \/ ShowChat(c)
    \/ StreamBegins
    \/ \E e \in Events : StreamEvent(e)
    \/ StreamEnds
    \/ StreamBreaks

ConsoleNext == ChatUser \/ ChatAnswers

-----------------------------------------------------------------------------
(* Properties *)

\* Every turn on the screen, and with it the panel of live activity, is of
\* the conversation that the next prompt will continue; without one nothing is
\* shown (setTurns and setSessionId in selectHost, openChat and submit).
TurnsOfSession == \A i \in DOMAIN chatTurns : chatTurns[i].of = chatSid

\* The conversation on the screen was created for the machine on the screen,
\* and so was the one remembered for each machine (activeChats).
ChatOfVm ==
    /\ chatSid # Nil => chatOwner[chatSid] = chatVm
    /\ \A v \in Vms : chatActive[v] # Nil => chatOwner[chatActive[v]] = v

\* A prompt under way, and the answer being written to the screen, are of the
\* machine, the conversation and the provider on the screen: what could change
\* them is disabled.
RunStaysOnScreen ==
    chatRun # Nil =>
        chatRun.vm = chatVm /\ chatRun.sid = chatSid /\ chatRun.provider = chatProvider

\* When nothing is running no turn is shown as still working: every stream
\* ends with a summary or an error, or the handler adds one (Events).
WheelsStop == chatRun = Nil => \A i \in DOMAIN chatTurns : ~Working(chatTurns[i])

\* Every wait ends: the notice of a loading conversation and the state of a
\* running prompt (setLoadingChat and setRunning in the finally branches).
ConsoleSettles == []<>(~chatLoading /\ chatRun = Nil)

\* The console in every state: whatever answers come late, what is on screen is of
\* the machine and the conversation chosen, and of the prompt that runs.
ConsoleHolds == TurnsOfSession /\ ChatOfVm /\ RunStaysOnScreen /\ WheelsStop
===============================================================================
