----------------------------- MODULE ChatTurns ------------------------------
(***************************************************************************)
(* The turns of the chat UI: the state chatReducer and ChatShell keep of    *)
(* them, and the handlers behind Send, Stop and the thread list.            *)
(*                                                                         *)
(* The UI learns of a turn twice: from the answers to its HTTP requests and *)
(* from the event stream.  The stream delivers in order (UiEventStream), an *)
(* HTTP answer comes when it comes, or never: a request the page has given  *)
(* up may still be executed.  The server side (BFF and codex) is reduced to *)
(* what the two tell: which turn runs in which thread.  Of the turns that   *)
(* began before the page was loaded neither tells anything but their end.   *)
(***************************************************************************)
EXTENDS Naturals, Sequences

CONSTANTS
  Threads,
  NoThread,     \* null
  MaxTurns,     \* bound: turns codex starts, those before the page included
  MaxStops,     \* bound: clicks on Stop
  MaxCrashes,   \* bound: exits of codex
  MaxStream     \* bound: events on their way to the tab

ASSUME ChatAssumption ==
  /\ NoThread \notin Threads
  /\ {MaxTurns, MaxStops, MaxCrashes, MaxStream} \subseteq Nat

VARIABLES
  existing,     \* the threads codex knows
  threadOf,     \* threadOf[n]: the thread of the n-th turn
  before,       \* turns that began before the page was loaded
  running,      \* running[t]: the turn that runs in thread t, or 0
  spoken,       \* the turns that have sent a delta
  crashes,      \* exits of codex
  stream,       \* events on their way to the tab
  current,      \* state.currentThreadId
  active,       \* active[t]: state.activeTurnIdByThreadId[t], or 0
  sending,      \* sendingByThreadId
  awaiting,     \* awaitingAssistantByThreadId
  send,         \* the handleSend under way: where it is, its thread and turn
  stops,        \* stops[n]: the n-th handleInterrupt: where it is, thread and turn
  crossed       \* history: an HTTP answer came when the stream had told of
                \* the end of its turn, or of another turn, or was lost when
                \* the stream had told of a turn

serverVars == <<existing, threadOf, before, running, spoken, crashes>>
uiVars == <<current, active, sending, awaiting>>
vars == <<serverVars, stream, uiVars, send, stops, crossed>>

Event(kind, t, n) == [kind |-> kind, thread |-> t, turn |-> n]

Idle == [at |-> "idle", thread |-> NoThread, turn |-> 0]

(* The page is loaded, or reloaded, while turns run.                        *)
Init ==
  /\ existing \in SUBSET Threads
  /\ before \in 0..MaxTurns
  /\ threadOf \in [1..before -> existing]
  /\ running \in [Threads -> 0..before]
  /\ \A n \in 1..before : running[threadOf[n]] = n
  /\ \A t \in Threads : running[t] # 0 => threadOf[running[t]] = t
  /\ spoken \in SUBSET (1..before)
  /\ crashes = 0
  /\ stream = <<>>
  /\ current \in existing \cup {NoThread}
  /\ active = [t \in Threads |-> 0]
  /\ sending = [t \in Threads |-> FALSE]
  /\ awaiting = [t \in Threads |-> FALSE]
  /\ send = Idle
  /\ stops = <<>>
  /\ crossed = FALSE

Coming(t, kind) ==
  \E n \in DOMAIN stream : stream[n].thread = t /\ stream[n].kind = kind

Publish(e) == Len(stream) < MaxStream /\ stream' = Append(stream, e)

-----------------------------------------------------------------------------
(* The server                                                               *)

(* A turn begins in an idle thread.                                         *)
Starts(t) ==
  /\ running[t] = 0
  /\ Len(threadOf) < MaxTurns
  /\ threadOf' = Append(threadOf, t)
  /\ running' = [running EXCEPT ![t] = Len(threadOf) + 1]
  /\ Publish(Event("turn.started", t, Len(threadOf) + 1))
  /\ UNCHANGED <<existing, before, spoken, crashes, uiVars, stops, crossed>>

(* turn/start of this page.  The answer is on its way.                      *)
CodexStarts ==
  /\ send.at = "posting"
  /\ Starts(send.thread)
  /\ send' = [send EXCEPT !.at = "answered", !.turn = Len(threadOf) + 1]

(* That of another tab, or one this page has given up.                      *)
StartsElsewhere(t) ==
  /\ t \in existing
  /\ Starts(t)
  /\ UNCHANGED send

(* A delta of the agent's message; further ones change nothing here.        *)
CodexSpeaks(t) ==
  /\ running[t] # 0 /\ running[t] \notin spoken
  /\ spoken' = spoken \cup {running[t]}
  /\ Publish(Event("agent.delta", t, running[t]))
  /\ UNCHANGED <<existing, threadOf, before, running, crashes, uiVars, send, stops, crossed>>

(* The turn ends, done or failed.                                           *)
CodexCompletes(t) ==
  /\ running[t] # 0
  /\ running' = [running EXCEPT ![t] = 0]
  /\ Publish(Event("turn.completed", t, running[t]))
  /\ UNCHANGED <<existing, threadOf, before, spoken, crashes, uiVars, send, stops, crossed>>

(* turn/interrupt, of the turn that runs or of one that no longer does.     *)
CodexInterrupts(n) ==
  LET t == stops[n].thread IN
  /\ stops[n].at = "posting"
  /\ IF running[t] = stops[n].turn
     THEN /\ running' = [running EXCEPT ![t] = 0]
          /\ Publish(Event("turn.completed", t, running[t]))
          /\ stops' = [stops EXCEPT ![n].at = "answered"]
     ELSE /\ stops' = [stops EXCEPT ![n].at = "refused"]
          /\ UNCHANGED <<running, stream>>
  /\ UNCHANGED <<existing, threadOf, before, spoken, crashes, uiVars, send, crossed>>

(* thread/start, for a send without a thread or for New Thread; who else    *)
(* starts a thread (another tab) shows in the stream only.                  *)
CodexCreates(t) ==
  /\ t \notin existing
  /\ existing' = existing \cup {t}
  /\ Publish(Event("thread.started", t, 0))
  /\ \/ /\ send.at = "creating"
        /\ send' = [send EXCEPT !.at = "created", !.thread = t]
     \/ UNCHANGED send
  /\ UNCHANGED <<threadOf, before, running, spoken, crashes, uiVars, stops, crossed>>

(* codex exits: the turns are gone, and no event says so.                   *)
CodexExits ==
  /\ crashes < MaxCrashes
  /\ crashes' = crashes + 1
  /\ running' = [t \in Threads |-> 0]
  /\ UNCHANGED <<existing, threadOf, before, spoken, stream, uiVars, send, stops, crossed>>

-----------------------------------------------------------------------------
(* handleSend                                                               *)

Thinking(t) == sending[t] \/ awaiting[t] \/ active[t] # 0

(* Send.  The composer stays locked until handleSend is over, and while the *)
(* current thread is thinking.  ensureThread resumes the current thread, if *)
(* there is one.                                                            *)
Submit ==
  /\ send.at = "idle"
  /\ current # NoThread => ~Thinking(current)
  /\ send' = [at |-> IF current = NoThread THEN "creating" ELSE "resuming",
              thread |-> current, turn |-> 0]
  /\ UNCHANGED <<serverVars, stream, uiVars, stops, crossed>>

ResumeFails ==
  /\ send.at = "resuming"
  /\ send' = [send EXCEPT !.at = "creating", !.thread = NoThread]
  /\ UNCHANGED <<serverVars, stream, uiVars, stops, crossed>>

CreateFails ==
  /\ send.at = "creating"
  /\ send' = Idle
  /\ UNCHANGED <<serverVars, stream, uiVars, stops, crossed>>

(* ensureThread is done (a thread it created becomes the current one): the  *)
(* flags are set and startTurn is called.                                   *)
Post ==
  /\ send.at \in {"resuming", "created"}
  /\ current' = IF send.at = "created" THEN send.thread ELSE current
  /\ sending' = [sending EXCEPT ![send.thread] = TRUE]
  /\ awaiting' = [awaiting EXCEPT ![send.thread] = TRUE]
  /\ send' = [send EXCEPT !.at = "posting"]
  /\ UNCHANGED <<serverVars, stream, active, stops, crossed>>

(* The stream has told of the end of the turn startTurn is answered with.   *)
Overtaken ==
  /\ running[send.thread] # send.turn
  /\ \A n \in DOMAIN stream : stream[n] # Event("turn.completed", send.thread, send.turn)

(* Mutants, here and below: altered forms of the definition that follows,   *)
(* each of which breaks a property (README, "Mutants").                     *)
StartedWhereShown ==
  /\ send.at = "answered"
  /\ active' = [active EXCEPT ![current] = send.turn]
  /\ sending' = [sending EXCEPT ![send.thread] = FALSE]
  /\ send' = Idle
  /\ crossed' = (crossed \/ Overtaken)
  /\ UNCHANGED <<serverVars, stream, current, awaiting, stops>>

(* startTurn resolves: set-active-turn.                                     *)
OnStarted ==
  /\ send.at = "answered"
  /\ active' = [active EXCEPT ![send.thread] = send.turn]
  /\ sending' = [sending EXCEPT ![send.thread] = FALSE]
  /\ send' = Idle
  /\ crossed' = (crossed \/ Overtaken)
  /\ UNCHANGED <<serverVars, stream, current, awaiting, stops>>

StartFailedKeepsSending ==
  /\ send.at \in {"posting", "answered"}
  /\ active' = [active EXCEPT ![send.thread] = 0]
  /\ awaiting' = [awaiting EXCEPT ![send.thread] = FALSE]
  /\ send' = Idle
  /\ crossed' = (crossed \/ active[send.thread] # 0)
  /\ UNCHANGED <<serverVars, stream, current, sending, stops>>

(* startTurn rejects: codex refused, or the page gave up, before the turn   *)
(* was started (and it may be started later) or after.                      *)
OnStartFailed ==
  /\ send.at \in {"posting", "answered"}
  /\ active' = [active EXCEPT ![send.thread] = 0]
  /\ sending' = [sending EXCEPT ![send.thread] = FALSE]
  /\ awaiting' = [awaiting EXCEPT ![send.thread] = FALSE]
  /\ send' = Idle
  /\ crossed' = (crossed \/ active[send.thread] # 0)
  /\ UNCHANGED <<serverVars, stream, current, stops>>

-----------------------------------------------------------------------------
(* handleInterrupt, and the thread list                                     *)

(* Stop.  The button is not locked meanwhile.                               *)
Interrupt ==
  /\ current # NoThread /\ active[current] # 0
  /\ Len(stops) < MaxStops
  /\ stops' = Append(stops, [at |-> "posting", thread |-> current, turn |-> active[current]])
  /\ UNCHANGED <<serverVars, stream, uiVars, send, crossed>>

(* interruptTurn resolves: clear-active-turn, whichever turn that is now.   *)
OnInterrupted(n) ==
  /\ stops[n].at = "answered"
  /\ active' = [active EXCEPT ![stops[n].thread] = 0]
  /\ awaiting' = [awaiting EXCEPT ![stops[n].thread] = FALSE]
  /\ sending' = [sending EXCEPT ![stops[n].thread] = FALSE]
  /\ stops' = [stops EXCEPT ![n].at = "done"]
  /\ crossed' = (crossed \/ active[stops[n].thread] \notin {0, stops[n].turn})
  /\ UNCHANGED <<serverVars, stream, current, send>>

InterruptFailedClears(n) ==
  /\ stops[n].at \in {"refused", "posting", "answered"}
  /\ active' = [active EXCEPT ![stops[n].thread] = 0]
  /\ stops' = [stops EXCEPT ![n].at = "done"]
  /\ UNCHANGED <<serverVars, stream, current, sending, awaiting, send, crossed>>

(* It rejects: an error is shown, and nothing else changes.                 *)
OnInterruptFailed(n) ==
  /\ stops[n].at \in {"refused", "posting", "answered"}
  /\ stops' = [stops EXCEPT ![n].at = "done"]
  /\ UNCHANGED <<serverVars, stream, uiVars, send, crossed>>

(* handleSelectThread, or handleCreateThread once its answer is there.      *)
SelectThread(t) ==
  /\ t \in existing
  /\ current' = t
  /\ UNCHANGED <<serverVars, stream, active, sending, awaiting, send, stops, crossed>>

-----------------------------------------------------------------------------
(* The event stream: the callback of ChatShell and applyUiEvent.            *)

OnThreadStarted ==
  /\ stream # <<>> /\ Head(stream).kind = "thread.started"
  /\ current' = Head(stream).thread
  /\ stream' = Tail(stream)
  /\ UNCHANGED <<serverVars, active, sending, awaiting, send, stops, crossed>>

OnTurnStarted ==
  /\ stream # <<>> /\ Head(stream).kind = "turn.started"
  /\ active' = [active EXCEPT ![Head(stream).thread] = Head(stream).turn]
  /\ stream' = Tail(stream)
  /\ UNCHANGED <<serverVars, current, sending, awaiting, send, stops, crossed>>

OnAgentDelta ==
  /\ stream # <<>> /\ Head(stream).kind = "agent.delta"
  /\ awaiting' = [awaiting EXCEPT ![Head(stream).thread] = FALSE]
  /\ stream' = Tail(stream)
  /\ UNCHANGED <<serverVars, current, active, sending, send, stops, crossed>>

CompletedKeepsAwaiting ==
  /\ stream # <<>> /\ Head(stream).kind = "turn.completed"
  /\ active' = [active EXCEPT ![Head(stream).thread] = 0]
  /\ sending' = [sending EXCEPT ![Head(stream).thread] = FALSE]
  /\ stream' = Tail(stream)
  /\ UNCHANGED <<serverVars, current, awaiting, send, stops, crossed>>

(* The thread's entry goes, whichever turn it names.                        *)
OnTurnCompleted ==
  /\ stream # <<>> /\ Head(stream).kind = "turn.completed"
  /\ active' = [active EXCEPT ![Head(stream).thread] = 0]
  /\ awaiting' = [awaiting EXCEPT ![Head(stream).thread] = FALSE]
  /\ sending' = [sending EXCEPT ![Head(stream).thread] = FALSE]
  /\ stream' = Tail(stream)
  /\ UNCHANGED <<serverVars, current, send, stops, crossed>>

OnEvent == OnThreadStarted \/ OnTurnStarted \/ OnAgentDelta \/ OnTurnCompleted

Next ==
  \/ CodexStarts \/ CodexExits
  \/ \E t \in Threads :
       \/ StartsElsewhere(t) \/ CodexSpeaks(t) \/ CodexCompletes(t) \/ CodexCreates(t)
       \/ SelectThread(t)
  \/ Submit \/ ResumeFails \/ CreateFails \/ Post \/ OnStarted \/ OnStartFailed
  \/ Interrupt
  \/ \E n \in DOMAIN stops : CodexInterrupts(n) \/ OnInterrupted(n) \/ OnInterruptFailed(n)
  \/ OnThreadStarted \/ OnTurnStarted \/ OnAgentDelta \/ OnTurnCompleted

Spec == Init /\ [][Next]_vars

(* Requests are answered, turns end, events arrive.                         *)
Fairness ==
  /\ WF_vars(Post) /\ WF_vars(ResumeFails \/ CreateFails)
  /\ WF_vars(OnStarted) /\ WF_vars(OnStartFailed)
  /\ WF_vars(OnEvent)
  /\ \A t \in Threads : WF_vars(CodexCompletes(t))
  /\ \A n \in 1..MaxStops :
       WF_vars(n \in DOMAIN stops /\ (CodexInterrupts(n) \/ OnInterrupted(n) \/ OnInterruptFailed(n)))

FairSpec == Spec /\ Fairness

-----------------------------------------------------------------------------
(* Properties                                                               *)

(* Stop always asks for a turn of the thread it is shown in, whatever was   *)
(* selected, created or announced since the turn began.                     *)
StopsOwnTurn ==
  \A t \in Threads : active[t] # 0 => threadOf[active[t]] = t

(* The flags of a thread have a cause.  "Sending..." shows only while a      *)
(* startTurn of that thread is unanswered; and the wait for the assistant's *)
(* first word has something to wait for: a request, a turn, or the news of  *)
(* its end; unless codex exited.                                            *)
FlagsHaveCause ==
  \A t \in Threads :
    LET asking == send.at \in {"posting", "answered"} /\ send.thread = t IN
    /\ sending[t] => asking
    /\ awaiting[t] /\ crashes = 0 =>
         asking \/ running[t] # 0 \/ Coming(t, "turn.completed")

(* What the page can know of: no turn that began before it was loaded.      *)
Known(n) == IF n > before THEN n ELSE 0

(* WEB_UI_ENHANCEMENT_CHECKLIST.md, #08: Stop is enabled exactly when there *)
(* is an active turn.  Asked when no answer and no event is on its way,     *)
(* whoever starts the turns; turns from before the page was loaded are not  *)
(* known to it, and otherwise it takes an exit of codex to fail, or an      *)
(* answer that crossed the stream.                                          *)
StopMatches ==
  /\ crashes = 0 /\ ~crossed
  /\ stream = <<>> /\ send.at = "idle"
  /\ \A n \in DOMAIN stops : stops[n].at = "done"
  => \A t \in Threads : active[t] = Known(running[t])

(* Unless codex exits or an answer crosses the stream no thread thinks for  *)
(* ever: its turn ends and its composer comes back.                         *)
ThinkingEnds ==
  \A t \in Threads : Thinking(t) ~> (~Thinking(t) \/ crashes > 0 \/ crossed)
=============================================================================
