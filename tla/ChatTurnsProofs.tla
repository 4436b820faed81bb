-------------------------- MODULE ChatTurnsProofs --------------------------
(***************************************************************************)
(* Proofs about ChatTurns: Stop asks for a turn of its own thread; the      *)
(* flags of a thread have a cause; and Stop is enabled exactly when a turn  *)
(* runs, when nothing is on its way and no answer crossed the stream.       *)
(***************************************************************************)
EXTENDS ChatTurns, SequenceTheorems, TLAPS

Kinds == {"thread.started", "turn.started", "agent.delta", "turn.completed"}

Events == [kind : Kinds, thread : Threads, turn : Nat]

Sends == [at : {"idle", "creating", "resuming", "created", "posting", "answered"},
          thread : Threads \cup {NoThread}, turn : Nat]

Stops == [at : {"posting", "answered", "refused", "done"}, thread : Threads, turn : Nat]

(* The send under way has a thread.                                         *)
HasThread == send.at \in {"resuming", "created", "posting", "answered"}

TypeOK ==
  /\ existing \subseteq Threads
  /\ threadOf \in Seq(Threads)
  /\ before \in Nat
  /\ running \in [Threads -> Nat]
  /\ crashes \in Nat
  /\ stream \in Seq(Events)
  /\ current \in existing \cup {NoThread}
  /\ active \in [Threads -> Nat]
  /\ sending \in [Threads -> BOOLEAN]
  /\ awaiting \in [Threads -> BOOLEAN]
  /\ send \in Sends
  /\ stops \in Seq(Stops)
  /\ crossed \in BOOLEAN

(* The event is on its way.                                                 *)
Has(e) == \E n \in DOMAIN stream : stream[n] = e

(* What anyone speaks of is a thread codex knows, and Stop names a turn.    *)
KnownInv ==
  /\ \A e \in Events : Has(e) => e.thread \in existing
  /\ HasThread => send.thread \in existing
  /\ \A t \in Threads : running[t] # 0 => t \in existing
  /\ \A n \in DOMAIN stops : stops[n].thread \in existing /\ stops[n].turn # 0

Of(n, t) == n \in DOMAIN threadOf /\ threadOf[n] = t

(* The strengthening of StopsOwnTurn: so does every turn.started on its way, *)
(* the answer to startTurn, and the Stop that was pressed.  What is told of *)
(* began after the page was loaded.                                         *)
OwnInv ==
  /\ before <= Len(threadOf)
  /\ \A t \in Threads : active[t] # 0 => Of(active[t], t)
  /\ \A t \in Threads, n \in Nat : Has(Event("turn.started", t, n)) => Of(n, t) /\ n > before
  /\ send.at = "answered" => Of(send.turn, send.thread) /\ send.turn > before

StopsOwn == \A n \in DOMAIN stops : Of(stops[n].turn, stops[n].thread)

(* The strengthening of FlagsHaveCause: an answered startTurn is no cause.  *)
FlagsInv ==
  \A t \in Threads :
    /\ sending[t] => send.at \in {"posting", "answered"} /\ send.thread = t
    /\ awaiting[t] /\ crashes = 0 =>
         \/ send.at = "posting" /\ send.thread = t
         \/ running[t] # 0
         \/ Coming(t, "turn.completed")

(* What tells of the turns of thread t, and which turn it says runs there.  *)
IsNews(e, t) == e.thread = t /\ e.kind \in {"turn.started", "turn.completed"}

Told(e) == IF e.kind = "turn.started" THEN e.turn ELSE 0

Silent(t) == \A i \in DOMAIN stream : ~IsNews(stream[i], t)

(* The last news of thread t on its way is e.                               *)
Last(t, e) ==
  \E i \in DOMAIN stream :
    /\ stream[i] = e /\ IsNews(e, t)
    /\ \A j \in DOMAIN stream : IsNews(stream[j], t) => j <= i

(* The last news on its way, or else what the UI has heard, agrees with what *)
(* runs.                                                                    *)
NewsOf(t) ==
  /\ Silent(t) => active[t] = Known(running[t])
  /\ \A e \in Events : Last(t, e) => running[t] = Told(e)

(* A turn that was interrupted does not run.                                *)
StopsInv ==
  \A n \in DOMAIN stops :
    stops[n].at = "answered" => running[stops[n].thread] # stops[n].turn

(* The strengthening of StopMatches.                                        *)
NewsInv ==
  crashes = 0 /\ ~crossed =>
    (\A t \in Threads : NewsOf(t)) /\ StopsInv

ChatInv == TypeOK /\ KnownInv /\ OwnInv /\ StopsOwn /\ FlagsInv /\ NewsInv

-----------------------------------------------------------------------------
(* The stream                                                               *)

LEMMA EventType ==
  ASSUME NEW kind \in Kinds, NEW t \in Threads, NEW n \in Nat
  PROVE  /\ Event(kind, t, n) \in Events
         /\ Event(kind, t, n).kind = kind /\ Event(kind, t, n).thread = t
         /\ Event(kind, t, n).turn = n
  BY DEF Event, Events

(* An event is published: it comes last.                                    *)
LEMMA Published ==
  ASSUME stream \in Seq(Events), NEW e \in Events, Publish(e)
  PROVE  /\ stream' \in Seq(Events)
         /\ \A f : Has(f)' <=> Has(f) \/ f = e
         /\ \A t, kind : Coming(t, kind)' <=> Coming(t, kind) \/ (e.thread = t /\ e.kind = kind)
         /\ DOMAIN stream = 1..Len(stream) /\ Len(stream) \in Nat
         /\ DOMAIN stream' = 1..(Len(stream) + 1)
         /\ stream'[Len(stream) + 1] = e
         /\ \A n \in DOMAIN stream : stream'[n] = stream[n]
<1> PICK L : L = Len(stream)
  OBVIOUS
<1>1. L \in Nat /\ DOMAIN stream = 1..L
  BY LenProperties
<1>2. /\ stream' \in Seq(Events) /\ Len(stream') = L + 1
      /\ stream'[L + 1] = e
      /\ \A n \in 1..L : stream'[n] = stream[n]
  BY AppendProperties DEF Publish
<1>3. DOMAIN stream' = 1..(L + 1)
  BY <1>2, LenProperties
<1>4. \A f : Has(f)' <=> Has(f) \/ f = e
  BY <1>1, <1>2, <1>3 DEF Has
<1>5. \A t, kind : Coming(t, kind)' <=> Coming(t, kind) \/ (e.thread = t /\ e.kind = kind)
  BY <1>1, <1>2, <1>3 DEF Coming
<1> QED
  BY <1>1, <1>2, <1>3, <1>4, <1>5

(* The first event is taken.                                                *)
LEMMA Taken ==
  ASSUME stream \in Seq(Events), stream # <<>>, stream' = Tail(stream),
         NEW e, e = Head(stream)
  PROVE  /\ stream' \in Seq(Events) /\ e \in Events
         /\ Has(e) /\ Coming(e.thread, e.kind)
         /\ \A f : Has(f)' => Has(f)
         /\ \A f : Has(f) => Has(f)' \/ f = e
         /\ \A t, kind : Coming(t, kind)' => Coming(t, kind)
         /\ \A t, kind : Coming(t, kind) => Coming(t, kind)' \/ (e.thread = t /\ e.kind = kind)
         /\ DOMAIN stream = 1..Len(stream) /\ Len(stream) \in Nat \ {0}
         /\ DOMAIN stream' = 1..(Len(stream) - 1)
         /\ stream[1] = e
         /\ \A n \in DOMAIN stream' : stream'[n] = stream[n + 1]
<1> PICK L : L = Len(stream)
  OBVIOUS
<1>1. L \in Nat \ {0} /\ DOMAIN stream = 1..L /\ \A n \in 1..L : stream[n] \in Events
  BY LenProperties, EmptySeq
<1>2. /\ e \in Events /\ stream[1] = e
      /\ stream' \in Seq(Events) /\ Len(stream') = L - 1
      /\ \A n \in 1..Len(stream') : stream'[n] = stream[n + 1]
  BY <1>1, HeadTailProperties
<1>3. DOMAIN stream' = 1..(L - 1)
  BY <1>2, LenProperties
<1>4. \A n \in 1..(L - 1) : n + 1 \in 1..L /\ stream'[n] = stream[n + 1]
  BY <1>1, <1>2
<1>5. \A n \in 1..L : n = 1 \/ (n - 1 \in 1..(L - 1) /\ stream'[n - 1] = stream[n])
  <2> TAKE n \in 1..L
  <2> SUFFICES ASSUME n # 1
               PROVE  n - 1 \in 1..(L - 1) /\ stream'[n - 1] = stream[n]
    OBVIOUS
  <2>1. n - 1 \in 1..(L - 1) /\ (n - 1) + 1 = n
    BY <1>1
  <2>2. stream'[n - 1] = stream[(n - 1) + 1]
    BY <1>4, <2>1
  <2> QED
    BY <2>1, <2>2
<1>6. /\ \A f : Has(f)' => Has(f)
      /\ \A f : Has(f) => Has(f)' \/ f = e
  <2>1. \A f : Has(f)' => Has(f)
    BY <1>1, <1>3, <1>4 DEF Has
  <2>2. \A f : Has(f) => Has(f)' \/ f = e
    BY <1>1, <1>2, <1>3, <1>5, ZenonT(30) DEF Has
  <2> QED
    BY <2>1, <2>2
<1>7. \A t, kind : Coming(t, kind)' => Coming(t, kind)
  BY <1>1, <1>3, <1>4 DEF Coming
<1>8. \A t, kind : Coming(t, kind) => Coming(t, kind)' \/ (e.thread = t /\ e.kind = kind)
  BY <1>1, <1>2, <1>3, <1>5, ZenonT(30) DEF Coming
<1>9. Has(e) /\ Coming(e.thread, e.kind)
  BY <1>1, <1>2 DEF Has, Coming
<1> QED
  BY <1>1, <1>2, <1>3, <1>4, <1>6, <1>7, <1>8, <1>9

(* One Stop changes its place.                                              *)
LEMMA StopMoves ==
  ASSUME stops \in Seq(Stops), NEW n \in DOMAIN stops,
         NEW at \in {"posting", "answered", "refused", "done"},
         stops' = [stops EXCEPT ![n].at = at]
  PROVE  /\ stops' \in Seq(Stops) /\ DOMAIN stops' = DOMAIN stops
         /\ stops[n] \in Stops
         /\ stops'[n].at = at /\ stops'[n].thread = stops[n].thread
         /\ stops'[n].turn = stops[n].turn
         /\ \A m \in DOMAIN stops : m # n => stops'[m] = stops[m]
<1>1. n \in 1..Len(stops) /\ DOMAIN stops = 1..Len(stops)
  BY LenProperties
<1>2. stops[n] \in Stops
  BY <1>1, ElementOfSeq
<1> PICK s : s = [stops[n] EXCEPT !.at = at]
  OBVIOUS
<1>3. s \in Stops /\ s.at = at /\ s.thread = stops[n].thread /\ s.turn = stops[n].turn
  BY <1>2 DEF Stops
<1>4. stops' = [stops EXCEPT ![n] = s]
  OBVIOUS
<1>5. /\ stops' \in Seq(Stops) /\ Len(stops') = Len(stops)
      /\ \A m \in 1..Len(stops) : stops'[m] = IF m = n THEN s ELSE stops[m]
  BY <1>1, <1>3, <1>4, ExceptSeq
<1>6. DOMAIN stops' = DOMAIN stops
  BY <1>1, <1>5, LenProperties
<1> QED
  BY <1>1, <1>2, <1>3, <1>5, <1>6

(* Stop is pressed once more.                                               *)
LEMMA StopAdded ==
  ASSUME stops \in Seq(Stops), NEW s \in Stops, stops' = Append(stops, s)
  PROVE  /\ stops' \in Seq(Stops)
         /\ \A m \in DOMAIN stops' :
              (m \in DOMAIN stops /\ stops'[m] = stops[m]) \/ stops'[m] = s
<1> PICK L : L = Len(stops)
  OBVIOUS
<1>1. L \in Nat /\ DOMAIN stops = 1..L
  BY LenProperties
<1>2. /\ stops' \in Seq(Stops) /\ Len(stops') = L + 1
      /\ stops'[L + 1] = s
      /\ \A n \in 1..L : stops'[n] = stops[n]
  BY AppendProperties
<1>3. DOMAIN stops' = 1..(L + 1)
  BY <1>2, LenProperties
<1> QED
  BY <1>1, <1>2, <1>3

(* The stream stays as it is.                                               *)
LEMMA StreamKept ==
  ASSUME stream' = stream
  PROVE  /\ \A f : Has(f)' <=> Has(f)
         /\ \A t, kind : Coming(t, kind)' <=> Coming(t, kind)
  BY DEF Has, Coming

-----------------------------------------------------------------------------
(* Types                                                                    *)

LEMMA SendThread ==
  ASSUME TypeOK, KnownInv, HasThread
  PROVE  send.thread \in existing /\ send.thread \in Threads /\ send.turn \in Nat
  BY DEF TypeOK, KnownInv, Sends

LEMMA StopType ==
  ASSUME TypeOK, NEW n \in DOMAIN stops
  PROVE  stops[n] \in Stops /\ stops[n].thread \in Threads /\ stops[n].turn \in Nat
<1>1. stops[n] \in Stops
  BY LenProperties, ElementOfSeq DEF TypeOK
<1> QED
  BY <1>1 DEF Stops

LEMMA TypeStep ==
  ASSUME TypeOK, KnownInv, [Next]_vars
  PROVE  TypeOK'
<1> USE DEF TypeOK
<1>0. ASSUME NEW s \in Threads, Starts(s)
      PROVE  /\ threadOf' \in Seq(Threads) /\ running' \in [Threads -> Nat]
             /\ stream' \in Seq(Events) /\ Len(threadOf) + 1 \in Nat
             /\ UNCHANGED <<existing, before, crashes, uiVars, stops, crossed>>
  <2>1. Len(threadOf) + 1 \in Nat
    BY LenProperties
  <2> PICK k \in Nat : k = Len(threadOf) + 1
    BY <2>1
  <2>2. threadOf' \in Seq(Threads)
    BY <1>0, AppendProperties DEF Starts
  <2>3. running' = [running EXCEPT ![s] = k] /\ running' \in [Threads -> Nat]
    BY <1>0 DEF Starts
  <2>4. Event("turn.started", s, k) \in Events
    BY EventType DEF Kinds
  <2>5. stream' \in Seq(Events)
    BY <1>0, <2>4, Published DEF Starts
  <2> QED
    BY <1>0, <2>1, <2>2, <2>3, <2>5 DEF Starts
<1>1. CASE CodexStarts
  <2>1. send.thread \in Threads
    BY <1>1, SendThread DEF CodexStarts, HasThread
  <2> PICK s \in Threads : s = send.thread
    BY <2>1
  <2>2. Starts(s)
    BY <1>1 DEF CodexStarts
  <2>3. send' \in Sends
    BY <1>0, <1>1, <2>2 DEF CodexStarts, Sends
  <2> QED
    BY <1>0, <2>2, <2>3 DEF uiVars
<1>23. ASSUME NEW t \in Threads, StartsElsewhere(t)
       PROVE  TypeOK'
  BY <1>0, <1>23 DEF StartsElsewhere, uiVars
<1>2. CASE CodexExits
  BY <1>2 DEF CodexExits, uiVars
<1>3. ASSUME NEW t \in Threads, CodexSpeaks(t)
      PROVE  TypeOK'
  <2>1. Event("agent.delta", t, running[t]) \in Events
    BY EventType DEF Kinds
  <2>2. stream' \in Seq(Events)
    BY <1>3, <2>1, Published DEF CodexSpeaks
  <2> QED
    BY <1>3, <2>2 DEF CodexSpeaks, uiVars
<1>4. ASSUME NEW t \in Threads, CodexCompletes(t)
      PROVE  TypeOK'
  <2>1. Event("turn.completed", t, running[t]) \in Events
    BY EventType DEF Kinds
  <2>2. stream' \in Seq(Events)
    BY <1>4, <2>1, Published DEF CodexCompletes
  <2> QED
    BY <1>4, <2>2 DEF CodexCompletes, uiVars
<1>5. ASSUME NEW t \in Threads, CodexCreates(t)
      PROVE  TypeOK'
  <2>1. Event("thread.started", t, 0) \in Events
    BY EventType DEF Kinds
  <2>2. stream' \in Seq(Events)
    BY <1>5, <2>1, Published DEF CodexCreates
  <2>3. send' \in Sends
    BY <1>5 DEF CodexCreates, Sends
  <2> QED
    BY <1>5, <2>2, <2>3 DEF CodexCreates, uiVars
<1>6. ASSUME NEW t \in Threads, SelectThread(t)
      PROVE  TypeOK'
  BY <1>6 DEF SelectThread, serverVars
<1>7. CASE Submit
  <2>1. send' \in Sends
    BY <1>7 DEF Submit, Sends
  <2> QED
    BY <1>7, <2>1 DEF Submit, serverVars, uiVars
<1>8. CASE ResumeFails
  BY <1>8 DEF ResumeFails, Sends, serverVars, uiVars
<1>9. CASE CreateFails
  BY <1>9 DEF CreateFails, Idle, Sends, serverVars, uiVars
<1>10. CASE Post
  <2>1. send.thread \in existing
    BY <1>10, SendThread DEF Post, HasThread
  <2>2. send' \in Sends
    BY <1>10 DEF Post, Sends
  <2> QED
    BY <1>10, <2>1, <2>2 DEF Post, serverVars
<1>11. CASE OnStarted
  <2>1. send.turn \in Nat
    BY DEF Sends
  <2>2. send' \in Sends
    BY <1>11 DEF OnStarted, Idle, Sends
  <2>3. crossed' \in BOOLEAN
    BY <1>11 DEF OnStarted, Overtaken
  <2> QED
    BY <1>11, <2>1, <2>2, <2>3 DEF OnStarted, serverVars
<1>12. CASE OnStartFailed
  <2>1. send' \in Sends
    BY <1>12 DEF OnStartFailed, Idle, Sends
  <2>2. crossed' \in BOOLEAN
    BY <1>12 DEF OnStartFailed
  <2> QED
    BY <1>12, <2>1, <2>2 DEF OnStartFailed, serverVars
<1>13. CASE Interrupt
  <2> PICK s : s = [at |-> "posting", thread |-> current, turn |-> active[current]]
    OBVIOUS
  <2>1. s \in Stops
    BY <1>13 DEF Interrupt, Stops
  <2>2. stops' \in Seq(Stops)
    BY <1>13, <2>1, AppendProperties DEF Interrupt
  <2> QED
    BY <1>13, <2>2 DEF Interrupt, serverVars, uiVars
<1>14. ASSUME NEW n \in DOMAIN stops, CodexInterrupts(n)
       PROVE  TypeOK'
  <2> PICK t \in Threads : t = stops[n].thread
    BY StopType
  <2>1. CASE running[t] = stops[n].turn
    <3>1. stops' \in Seq(Stops)
      BY <1>14, <2>1, StopMoves DEF CodexInterrupts
    <3>2. Event("turn.completed", t, running[t]) \in Events
      BY EventType DEF Kinds
    <3>3. stream' \in Seq(Events)
      BY <1>14, <2>1, <3>2, Published DEF CodexInterrupts
    <3>4. running' = [running EXCEPT ![t] = 0]
      BY <1>14, <2>1 DEF CodexInterrupts
    <3>5. running' \in [Threads -> Nat]
      BY <3>4
    <3> QED
      BY <1>14, <2>1, <3>1, <3>3, <3>5 DEF CodexInterrupts, uiVars
  <2>2. CASE running[t] # stops[n].turn
    <3>1. stops' \in Seq(Stops)
      BY <1>14, <2>2, StopMoves DEF CodexInterrupts
    <3> QED
      BY <1>14, <2>2, <3>1 DEF CodexInterrupts, uiVars
  <2> QED
    BY <2>1, <2>2
<1>15. ASSUME NEW n \in DOMAIN stops, OnInterrupted(n)
       PROVE  TypeOK'
  <2>1. stops' \in Seq(Stops)
    BY <1>15, StopMoves DEF OnInterrupted
  <2>2. crossed' \in BOOLEAN
    BY <1>15 DEF OnInterrupted
  <2> QED
    BY <1>15, <2>1, <2>2 DEF OnInterrupted, serverVars
<1>16. ASSUME NEW n \in DOMAIN stops, OnInterruptFailed(n)
       PROVE  TypeOK'
  <2>1. stops' \in Seq(Stops)
    BY <1>16, StopMoves DEF OnInterruptFailed
  <2> QED
    BY <1>16, <2>1 DEF OnInterruptFailed, serverVars, uiVars
<1>17. ASSUME NEW e, e = Head(stream), stream # <<>>, stream' = Tail(stream)
       PROVE  /\ stream' \in Seq(Events) /\ e.thread \in Threads /\ e.turn \in Nat
              /\ e.thread \in existing
  <2>1. stream' \in Seq(Events) /\ e \in Events /\ Has(e)
    BY <1>17, Taken
  <2> QED
    BY <2>1 DEF Events, KnownInv
<1> PICK h : h = Head(stream)
  OBVIOUS
<1>18. CASE OnThreadStarted
  BY <1>17, <1>18 DEF OnThreadStarted, serverVars
<1>19. CASE OnTurnStarted
  BY <1>17, <1>19 DEF OnTurnStarted, serverVars
<1>20. CASE OnAgentDelta
  BY <1>17, <1>20 DEF OnAgentDelta, serverVars
<1>21. CASE OnTurnCompleted
  BY <1>17, <1>21 DEF OnTurnCompleted, serverVars
<1>22. CASE UNCHANGED vars
  BY <1>22 DEF vars, serverVars, uiVars
<1> QED
  BY <1>1, <1>2, <1>3, <1>4, <1>5, <1>6, <1>7, <1>8, <1>9, <1>10, <1>11, <1>12, <1>13,
     <1>14, <1>15, <1>16, <1>18, <1>19, <1>20, <1>21, <1>22, <1>23 DEF Next

-----------------------------------------------------------------------------
(* KnownInv                                                                 *)

LEMMA KnownStep ==
  ASSUME TypeOK, KnownInv, [Next]_vars
  PROVE  KnownInv'
<1> stream \in Seq(Events) /\ stops \in Seq(Stops)
  BY DEF TypeOK
<1>0. ASSUME NEW s \in existing, Starts(s)
      PROVE  /\ (\A f \in Events : Has(f) => f.thread \in existing)'
             /\ (\A t \in Threads : running[t] # 0 => t \in existing)'
             /\ UNCHANGED <<existing, stops>>
  <2> PICK k \in Nat : k = Len(threadOf) + 1
    BY LenProperties DEF TypeOK
  <2> PICK e : e = Event("turn.started", s, k)
    OBVIOUS
  <2>1. s \in Threads
    BY DEF TypeOK
  <2>2. e \in Events /\ e.thread = s
    BY <2>1, EventType DEF Kinds
  <2>3. \A f : Has(f)' <=> Has(f) \/ f = e
    BY <1>0, <2>2, Published DEF Starts
  <2>4. (\A f \in Events : Has(f) => f.thread \in existing)'
    BY <1>0, <2>2, <2>3 DEF KnownInv, Starts
  <2>5. (\A t \in Threads : running[t] # 0 => t \in existing)'
    BY <1>0 DEF KnownInv, Starts, TypeOK
  <2> QED
    BY <1>0, <2>4, <2>5 DEF Starts
<1>1. CASE CodexStarts
  <2> PICK s \in existing : s = send.thread
    BY <1>1, SendThread DEF CodexStarts, HasThread
  <2>1. Starts(s)
    BY <1>1 DEF CodexStarts
  <2>2. send'.thread = s
    BY <1>1 DEF CodexStarts, TypeOK, Sends
  <2> QED
    BY <1>0, <2>1, <2>2 DEF KnownInv, HasThread
<1>18. ASSUME NEW t \in Threads, StartsElsewhere(t)
       PROVE  KnownInv'
  BY <1>0, <1>18 DEF StartsElsewhere, KnownInv, HasThread
<1>2. CASE CodexExits
  BY <1>2, StreamKept DEF KnownInv, CodexExits, HasThread
<1>3. ASSUME NEW t \in Threads, CodexSpeaks(t)
      PROVE  KnownInv'
  <2> PICK e : e = Event("agent.delta", t, running[t])
    OBVIOUS
  <2>1. e \in Events /\ e.thread = t
    BY EventType DEF Kinds, TypeOK
  <2>2. \A f : Has(f)' <=> Has(f) \/ f = e
    BY <1>3, <2>1, Published DEF CodexSpeaks
  <2>3. t \in existing
    BY <1>3 DEF CodexSpeaks, KnownInv
  <2> QED
    BY <1>3, <2>1, <2>2, <2>3 DEF KnownInv, CodexSpeaks, HasThread
<1>4. ASSUME NEW t \in Threads, CodexCompletes(t)
      PROVE  KnownInv'
  <2> PICK e : e = Event("turn.completed", t, running[t])
    OBVIOUS
  <2>1. e \in Events /\ e.thread = t
    BY EventType DEF Kinds, TypeOK
  <2>2. \A f : Has(f)' <=> Has(f) \/ f = e
    BY <1>4, <2>1, Published DEF CodexCompletes
  <2>3. t \in existing
    BY <1>4 DEF CodexCompletes, KnownInv
  <2>4. (\A u \in Threads : running[u] # 0 => u \in existing)'
    BY <1>4 DEF KnownInv, CodexCompletes, TypeOK
  <2> QED
    BY <1>4, <2>1, <2>2, <2>3, <2>4 DEF KnownInv, CodexCompletes, HasThread
<1>5. ASSUME NEW t \in Threads, CodexCreates(t)
      PROVE  KnownInv'
  <2> PICK e : e = Event("thread.started", t, 0)
    OBVIOUS
  <2>1. e \in Events /\ e.thread = t
    BY EventType DEF Kinds
  <2>2. \A f : Has(f)' <=> Has(f) \/ f = e
    BY <1>5, <2>1, Published DEF CodexCreates
  <2>3. existing' = existing \cup {t}
    BY <1>5 DEF CodexCreates
  <2>4. (HasThread => send.thread \in existing)'
    <3>1. CASE send' = [send EXCEPT !.at = "created", !.thread = t]
      BY <2>3, <3>1 DEF HasThread, TypeOK, Sends
    <3>2. CASE UNCHANGED send
      BY <2>3, <3>2 DEF KnownInv, HasThread
    <3> QED
      BY <1>5, <3>1, <3>2 DEF CodexCreates
  <2>5. (\A u \in Threads : running[u] # 0 => u \in existing)'
    BY <1>5, <2>3 DEF KnownInv, CodexCreates
  <2>6. (\A f \in Events : Has(f) => f.thread \in existing)'
    BY <2>1, <2>2, <2>3 DEF KnownInv
  <2>7. (\A n \in DOMAIN stops : stops[n].thread \in existing /\ stops[n].turn # 0)'
    BY <1>5, <2>3 DEF KnownInv, CodexCreates
  <2> QED
    BY <2>4, <2>5, <2>6, <2>7 DEF KnownInv
<1>6. ASSUME NEW t \in Threads, SelectThread(t)
      PROVE  KnownInv'
  BY <1>6, StreamKept DEF KnownInv, SelectThread, serverVars, HasThread
<1>7. CASE Submit
  <2>1. (HasThread => send.thread \in existing)'
    BY <1>7 DEF Submit, serverVars, HasThread, TypeOK
  <2> QED
    BY <1>7, <2>1, StreamKept DEF KnownInv, Submit, serverVars
<1>8. CASE ResumeFails
  <2>1. ~HasThread'
    BY <1>8 DEF ResumeFails, HasThread, TypeOK, Sends
  <2> QED
    BY <1>8, <2>1, StreamKept DEF KnownInv, ResumeFails, serverVars
<1>9. CASE CreateFails
  <2>1. ~HasThread'
    BY <1>9 DEF CreateFails, Idle, HasThread
  <2> QED
    BY <1>9, <2>1, StreamKept DEF KnownInv, CreateFails, serverVars
<1>10. CASE Post
  <2>1. HasThread /\ send'.thread = send.thread
    BY <1>10 DEF Post, HasThread, TypeOK, Sends
  <2> QED
    BY <1>10, <2>1, StreamKept DEF KnownInv, Post, serverVars
<1>11. CASE OnStarted
  <2>1. ~HasThread'
    BY <1>11 DEF OnStarted, Idle, HasThread
  <2> QED
    BY <1>11, <2>1, StreamKept DEF KnownInv, OnStarted, serverVars
<1>12. CASE OnStartFailed
  <2>1. ~HasThread'
    BY <1>12 DEF OnStartFailed, Idle, HasThread
  <2> QED
    BY <1>12, <2>1, StreamKept DEF KnownInv, OnStartFailed, serverVars
<1>13. CASE Interrupt
  <2> PICK s : s = [at |-> "posting", thread |-> current, turn |-> active[current]]
    OBVIOUS
  <2>1. s \in Stops /\ s.thread \in existing /\ s.turn # 0
    BY <1>13 DEF Interrupt, Stops, TypeOK
  <2>2. \A m \in DOMAIN stops' :
          (m \in DOMAIN stops /\ stops'[m] = stops[m]) \/ stops'[m] = s
    BY <1>13, <2>1, StopAdded DEF Interrupt
  <2>3. (\A n \in DOMAIN stops : stops[n].thread \in existing /\ stops[n].turn # 0)'
    BY <1>13, <2>1, <2>2 DEF KnownInv, Interrupt, serverVars
  <2> QED
    BY <1>13, <2>3, StreamKept DEF KnownInv, Interrupt, serverVars, HasThread
<1>14. ASSUME NEW n \in DOMAIN stops, CodexInterrupts(n)
       PROVE  KnownInv'
  <2> PICK t \in Threads : t = stops[n].thread
    BY StopType
  <2>1. t \in existing
    BY DEF KnownInv
  <2>2. \E at \in {"posting", "answered", "refused", "done"} :
          stops' = [stops EXCEPT ![n].at = at]
    BY <1>14 DEF CodexInterrupts
  <2>3. /\ DOMAIN stops' = DOMAIN stops
        /\ \A m \in DOMAIN stops : stops'[m].thread = stops[m].thread /\ stops'[m].turn = stops[m].turn
    BY <2>2, StopMoves
  <2>4. (\A m \in DOMAIN stops : stops[m].thread \in existing /\ stops[m].turn # 0)'
    BY <1>14, <2>3 DEF KnownInv, CodexInterrupts
  <2>5. CASE running[t] = stops[n].turn
    <3> PICK e : e = Event("turn.completed", t, running[t])
      OBVIOUS
    <3>1. e \in Events /\ e.thread = t
      BY EventType DEF Kinds, TypeOK
    <3>2. \A f : Has(f)' <=> Has(f) \/ f = e
      BY <1>14, <2>5, <3>1, Published DEF CodexInterrupts
    <3>3. running' = [running EXCEPT ![t] = 0] /\ existing' = existing /\ send' = send
      BY <1>14, <2>5 DEF CodexInterrupts
    <3>4. (\A u \in Threads : running[u] # 0 => u \in existing)'
      BY <3>3 DEF KnownInv, TypeOK
    <3>5. (\A f \in Events : Has(f) => f.thread \in existing)'
      BY <2>1, <3>1, <3>2, <3>3 DEF KnownInv
    <3> QED
      BY <2>4, <3>3, <3>4, <3>5 DEF KnownInv, HasThread
  <2>6. CASE running[t] # stops[n].turn
    BY <1>14, <2>4, <2>6, StreamKept DEF KnownInv, CodexInterrupts, HasThread
  <2> QED
    BY <2>5, <2>6
<1>15. ASSUME NEW n \in DOMAIN stops, OnInterrupted(n) \/ OnInterruptFailed(n)
       PROVE  KnownInv'
  <2>1. stops' = [stops EXCEPT ![n].at = "done"] /\ UNCHANGED <<serverVars, stream, send>>
    BY <1>15 DEF OnInterrupted, OnInterruptFailed
  <2>2. /\ DOMAIN stops' = DOMAIN stops
        /\ \A m \in DOMAIN stops : stops'[m].thread = stops[m].thread /\ stops'[m].turn = stops[m].turn
    BY <2>1, StopMoves
  <2>3. (\A m \in DOMAIN stops : stops[m].thread \in existing /\ stops[m].turn # 0)'
    BY <2>1, <2>2 DEF KnownInv, serverVars
  <2> QED
    BY <2>1, <2>3, StreamKept DEF KnownInv, serverVars, HasThread
<1>16. CASE OnEvent
  <2>1. stream # <<>> /\ stream' = Tail(stream) /\ UNCHANGED <<serverVars, send, stops>>
    BY <1>16 DEF OnEvent, OnThreadStarted, OnTurnStarted, OnAgentDelta, OnTurnCompleted
  <2>2. \A f : Has(f)' => Has(f)
    BY <2>1, Taken
  <2> QED
    BY <2>1, <2>2 DEF KnownInv, serverVars, HasThread
<1>17. CASE UNCHANGED vars
  BY <1>17, StreamKept DEF vars, serverVars, KnownInv, HasThread
<1> QED
  BY <1>1, <1>2, <1>3, <1>4, <1>5, <1>6, <1>7, <1>8, <1>9, <1>10, <1>11, <1>12, <1>13,
     <1>14, <1>15, <1>16, <1>17, <1>18 DEF Next, OnEvent

-----------------------------------------------------------------------------
(* OwnInv                                                                   *)

(* A turn keeps its thread.                                                 *)
LEMMA TurnAdded ==
  ASSUME TypeOK, NEW s \in Threads, threadOf' = Append(threadOf, s)
  PROVE  /\ Len(threadOf) + 1 \in Nat
         /\ \A n, t : Of(n, t) => Of(n, t)'
         /\ \A n : n = Len(threadOf) + 1 => Of(n, s)'
         /\ Len(threadOf') = Len(threadOf) + 1
         /\ \A n, t : Of(n, t) => n \in Nat /\ n <= Len(threadOf)
<1> PICK L : L = Len(threadOf)
  OBVIOUS
<1>1. L \in Nat /\ DOMAIN threadOf = 1..L
  BY LenProperties DEF TypeOK
<1>2. /\ threadOf' \in Seq(Threads) /\ Len(threadOf') = L + 1
      /\ threadOf'[L + 1] = s
      /\ \A n \in 1..L : threadOf'[n] = threadOf[n]
  BY AppendProperties DEF TypeOK
<1>3. DOMAIN threadOf' = 1..(L + 1)
  BY <1>2, LenProperties
<1> QED
  BY <1>1, <1>2, <1>3 DEF Of

LEMMA OfKept ==
  ASSUME threadOf' = threadOf
  PROVE  \A n, t : Of(n, t) => Of(n, t)'
  BY DEF Of

LEMMA OwnStep ==
  ASSUME TypeOK, OwnInv, KnownInv, [Next]_vars
  PROVE  OwnInv'
<1> stream \in Seq(Events) /\ stops \in Seq(Stops)
  BY DEF TypeOK
<1>0. ASSUME NEW s \in Threads, Starts(s),
             NEW k \in Nat, k = Len(threadOf) + 1
      PROVE  /\ before' <= Len(threadOf')
             /\ \A n, t : Of(n, t) => Of(n, t)'
             /\ Of(k, s)' /\ k > before /\ before' = before
             /\ (\A t \in Threads : active[t] # 0 => Of(active[t], t))'
             /\ (\A t \in Threads, n \in Nat :
                   Has(Event("turn.started", t, n)) => Of(n, t) /\ n > before)'
  <2>1. threadOf' = Append(threadOf, s) /\ before' = before
    BY <1>0 DEF Starts
  <2>2. /\ \A n, t : Of(n, t) => Of(n, t)'
        /\ Of(k, s)' /\ Len(threadOf') = k
    BY <1>0, <2>1, TurnAdded
  <2> PICK L \in Nat : L = Len(threadOf)
    BY LenProperties DEF TypeOK
  <2>3. k > before /\ before <= k
    <3>1. before <= L /\ before \in Nat /\ k = L + 1
      BY <1>0 DEF OwnInv, TypeOK
    <3> QED
      BY <3>1
  <2>4. before' <= Len(threadOf')
    BY <2>1, <2>2, <2>3
  <2> PICK e : e = Event("turn.started", s, k)
    OBVIOUS
  <2>5. e \in Events /\ e.thread = s /\ e.turn = k
    BY EventType DEF Kinds
  <2>6. \A f : Has(f)' <=> Has(f) \/ f = e
    BY <1>0, <2>5, Published DEF Starts
  <2>7. (\A t \in Threads : active[t] # 0 => Of(active[t], t))'
    BY <1>0, <2>2 DEF OwnInv, Starts, uiVars
  <2>8. (\A t \in Threads, n \in Nat :
           Has(Event("turn.started", t, n)) => Of(n, t) /\ n > before)'
    <3> TAKE t \in Threads, n \in Nat
    <3>1. Event("turn.started", t, n).thread = t /\ Event("turn.started", t, n).turn = n
      BY EventType DEF Kinds
    <3>2. CASE Has(Event("turn.started", t, n))
      BY <2>1, <2>2, <3>2 DEF OwnInv
    <3>3. CASE Event("turn.started", t, n) = e
      BY <2>1, <2>2, <2>3, <2>5, <3>1, <3>3
    <3>4. Has(Event("turn.started", t, n))' =>
            Has(Event("turn.started", t, n)) \/ Event("turn.started", t, n) = e
      BY <2>6 DEF Event
    <3> QED
      BY <3>2, <3>3, <3>4
  <2> QED
    BY <2>1, <2>2, <2>3, <2>4, <2>7, <2>8
<1>1. CASE CodexStarts
  <2> PICK s \in Threads : s = send.thread
    BY <1>1, SendThread DEF CodexStarts, HasThread
  <2> PICK k \in Nat : k = Len(threadOf) + 1
    BY LenProperties DEF TypeOK
  <2>1. Starts(s)
    BY <1>1 DEF CodexStarts
  <2>2. send'.turn = k /\ send'.thread = s
    BY <1>1 DEF CodexStarts, TypeOK, Sends
  <2>3. (send.at = "answered" => Of(send.turn, send.thread) /\ send.turn > before)'
    BY <1>0, <2>1, <2>2 DEF Of
  <2> QED
    BY <1>0, <2>1, <2>3 DEF OwnInv
<1>24. ASSUME NEW t \in Threads, StartsElsewhere(t)
       PROVE  OwnInv'
  <2> PICK k \in Nat : k = Len(threadOf) + 1
    BY LenProperties DEF TypeOK
  <2>1. Starts(t) /\ send' = send
    BY <1>24 DEF StartsElsewhere
  <2>2. (send.at = "answered" => Of(send.turn, send.thread) /\ send.turn > before)'
    BY <1>0, <2>1 DEF OwnInv
  <2> QED
    BY <1>0, <2>1, <2>2 DEF OwnInv
<1>2. ASSUME UNCHANGED <<threadOf, before, active, send>>,
             \A t \in Threads, n \in Nat :
               Has(Event("turn.started", t, n))' => Has(Event("turn.started", t, n))
      PROVE  OwnInv'
  BY <1>2, OfKept DEF OwnInv
<1>3. ASSUME UNCHANGED <<threadOf, before, active, send>>, stream' = stream
      PROVE  OwnInv'
  <2>1. \A f : Has(f)' <=> Has(f)
    BY <1>3, StreamKept
  <2>2. \A t \in Threads, n \in Nat :
          Has(Event("turn.started", t, n))' => Has(Event("turn.started", t, n))
    BY <2>1 DEF Event
  <2> QED
    BY <1>2, <1>3, <2>2
<1>4. ASSUME NEW e \in Events, Publish(e), e.kind # "turn.started"
      PROVE  \A t \in Threads, n \in Nat :
               Has(Event("turn.started", t, n))' => Has(Event("turn.started", t, n))
  <2> TAKE t \in Threads, n \in Nat
  <2> PICK f : f = Event("turn.started", t, n)
    OBVIOUS
  <2>1. f # e
    BY <1>4, EventType DEF Kinds
  <2>2. Has(f)' => Has(f)
    BY <1>4, <2>1, Published
  <2> QED
    BY <2>2 DEF Event
<1>5. ASSUME stream # <<>>, stream' = Tail(stream)
      PROVE  \A t \in Threads, n \in Nat :
               Has(Event("turn.started", t, n))' => Has(Event("turn.started", t, n))
  <2>1. \A f : Has(f)' => Has(f)
    BY <1>5, Taken
  <2> QED
    BY <2>1 DEF Event
<1>6. CASE CodexExits
  BY <1>3, <1>6 DEF CodexExits, uiVars
<1>7. ASSUME NEW t \in Threads, CodexSpeaks(t)
      PROVE  OwnInv'
  <2>1. Event("agent.delta", t, running[t]) \in Events
        /\ Event("agent.delta", t, running[t]).kind = "agent.delta"
    BY EventType DEF Kinds, TypeOK
  <2> QED
    BY <1>2, <1>4, <1>7, <2>1 DEF CodexSpeaks, uiVars
<1>8. ASSUME NEW t \in Threads, CodexCompletes(t)
      PROVE  OwnInv'
  <2>1. Event("turn.completed", t, running[t]) \in Events
        /\ Event("turn.completed", t, running[t]).kind = "turn.completed"
    BY EventType DEF Kinds, TypeOK
  <2> QED
    BY <1>2, <1>4, <1>8, <2>1 DEF CodexCompletes, uiVars
<1>9. ASSUME NEW t \in Threads, CodexCreates(t)
      PROVE  OwnInv'
  <2>1. Event("thread.started", t, 0) \in Events
        /\ Event("thread.started", t, 0).kind = "thread.started"
    BY EventType DEF Kinds
  <2>2. \A u \in Threads, n \in Nat :
          Has(Event("turn.started", u, n))' => Has(Event("turn.started", u, n))
    BY <1>4, <1>9, <2>1 DEF CodexCreates
  <2>3. (send.at = "answered" => Of(send.turn, send.thread) /\ send.turn > before)'
    <3>1. CASE send' = [send EXCEPT !.at = "created", !.thread = t]
      BY <3>1 DEF TypeOK, Sends
    <3>2. CASE UNCHANGED send
      BY <1>9, <3>2, OfKept DEF OwnInv, CodexCreates
    <3> QED
      BY <1>9, <3>1, <3>2 DEF CodexCreates
  <2> QED
    BY <1>9, <2>2, <2>3, OfKept DEF OwnInv, CodexCreates, uiVars
<1>10. ASSUME NEW t \in Threads, SelectThread(t)
       PROVE  OwnInv'
  BY <1>3, <1>10 DEF SelectThread, serverVars
<1>11. ASSUME UNCHANGED <<threadOf, before, active, stream>>, send'.at # "answered"
       PROVE  OwnInv'
  <2>1. \A f : Has(f)' <=> Has(f)
    BY <1>11, StreamKept
  <2>2. \A t \in Threads, n \in Nat :
          Has(Event("turn.started", t, n))' => Has(Event("turn.started", t, n))
    BY <2>1 DEF Event
  <2> QED
    BY <1>11, <2>2, OfKept DEF OwnInv
<1>12. CASE Submit \/ ResumeFails \/ CreateFails \/ Post
  <2>1. UNCHANGED <<threadOf, before, active, stream>>
    BY <1>12 DEF Submit, ResumeFails, CreateFails, Post, serverVars, uiVars
  <2>2. send'.at # "answered"
    <3>1. CASE Submit
      BY <3>1 DEF Submit
    <3>2. CASE ResumeFails
      BY <3>2 DEF ResumeFails, TypeOK, Sends
    <3>3. CASE CreateFails
      BY <3>3 DEF CreateFails, Idle
    <3>4. CASE Post
      BY <3>4 DEF Post, TypeOK, Sends
    <3> QED
      BY <1>12, <3>1, <3>2, <3>3, <3>4
  <2> QED
    BY <1>11, <2>1, <2>2
<1>13. ASSUME UNCHANGED <<threadOf, before>>, send'.at = "answered" => UNCHANGED send,
              stream' = stream \/ (stream # <<>> /\ stream' = Tail(stream)),
              NEW s \in Threads, NEW k \in Nat,
              active' = [active EXCEPT ![s] = k], k # 0 => Of(k, s)
       PROVE  OwnInv'
  <2>1. \A f : Has(f)' => Has(f)
    BY <1>13, StreamKept, Taken
  <2>2. \A t \in Threads, n \in Nat :
          Has(Event("turn.started", t, n))' => Has(Event("turn.started", t, n))
    BY <2>1 DEF Event
  <2>3. \A n, t : Of(n, t) => Of(n, t)'
    BY <1>13, OfKept
  <2>4. \A t \in Threads : active'[t] = IF t = s THEN k ELSE active[t]
    BY <1>13 DEF TypeOK
  <2>5. (\A t \in Threads : active[t] # 0 => Of(active[t], t))'
    <3> SUFFICES ASSUME NEW t \in Threads, NEW m, m = active'[t], m # 0
                 PROVE  Of(m, t)'
      BY DEF Of
    <3>1. Of(m, t)
      BY <1>13, <2>4 DEF OwnInv
    <3> QED
      BY <2>3, <3>1
  <2>6. (send.at = "answered" => Of(send.turn, send.thread) /\ send.turn > before)'
    BY <1>13, <2>3 DEF OwnInv
  <2>7. (\A t \in Threads, n \in Nat : Has(Event("turn.started", t, n)) => Of(n, t) /\ n > before)'
    BY <1>13, <2>2, <2>3 DEF OwnInv
  <2>8. (before <= Len(threadOf))'
    BY <1>13 DEF OwnInv
  <2> QED
    BY <2>5, <2>6, <2>7, <2>8 DEF OwnInv
<1>14. CASE OnStarted
  <2>1. send.thread \in Threads /\ send.turn \in Nat
    BY <1>14, SendThread DEF OnStarted, HasThread
  <2> QED
    BY <1>13, <1>14, <2>1 DEF OnStarted, OwnInv, Idle, serverVars
<1>15. CASE OnStartFailed
  <2>1. send.thread \in Threads
    BY <1>15, SendThread DEF OnStartFailed, HasThread
  <2> QED
    BY <1>13, <1>15, <2>1 DEF OnStartFailed, Idle, serverVars
<1>16. CASE Interrupt
  BY <1>3, <1>16 DEF Interrupt, serverVars, uiVars
<1>17. ASSUME NEW n \in DOMAIN stops, CodexInterrupts(n)
       PROVE  OwnInv'
  <2> PICK t \in Threads : t = stops[n].thread
    BY StopType
  <2>1. Event("turn.completed", t, running[t]) \in Events
        /\ Event("turn.completed", t, running[t]).kind = "turn.completed"
    BY EventType DEF Kinds, TypeOK
  <2>2. UNCHANGED <<threadOf, before, active, send>>
    BY <1>17 DEF CodexInterrupts, uiVars
  <2>3. stream' = stream \/ Publish(Event("turn.completed", t, running[t]))
    BY <1>17 DEF CodexInterrupts
  <2> QED
    BY <1>2, <1>3, <1>4, <2>1, <2>2, <2>3
<1>18. ASSUME NEW n \in DOMAIN stops, OnInterrupted(n)
       PROVE  OwnInv'
  <2> PICK t \in Threads : t = stops[n].thread
    BY StopType
  <2> QED
    BY <1>13, <1>18 DEF OnInterrupted, serverVars
<1>19. ASSUME NEW n \in DOMAIN stops, OnInterruptFailed(n)
       PROVE  OwnInv'
  BY <1>3, <1>19 DEF OnInterruptFailed, serverVars, uiVars
<1>20. CASE OnThreadStarted \/ OnAgentDelta
  BY <1>2, <1>5, <1>20 DEF OnThreadStarted, OnAgentDelta, serverVars
<1>21. CASE OnTurnStarted
  <2> PICK e : e = Head(stream)
    OBVIOUS
  <2>1. e \in Events /\ Has(e) /\ e.kind = "turn.started"
    BY <1>21, Taken DEF OnTurnStarted
  <2>2. e = Event("turn.started", e.thread, e.turn) /\ e.thread \in Threads /\ e.turn \in Nat
    BY <2>1 DEF Event, Events
  <2>3. Of(e.turn, e.thread)
    BY <2>1, <2>2 DEF OwnInv
  <2> QED
    BY <1>13, <1>21, <2>2, <2>3 DEF OnTurnStarted, serverVars
<1>22. CASE OnTurnCompleted
  <2> PICK e : e = Head(stream)
    OBVIOUS
  <2>1. e.thread \in Threads
    BY <1>22, Taken DEF OnTurnCompleted, Events
  <2> QED
    BY <1>13, <1>22, <2>1 DEF OnTurnCompleted, serverVars
<1>23. CASE UNCHANGED vars
  BY <1>3, <1>23 DEF vars, serverVars, uiVars
<1> QED
  BY <1>1, <1>6, <1>7, <1>8, <1>9, <1>10, <1>12, <1>14, <1>15, <1>16, <1>17, <1>18, <1>19,
     <1>20, <1>21, <1>22, <1>23, <1>24 DEF Next


(* What Stop asks for stays a turn of its thread.                           *)
LEMMA StopsOwnStep ==
  ASSUME TypeOK, KnownInv, OwnInv, StopsOwn, [Next]_vars
  PROVE  StopsOwn'
<1> stops \in Seq(Stops)
  BY DEF TypeOK
<1>1. \A n, t : Of(n, t) => Of(n, t)'
  <2>1. CASE threadOf' = threadOf
    BY <2>1, OfKept
  <2>2. ASSUME NEW s \in Threads, threadOf' = Append(threadOf, s)
        PROVE  \A n, t : Of(n, t) => Of(n, t)'
    BY <2>2, TurnAdded
  <2>3. threadOf' = threadOf \/ \E s \in Threads : threadOf' = Append(threadOf, s)
    <3>1. CASE CodexStarts
      BY <3>1, SendThread DEF CodexStarts, Starts, HasThread
    <3>2. ASSUME NEW t \in Threads, StartsElsewhere(t)
          PROVE  threadOf' = Append(threadOf, t)
      BY <3>2 DEF StartsElsewhere, Starts
    <3> QED
      BY <3>1, <3>2 DEF Next, vars, serverVars, CodexExits, CodexSpeaks, CodexCompletes,
         CodexCreates, SelectThread, Submit, ResumeFails, CreateFails, Post, OnStarted,
         OnStartFailed, Interrupt, CodexInterrupts, OnInterrupted, OnInterruptFailed,
         OnThreadStarted, OnTurnStarted, OnAgentDelta, OnTurnCompleted
  <2> QED
    BY <2>1, <2>2, <2>3
<1>2. ASSUME \A m \in DOMAIN stops' :
               \/ /\ m \in DOMAIN stops
                  /\ stops'[m].thread = stops[m].thread /\ stops'[m].turn = stops[m].turn
               \/ Of(stops'[m].turn, stops'[m].thread)
      PROVE  StopsOwn'
  <2> SUFFICES ASSUME NEW m \in DOMAIN stops', NEW n, NEW t,
                      n = stops'[m].turn, t = stops'[m].thread
               PROVE  Of(n, t)'
    BY DEF StopsOwn, Of
  <2>1. Of(n, t)
    BY <1>2 DEF StopsOwn
  <2> QED
    BY <1>1, <2>1
<1>3. CASE Interrupt
  <2> PICK s : s = [at |-> "posting", thread |-> current, turn |-> active[current]]
    OBVIOUS
  <2>1. s \in Stops /\ Of(s.turn, s.thread)
    BY <1>3 DEF Interrupt, Stops, TypeOK, OwnInv
  <2>2. \A m \in DOMAIN stops' :
          (m \in DOMAIN stops /\ stops'[m] = stops[m]) \/ stops'[m] = s
    BY <1>3, <2>1, StopAdded DEF Interrupt
  <2> QED
    BY <1>2, <2>1, <2>2
<1>4. ASSUME NEW n \in DOMAIN stops,
             CodexInterrupts(n) \/ OnInterrupted(n) \/ OnInterruptFailed(n)
      PROVE  StopsOwn'
  <2>1. \E at \in {"posting", "answered", "refused", "done"} :
          stops' = [stops EXCEPT ![n].at = at]
    BY <1>4 DEF CodexInterrupts, OnInterrupted, OnInterruptFailed
  <2>2. /\ DOMAIN stops' = DOMAIN stops
        /\ \A m \in DOMAIN stops : stops'[m].thread = stops[m].thread /\ stops'[m].turn = stops[m].turn
    BY <2>1, StopMoves
  <2> QED
    BY <1>2, <2>2
<1>5. CASE stops' = stops
  BY <1>2, <1>5
<1> QED
  BY <1>3, <1>4, <1>5 DEF Next, vars, CodexStarts, StartsElsewhere, Starts, CodexExits,
     CodexSpeaks, CodexCompletes, CodexCreates, SelectThread, Submit, ResumeFails, CreateFails,
     Post, OnStarted, OnStartFailed, OnThreadStarted, OnTurnStarted, OnAgentDelta,
     OnTurnCompleted

-----------------------------------------------------------------------------
(* FlagsInv                                                                 *)

LEMMA FlagsStep ==
  ASSUME TypeOK, FlagsInv, KnownInv, [Next]_vars
  PROVE  FlagsInv'
<1> stream \in Seq(Events) /\ stops \in Seq(Stops)
  BY DEF TypeOK
<1>1. ASSUME NEW e \in Events, Publish(e)
      PROVE  \A t : Coming(t, "turn.completed")' <=>
                      Coming(t, "turn.completed") \/ (e.thread = t /\ e.kind = "turn.completed")
  BY <1>1, Published
<1>0. ASSUME NEW s \in Threads, Starts(s)
      PROVE  /\ \A t : Coming(t, "turn.completed") => Coming(t, "turn.completed")'
             /\ \A t \in Threads : running[t] # 0 => running'[t] # 0
             /\ running'[s] # 0
             /\ UNCHANGED <<crashes, uiVars>>
  <2> PICK k \in Nat \ {0} : k = Len(threadOf) + 1
    BY LenProperties DEF TypeOK
  <2>1. Event("turn.started", s, k) \in Events
    BY EventType DEF Kinds
  <2>2. \A t : Coming(t, "turn.completed") => Coming(t, "turn.completed")'
    BY <1>0, <1>1, <2>1 DEF Starts
  <2>3. \A t \in Threads : running'[t] = IF t = s THEN k ELSE running[t]
    BY <1>0 DEF Starts, TypeOK
  <2> QED
    BY <1>0, <2>2, <2>3 DEF Starts
<1>2. CASE CodexStarts
  <2> PICK s \in Threads : s = send.thread
    BY <1>2, SendThread DEF CodexStarts, HasThread
  <2>1. Starts(s)
    BY <1>2 DEF CodexStarts
  <2>2. send'.at = "answered" /\ send'.thread = s /\ send.at = "posting"
    BY <1>2 DEF CodexStarts, TypeOK, Sends
  <2> QED
    BY <1>0, <2>1, <2>2 DEF FlagsInv, uiVars
<1>23. ASSUME NEW t \in Threads, StartsElsewhere(t)
       PROVE  FlagsInv'
  BY <1>0, <1>23 DEF StartsElsewhere, FlagsInv, uiVars
<1>3. CASE CodexExits
  <2>1. crashes' # 0
    BY <1>3 DEF CodexExits, TypeOK
  <2> QED
    BY <1>3, <2>1 DEF FlagsInv, CodexExits, uiVars
<1>4. ASSUME NEW t \in Threads, CodexSpeaks(t)
      PROVE  FlagsInv'
  <2>1. Event("agent.delta", t, running[t]) \in Events
    BY EventType DEF Kinds, TypeOK
  <2>2. \A u : Coming(u, "turn.completed") => Coming(u, "turn.completed")'
    BY <1>1, <1>4, <2>1 DEF CodexSpeaks
  <2> QED
    BY <1>4, <2>2 DEF FlagsInv, CodexSpeaks, uiVars
<1>5. ASSUME NEW t \in Threads, UNCHANGED <<crashes, uiVars, send>>,
             running' = [running EXCEPT ![t] = 0],
             Publish(Event("turn.completed", t, running[t]))
      PROVE  FlagsInv'
  <2> PICK e : e = Event("turn.completed", t, running[t])
    OBVIOUS
  <2>1. e \in Events /\ e.thread = t /\ e.kind = "turn.completed"
    BY EventType DEF Kinds, TypeOK
  <2>2. /\ \A u : Coming(u, "turn.completed") => Coming(u, "turn.completed")'
        /\ Coming(t, "turn.completed")'
    BY <1>1, <1>5, <2>1
  <2>3. \A u \in Threads : running'[u] = IF u = t THEN 0 ELSE running[u]
    BY <1>5 DEF TypeOK
  <2> QED
    BY <1>5, <2>2, <2>3 DEF FlagsInv, uiVars
<1>6. ASSUME NEW t \in Threads, CodexCompletes(t)
      PROVE  FlagsInv'
  BY <1>5, <1>6 DEF CodexCompletes
<1>7. ASSUME NEW t \in Threads, CodexCreates(t)
      PROVE  FlagsInv'
  <2>1. Event("thread.started", t, 0) \in Events
    BY EventType DEF Kinds
  <2>2. \A u : Coming(u, "turn.completed") => Coming(u, "turn.completed")'
    BY <1>1, <1>7, <2>1 DEF CodexCreates
  <2>3. send' = send \/ send.at = "creating"
    BY <1>7 DEF CodexCreates
  <2> QED
    BY <1>7, <2>2, <2>3 DEF FlagsInv, CodexCreates, uiVars
<1>8. ASSUME UNCHANGED <<crashes, running, stream, sending, awaiting>>,
             UNCHANGED send \/ send.at \in {"idle", "resuming", "creating"}
      PROVE  FlagsInv'
  BY <1>8, StreamKept DEF FlagsInv
<1>9. ASSUME NEW t \in Threads, SelectThread(t)
      PROVE  FlagsInv'
  BY <1>8, <1>9 DEF SelectThread, serverVars
<1>10. CASE Submit \/ ResumeFails \/ CreateFails
  BY <1>8, <1>10 DEF Submit, ResumeFails, CreateFails, serverVars, uiVars
<1>11. CASE Post
  <2> PICK s \in Threads : s = send.thread
    BY <1>11, SendThread DEF Post, HasThread
  <2>1. send'.at = "posting" /\ send'.thread = s
    BY <1>11 DEF Post, TypeOK, Sends
  <2>2. \A t \in Threads : t # s => (sending'[t] <=> sending[t]) /\ (awaiting'[t] <=> awaiting[t])
    BY <1>11 DEF Post, TypeOK
  <2>3. send.at \notin {"posting", "answered"}
    BY <1>11 DEF Post
  <2>4. UNCHANGED <<crashes, running, stream>>
    BY <1>11 DEF Post, serverVars
  <2> QED
    BY <2>1, <2>2, <2>3, <2>4, StreamKept DEF FlagsInv
<1>12. CASE OnStarted
  <2> PICK s \in Threads : s = send.thread
    BY <1>12, SendThread DEF OnStarted, HasThread
  <2>1. \A t \in Threads : sending'[t] <=> t # s /\ sending[t]
    BY <1>12 DEF OnStarted, TypeOK
  <2>2. UNCHANGED <<crashes, running, stream, awaiting>> /\ send.at = "answered"
    BY <1>12 DEF OnStarted, serverVars
  <2> QED
    BY <2>1, <2>2, StreamKept DEF FlagsInv
<1>13. CASE OnStartFailed
  <2> PICK s \in Threads : s = send.thread
    BY <1>13, SendThread DEF OnStartFailed, HasThread
  <2>1. \A t \in Threads : /\ sending'[t] <=> t # s /\ sending[t]
                           /\ awaiting'[t] <=> t # s /\ awaiting[t]
    BY <1>13 DEF OnStartFailed, TypeOK
  <2>2. UNCHANGED <<crashes, running, stream>>
    BY <1>13 DEF OnStartFailed, serverVars
  <2> QED
    BY <2>1, <2>2, StreamKept DEF FlagsInv
<1>14. CASE Interrupt
  BY <1>8, <1>14 DEF Interrupt, serverVars, uiVars
<1>15. ASSUME NEW n \in DOMAIN stops, CodexInterrupts(n)
       PROVE  FlagsInv'
  <2> PICK t \in Threads : t = stops[n].thread
    BY StopType
  <2>1. CASE running[t] = stops[n].turn
    BY <1>5, <1>15, <2>1 DEF CodexInterrupts
  <2>2. CASE running[t] # stops[n].turn
    BY <1>8, <1>15, <2>2 DEF CodexInterrupts, uiVars
  <2> QED
    BY <2>1, <2>2
<1>16. ASSUME NEW n \in DOMAIN stops, OnInterrupted(n)
       PROVE  FlagsInv'
  <2> PICK s \in Threads : s = stops[n].thread
    BY StopType
  <2>1. \A t \in Threads : /\ sending'[t] <=> t # s /\ sending[t]
                           /\ awaiting'[t] <=> t # s /\ awaiting[t]
    BY <1>16 DEF OnInterrupted, TypeOK
  <2>2. UNCHANGED <<crashes, running, stream, send>>
    BY <1>16 DEF OnInterrupted, serverVars
  <2> QED
    BY <2>1, <2>2, StreamKept DEF FlagsInv
<1>17. ASSUME NEW n \in DOMAIN stops, OnInterruptFailed(n)
       PROVE  FlagsInv'
  BY <1>8, <1>17 DEF OnInterruptFailed, serverVars, uiVars
<1>18. ASSUME stream # <<>>, stream' = Tail(stream), Head(stream).kind # "turn.completed"
       PROVE  \A t : Coming(t, "turn.completed") => Coming(t, "turn.completed")'
  BY <1>18, Taken
<1>19. CASE OnThreadStarted \/ OnTurnStarted
  <2>1. UNCHANGED <<crashes, running, sending, awaiting, send>>
    BY <1>19 DEF OnThreadStarted, OnTurnStarted, serverVars
  <2>2. \A t : Coming(t, "turn.completed") => Coming(t, "turn.completed")'
    BY <1>18, <1>19 DEF OnThreadStarted, OnTurnStarted
  <2> QED
    BY <2>1, <2>2 DEF FlagsInv
<1>20. CASE OnAgentDelta
  <2> PICK s \in Threads : s = Head(stream).thread
    BY <1>20, Taken DEF OnAgentDelta, Events
  <2>1. \A t \in Threads : awaiting'[t] <=> t # s /\ awaiting[t]
    BY <1>20 DEF OnAgentDelta, TypeOK
  <2>2. \A t : Coming(t, "turn.completed") => Coming(t, "turn.completed")'
    BY <1>18, <1>20 DEF OnAgentDelta
  <2>3. UNCHANGED <<crashes, running, sending, send>>
    BY <1>20 DEF OnAgentDelta, serverVars
  <2> QED
    BY <2>1, <2>2, <2>3 DEF FlagsInv
<1>21. CASE OnTurnCompleted
  <2> PICK s \in Threads : s = Head(stream).thread
    BY <1>21, Taken DEF OnTurnCompleted, Events
  <2>1. \A t \in Threads : /\ sending'[t] <=> t # s /\ sending[t]
                           /\ awaiting'[t] <=> t # s /\ awaiting[t]
    BY <1>21 DEF OnTurnCompleted, TypeOK
  <2>2. \A t : Coming(t, "turn.completed") => Coming(t, "turn.completed")' \/ t = s
    BY <1>21, Taken DEF OnTurnCompleted
  <2>3. UNCHANGED <<crashes, running, send>>
    BY <1>21 DEF OnTurnCompleted, serverVars
  <2> QED
    BY <2>1, <2>2, <2>3 DEF FlagsInv
<1>22. CASE UNCHANGED vars
  BY <1>8, <1>22 DEF vars, serverVars, uiVars
<1> QED
  BY <1>2, <1>3, <1>4, <1>6, <1>7, <1>9, <1>10, <1>11, <1>12, <1>13, <1>14, <1>15, <1>16,
     <1>17, <1>19, <1>20, <1>21, <1>22, <1>23 DEF Next

-----------------------------------------------------------------------------
(* NewsInv                                                                  *)

(* An event is published: it is the last news of the thread it is about.    *)
LEMMA LastPublished ==
  ASSUME stream \in Seq(Events), NEW e \in Events, Publish(e), NEW t
  PROVE  /\ Silent(t)' => Silent(t) /\ ~IsNews(e, t)
         /\ \A f : Last(t, f)' => (IsNews(e, t) /\ f = e) \/ (~IsNews(e, t) /\ Last(t, f))
<1> PICK L : L = Len(stream)
  OBVIOUS
<1>1. /\ DOMAIN stream = 1..L /\ L \in Nat
      /\ DOMAIN stream' = 1..(L + 1) /\ stream'[L + 1] = e
      /\ \A n \in 1..L : stream'[n] = stream[n]
  BY Published
<1>2. Silent(t)' => Silent(t) /\ ~IsNews(e, t)
  BY <1>1 DEF Silent, IsNews
<1>3. ASSUME NEW f, Last(t, f)'
      PROVE  (IsNews(e, t) /\ f = e) \/ (~IsNews(e, t) /\ Last(t, f))
  <2> PICK i \in 1..(L + 1) :
        /\ stream'[i] = f /\ IsNews(f, t)
        /\ \A j \in 1..(L + 1) : IsNews(stream'[j], t) => j <= i
    BY <1>1, <1>3 DEF Last, IsNews
  <2>1. CASE IsNews(e, t)
    <3>1. L + 1 <= i
      BY <1>1, <2>1
    <3>2. i = L + 1
      BY <1>1, <3>1
    <3> QED
      BY <1>1, <2>1, <3>2
  <2>2. CASE ~IsNews(e, t)
    <3>1. i # L + 1
      BY <1>1, <2>2
    <3>2. i \in 1..L /\ stream[i] = f
      BY <1>1, <3>1
    <3>3. \A j \in 1..L : IsNews(stream[j], t) => j <= i
      BY <1>1
    <3> QED
      BY <1>1, <2>2, <3>2, <3>3 DEF Last
  <2> QED
    BY <2>1, <2>2
<1> QED
  BY <1>2, <1>3

(* The first event is taken: what was the last news still is, unless that   *)
(* was it.                                                                  *)
LEMMA LastTaken ==
  ASSUME stream \in Seq(Events), stream # <<>>, stream' = Tail(stream),
         NEW e, e = Head(stream), NEW t
  PROVE  /\ Silent(t)' => Silent(t) \/ (IsNews(e, t) /\ Last(t, e))
         /\ \A f : Last(t, f)' => Last(t, f)
<1> PICK L : L = Len(stream)
  OBVIOUS
<1>1. /\ DOMAIN stream = 1..L /\ L \in Nat \ {0}
      /\ DOMAIN stream' = 1..(L - 1) /\ stream[1] = e
      /\ \A n \in 1..(L - 1) : stream'[n] = stream[n + 1]
  BY Taken
<1>2. \A n \in 1..L : n = 1 \/ (n - 1 \in 1..(L - 1) /\ stream'[n - 1] = stream[n])
  <2> SUFFICES ASSUME NEW n \in 1..L, n # 1
               PROVE  n - 1 \in 1..(L - 1) /\ stream'[n - 1] = stream[n]
    OBVIOUS
  <2>1. n - 1 \in 1..(L - 1) /\ (n - 1) + 1 = n
    BY <1>1
  <2>2. stream'[n - 1] = stream[(n - 1) + 1]
    BY <1>1, <2>1
  <2> QED
    BY <2>1, <2>2
<1>3. ASSUME Silent(t)'
      PROVE  Silent(t) \/ (IsNews(e, t) /\ Last(t, e))
  <2>1. \A n \in 1..(L - 1) : ~IsNews(stream'[n], t)
    BY <1>1, <1>3 DEF Silent, IsNews
  <2>2. \A n \in 1..L : n # 1 => ~IsNews(stream[n], t)
    BY <1>2, <2>1
  <2>3. CASE IsNews(e, t)
    <3>1. \A j \in 1..L : IsNews(stream[j], t) => j <= 1
      BY <2>2
    <3>2. 1 \in 1..L
      BY <1>1
    <3> QED
      BY <1>1, <2>3, <3>1, <3>2 DEF Last
  <2>4. CASE ~IsNews(e, t)
    BY <1>1, <2>2, <2>4 DEF Silent
  <2> QED
    BY <2>3, <2>4
<1>4. ASSUME NEW f, Last(t, f)'
      PROVE  Last(t, f)
  <2> PICK i \in 1..(L - 1) :
        /\ stream'[i] = f /\ IsNews(f, t)
        /\ \A j \in 1..(L - 1) : IsNews(stream'[j], t) => j <= i
    BY <1>1, <1>4 DEF Last, IsNews
  <2>1. i + 1 \in 1..L /\ stream[i + 1] = f
    BY <1>1
  <2>2. ASSUME NEW n \in 1..L, IsNews(stream[n], t)
        PROVE  n <= i + 1
    <3>1. CASE n = 1
      BY <3>1
    <3>2. CASE n # 1
      <4>1. n - 1 \in 1..(L - 1) /\ IsNews(stream'[n - 1], t)
        BY <1>2, <2>2, <3>2
      <4>2. n - 1 <= i
        BY <4>1
      <4> QED
        BY <1>1, <4>2
    <3> QED
      BY <3>1, <3>2
  <2> QED
    BY <1>1, <2>1, <2>2 DEF Last
<1> QED
  BY <1>3, <1>4

(* The stream tells of the turns of t what it told before.                  *)
SameNews(t) ==
  /\ Silent(t)' => Silent(t)
  /\ \A f : Last(t, f)' => Last(t, f)

Neutral == {"thread.started", "agent.delta"}

LEMMA NeutralEvent ==
  ASSUME stream \in Seq(Events), NEW t,
         \/ stream' = stream
         \/ \E e \in Events : e.kind \in Neutral /\ Publish(e)
         \/ stream # <<>> /\ stream' = Tail(stream) /\ Head(stream).kind \in Neutral
  PROVE  SameNews(t)
<1>1. CASE stream' = stream
  BY <1>1 DEF SameNews, Silent, Last, IsNews
<1>2. ASSUME NEW e \in Events, e.kind \in Neutral, Publish(e)
      PROVE  SameNews(t)
  <2>1. ~IsNews(e, t)
    BY <1>2 DEF Neutral, IsNews
  <2> QED
    BY <1>2, <2>1, LastPublished DEF SameNews
<1>3. CASE stream # <<>> /\ stream' = Tail(stream) /\ Head(stream).kind \in Neutral
  <2> PICK e : e = Head(stream)
    OBVIOUS
  <2>1. ~IsNews(e, t)
    BY <1>3 DEF Neutral, IsNews
  <2> QED
    BY <1>3, <2>1, LastTaken DEF SameNews
<1> QED
  BY <1>1, <1>2, <1>3

(* Nothing is told, and nothing runs, that did not before: it is enough that *)
(* what the UI shows stays right where the stream is silent.                *)
LEMMA NewsKept ==
  ASSUME NEW t, NewsOf(t), UNCHANGED <<running, before>>,
         \A f : Last(t, f)' => Last(t, f),
         NEW a, a = active'[t], NEW r, r = running[t],
         Silent(t)' => a = Known(r)
  PROVE  NewsOf(t)'
<1>1. (\A e \in Events : Last(t, e) => running[t] = Told(e))'
  <2> SUFFICES ASSUME NEW e \in Events, Last(t, e)'
               PROVE  running'[t] = Told(e)
    BY DEF Last, IsNews, Told, Events
  <2> QED
    BY DEF NewsOf
<1>2. (Silent(t) => active[t] = Known(running[t]))'
  BY DEF Known
<1> QED
  BY <1>1, <1>2 DEF NewsOf

LEMMA NewsUnchanged ==
  ASSUME TypeOK, NEW t, NewsOf(t), UNCHANGED <<running, before, active>>, SameNews(t)
  PROVE  NewsOf(t)'
<1> PICK a : a = active[t]
  OBVIOUS
<1> PICK r : r = running[t]
  OBVIOUS
<1>1. Silent(t)' => a = Known(r)
  BY DEF SameNews, NewsOf
<1> QED
  BY <1>1, NewsKept DEF SameNews

(* The server tells of the thread where it starts or ends a turn.           *)
LEMMA NewsTold ==
  ASSUME TypeOK, \A t \in Threads : NewsOf(t), NEW s \in Threads,
         NEW e \in Events, Publish(e), IsNews(e, s),
         running' = [running EXCEPT ![s] = Told(e)],
         UNCHANGED <<active, before>>
  PROVE  (\A t \in Threads : NewsOf(t))'
<1> SUFFICES ASSUME NEW t \in Threads
             PROVE  NewsOf(t)'
  OBVIOUS
<1> stream \in Seq(Events) /\ NewsOf(t)
  BY DEF TypeOK
<1>1. /\ Silent(t)' => Silent(t) /\ ~IsNews(e, t)
      /\ \A f : Last(t, f)' => (IsNews(e, t) /\ f = e) \/ (~IsNews(e, t) /\ Last(t, f))
  BY LastPublished
<1>2. running'[t] = IF t = s THEN Told(e) ELSE running[t]
  BY DEF TypeOK
<1>3. t # s => ~IsNews(e, t)
  BY DEF IsNews
<1>4. (\A f \in Events : Last(t, f) => running[t] = Told(f))'
  <2> SUFFICES ASSUME NEW f \in Events, Last(t, f)'
               PROVE  running'[t] = Told(f)
    BY DEF Last, IsNews, Told, Events
  <2>1. CASE t = s
    BY <1>1, <1>2, <2>1
  <2>2. CASE t # s
    BY <1>1, <1>2, <1>3, <2>2 DEF NewsOf
  <2> QED
    BY <2>1, <2>2
<1>5. (Silent(t) => active[t] = Known(running[t]))'
  <2> SUFFICES ASSUME Silent(t)'
               PROVE  (active[t] = Known(running[t]))'
    OBVIOUS
  <2>1. Silent(t) /\ t # s
    BY <1>1
  <2>2. active[t] = Known(running[t]) /\ running'[t] = running[t]
    BY <1>2, <2>1 DEF NewsOf
  <2> QED
    BY <2>2 DEF Known
<1> QED
  BY <1>4, <1>5 DEF NewsOf

(* What made the two ways of telling disagree stays so.                     *)
LEMMA AgreedBefore ==
  ASSUME TypeOK, [Next]_vars, crashes' = 0, ~crossed'
  PROVE  crashes = 0 /\ ~crossed
<1> crossed \in BOOLEAN
  BY DEF TypeOK
<1>1. CASE CodexExits
  BY <1>1 DEF CodexExits, TypeOK
<1>2. CASE CodexStarts
  BY <1>2 DEF CodexStarts, Starts
<1>3. ASSUME NEW t \in Threads,
             \/ StartsElsewhere(t) \/ CodexSpeaks(t) \/ CodexCompletes(t) \/ CodexCreates(t)
             \/ SelectThread(t)
      PROVE  crashes = 0 /\ ~crossed
  BY <1>3 DEF StartsElsewhere, Starts, CodexSpeaks, CodexCompletes, CodexCreates, SelectThread,
     serverVars
<1>4. CASE Submit \/ ResumeFails \/ CreateFails \/ Post \/ Interrupt
  BY <1>4 DEF Submit, ResumeFails, CreateFails, Post, Interrupt, serverVars
<1>5. CASE OnStarted
  <2>1. crashes' = crashes /\ crossed' = (crossed \/ Overtaken)
    BY <1>5 DEF OnStarted, serverVars
  <2> QED
    BY <2>1
<1>6. ASSUME NEW n \in DOMAIN stops,
             CodexInterrupts(n) \/ OnInterrupted(n) \/ OnInterruptFailed(n)
      PROVE  crashes = 0 /\ ~crossed
  BY <1>6 DEF CodexInterrupts, OnInterrupted, OnInterruptFailed, serverVars
<1>7. CASE OnStartFailed
  BY <1>7 DEF OnStartFailed, serverVars
<1>8. CASE OnThreadStarted \/ OnTurnStarted \/ OnAgentDelta \/ OnTurnCompleted
  BY <1>8 DEF OnThreadStarted, OnTurnStarted, OnAgentDelta, OnTurnCompleted, serverVars
<1>9. CASE UNCHANGED vars
  BY <1>9 DEF vars, serverVars
<1> QED
  BY <1>1, <1>2, <1>3, <1>4, <1>5, <1>6, <1>7, <1>8, <1>9 DEF Next

(* A turn starts: Stop has never asked for it.                              *)
LEMMA NewsStarts ==
  ASSUME TypeOK, StopsOwn, \A t \in Threads : NewsOf(t), StopsInv,
         NEW s \in Threads, Starts(s)
  PROVE  (\A t \in Threads : NewsOf(t))' /\ StopsInv'
<1> PICK L \in Nat : L = Len(threadOf)
  BY LenProperties DEF TypeOK
<1> PICK k \in Nat : k = L + 1
  OBVIOUS
<1> PICK e : e = Event("turn.started", s, k)
  OBVIOUS
<1>1. e \in Events /\ e.kind = "turn.started" /\ e.thread = s /\ e.turn = k /\ Publish(e)
  BY EventType DEF Kinds, Starts
<1>2. IsNews(e, s) /\ Told(e) = k
  BY <1>1 DEF IsNews, Told
<1>3. /\ running' = [running EXCEPT ![s] = Told(e)]
      /\ UNCHANGED <<active, before, stops>>
  BY <1>2 DEF Starts, uiVars
<1>4. (\A t \in Threads : NewsOf(t))'
  BY <1>1, <1>2, <1>3, NewsTold
<1>5. StopsInv'
  <2> SUFFICES ASSUME NEW n \in DOMAIN stops, stops[n].at = "answered",
                      NEW u \in Threads, u = stops[n].thread
               PROVE  running'[u] # stops[n].turn
    BY <1>3, StopType DEF StopsInv
  <2>1. stops[n].turn \in Nat /\ stops[n].turn <= L
    <3>1. DOMAIN threadOf = 1..L
      BY LenProperties DEF TypeOK
    <3> QED
      BY <3>1 DEF StopsOwn, Of
  <2>2. running'[u] = IF u = s THEN k ELSE running[u]
    BY <1>2, <1>3 DEF TypeOK
  <2>3. running[u] # stops[n].turn
    BY DEF StopsInv
  <2>4. k # stops[n].turn
    BY <2>1
  <2> QED
    BY <2>2, <2>3, <2>4
<1> QED
  BY <1>4, <1>5

(* A turn ends.                                                             *)
LEMMA NewsEnds ==
  ASSUME TypeOK, KnownInv, \A t \in Threads : NewsOf(t), StopsInv,
         NEW s \in Threads, running' = [running EXCEPT ![s] = 0],
         Publish(Event("turn.completed", s, running[s])),
         UNCHANGED <<active, before>>
  PROVE  /\ (\A t \in Threads : NewsOf(t))'
         /\ \A n \in DOMAIN stops :
              stops[n].at = "answered" => running'[stops[n].thread] # stops[n].turn
<1> PICK e : e = Event("turn.completed", s, running[s])
  OBVIOUS
<1>1. e \in Events /\ e.kind = "turn.completed" /\ e.thread = s /\ Publish(e)
  BY EventType DEF Kinds, TypeOK
<1>2. IsNews(e, s) /\ Told(e) = 0
  BY <1>1 DEF IsNews, Told
<1>3. (\A t \in Threads : NewsOf(t))'
  BY <1>1, <1>2, NewsTold
<1>4. ASSUME NEW n \in DOMAIN stops, stops[n].at = "answered",
             NEW u \in Threads, u = stops[n].thread
      PROVE  running'[u] # stops[n].turn
  <2>1. running'[u] = IF u = s THEN 0 ELSE running[u]
    BY DEF TypeOK
  <2>2. stops[n].turn # 0 /\ running[u] # stops[n].turn
    BY <1>4 DEF KnownInv, StopsInv
  <2> QED
    BY <2>1, <2>2
<1> QED
  BY <1>3, <1>4, StopType

(* Stop changes its place: to "answered" only when its turn does not run.   *)
LEMMA StopsMoved ==
  ASSUME TypeOK,
         NEW n \in DOMAIN stops,
         NEW at \in {"posting", "answered", "refused", "done"},
         stops' = [stops EXCEPT ![n].at = at],
         \A m \in DOMAIN stops :
           stops[m].at = "answered" => running'[stops[m].thread] # stops[m].turn,
         at = "answered" => running'[stops[n].thread] # stops[n].turn
  PROVE  StopsInv'
<1>1. /\ DOMAIN stops' = DOMAIN stops
      /\ stops'[n].at = at /\ stops'[n].thread = stops[n].thread
      /\ stops'[n].turn = stops[n].turn
      /\ \A m \in DOMAIN stops : m # n => stops'[m] = stops[m]
  BY StopMoves DEF TypeOK
<1> SUFFICES ASSUME NEW m \in DOMAIN stops, stops'[m].at = "answered"
             PROVE  running'[stops'[m].thread] # stops'[m].turn
  BY <1>1 DEF StopsInv
<1>2. CASE m = n
  BY <1>1, <1>2
<1>3. CASE m # n
  BY <1>1, <1>3
<1> QED
  BY <1>2, <1>3

(* The UI hears of the start or the end of a turn.                          *)
LEMMA NewsHeard ==
  ASSUME TypeOK, OwnInv, \A t \in Threads : NewsOf(t),
         OnTurnStarted \/ OnTurnCompleted
  PROVE  (\A t \in Threads : NewsOf(t))'
<1> PICK e : e = Head(stream)
  OBVIOUS
<1>1. /\ e \in Events /\ Has(e) /\ e.kind \in {"turn.started", "turn.completed"}
      /\ stream # <<>> /\ stream' = Tail(stream) /\ stream \in Seq(Events)
  BY Taken DEF OnTurnStarted, OnTurnCompleted, TypeOK
<1> PICK s \in Threads : s = e.thread
  BY <1>1 DEF Events
<1> PICK k \in Nat : k = Told(e)
  BY <1>1 DEF Events, Told
<1>2. UNCHANGED <<running, before>> /\ active' = [active EXCEPT ![s] = k]
  <2>1. CASE OnTurnStarted
    BY <2>1 DEF OnTurnStarted, serverVars, Told
  <2>2. CASE OnTurnCompleted
    BY <2>2 DEF OnTurnCompleted, serverVars, Told
  <2> QED
    BY <2>1, <2>2
<1>3. \A t \in Threads : active'[t] = IF t = s THEN k ELSE active[t]
  BY <1>2 DEF TypeOK
<1>4. Known(k) = k
  <2>1. CASE e.kind = "turn.started"
    <3>1. e = Event("turn.started", s, k)
      BY <1>1, <2>1 DEF Event, Events, Told
    <3>2. k > before
      BY <1>1, <3>1 DEF OwnInv
    <3> QED
      BY <3>2 DEF Known
  <2>2. CASE e.kind # "turn.started"
    BY <2>2 DEF Told, Known
  <2> QED
    BY <2>1, <2>2
<1> SUFFICES ASSUME NEW t \in Threads
             PROVE  NewsOf(t)'
  OBVIOUS
<1> PICK a : a = active'[t]
  OBVIOUS
<1> PICK r : r = running[t]
  OBVIOUS
<1>5. /\ Silent(t)' => Silent(t) \/ (IsNews(e, t) /\ Last(t, e))
      /\ \A f : Last(t, f)' => Last(t, f)
  BY <1>1, LastTaken
<1>6. NewsOf(t)
  OBVIOUS
<1>7. Silent(t)' => a = Known(r)
  <2> SUFFICES ASSUME Silent(t)'
               PROVE  a = Known(r)
    OBVIOUS
  <2>1. CASE t = s
    <3>1. IsNews(e, t)
      BY <1>1, <2>1 DEF IsNews
    <3>2. ~Silent(t)
      <4> PICK i \in DOMAIN stream : stream[i] = e
        BY <1>1 DEF Has
      <4> QED
        BY <3>1 DEF Silent
    <3>3. Last(t, e)
      BY <1>5, <3>2
    <3>4. r = k
      BY <1>1, <1>6, <3>3 DEF NewsOf
    <3> QED
      BY <1>3, <1>4, <2>1, <3>4
  <2>2. CASE t # s
    <3>1. ~IsNews(e, t)
      BY <2>2 DEF IsNews
    <3>2. Silent(t)
      BY <1>5, <3>1
    <3> QED
      BY <1>3, <1>6, <2>2, <3>2 DEF NewsOf
  <2> QED
    BY <2>1, <2>2
<1> QED
  BY <1>2, <1>5, <1>6, <1>7, NewsKept

(* The UI takes an answer about thread s: where the stream is silent, what  *)
(* it now shows is what runs.                                               *)
LEMMA NewsAnswered ==
  ASSUME TypeOK, \A t \in Threads : NewsOf(t),
         NEW s \in Threads, NEW k \in Nat, active' = [active EXCEPT ![s] = k],
         UNCHANGED <<running, before, stream>>,
         Silent(s) => k = Known(running[s])
  PROVE  (\A t \in Threads : NewsOf(t))'
<1> SUFFICES ASSUME NEW t \in Threads
             PROVE  NewsOf(t)'
  OBVIOUS
<1> PICK a : a = active'[t]
  OBVIOUS
<1> PICK r : r = running[t]
  OBVIOUS
<1>1. NewsOf(t) /\ SameNews(t)
  BY NeutralEvent DEF TypeOK
<1>2. Silent(t)' => a = Known(r)
  <2>1. active'[t] = IF t = s THEN k ELSE active[t]
    BY DEF TypeOK
  <2> QED
    BY <1>1, <2>1 DEF SameNews, NewsOf
<1> QED
  BY <1>1, <1>2, NewsKept DEF SameNews

LEMMA NewsStep ==
  ASSUME TypeOK, KnownInv, OwnInv, StopsOwn, NewsInv, [Next]_vars
  PROVE  NewsInv'
<1> SUFFICES ASSUME crashes' = 0, ~crossed'
             PROVE  (\A t \in Threads : NewsOf(t))' /\ StopsInv'
  BY DEF NewsInv
<1>1. crashes = 0 /\ ~crossed
  BY AgreedBefore
<1>2. (\A t \in Threads : NewsOf(t)) /\ StopsInv
  BY <1>1 DEF NewsInv
<1> stream \in Seq(Events) /\ stops \in Seq(Stops)
  BY DEF TypeOK
<1>3. CASE CodexStarts
  <2> PICK s \in Threads : s = send.thread
    BY <1>3, SendThread DEF CodexStarts, HasThread
  <2>1. Starts(s)
    BY <1>3 DEF CodexStarts
  <2> QED
    BY <1>2, <2>1, NewsStarts
<1>4. ASSUME NEW t \in Threads, StartsElsewhere(t)
      PROVE  (\A u \in Threads : NewsOf(u))' /\ StopsInv'
  BY <1>2, <1>4, NewsStarts DEF StartsElsewhere
<1>5. CASE CodexExits
  BY <1>1, <1>5 DEF CodexExits, TypeOK
<1>6. ASSUME UNCHANGED <<running, stops>>
      PROVE  StopsInv'
  BY <1>2, <1>6 DEF StopsInv
<1>7. ASSUME UNCHANGED <<running, before, active>>,
             \/ stream' = stream
             \/ \E e \in Events : e.kind \in Neutral /\ Publish(e)
             \/ stream # <<>> /\ stream' = Tail(stream) /\ Head(stream).kind \in Neutral
      PROVE  (\A u \in Threads : NewsOf(u))'
  <2> SUFFICES ASSUME NEW t \in Threads
               PROVE  NewsOf(t)'
    OBVIOUS
  <2>1. SameNews(t)
    BY <1>7, NeutralEvent
  <2> QED
    BY <1>2, <1>7, <2>1, NewsUnchanged
<1>8. ASSUME NEW t \in Threads, CodexSpeaks(t)
      PROVE  (\A u \in Threads : NewsOf(u))' /\ StopsInv'
  <2> PICK e : e = Event("agent.delta", t, running[t])
    OBVIOUS
  <2>1. e \in Events /\ e.kind \in Neutral /\ Publish(e)
    BY <1>8, EventType DEF Kinds, TypeOK, Neutral, CodexSpeaks
  <2> QED
    BY <1>6, <1>7, <1>8, <2>1 DEF CodexSpeaks, uiVars
<1>9. ASSUME NEW t \in Threads, CodexCompletes(t)
      PROVE  (\A u \in Threads : NewsOf(u))' /\ StopsInv'
  <2>1. /\ (\A u \in Threads : NewsOf(u))'
        /\ \A n \in DOMAIN stops :
             stops[n].at = "answered" => running'[stops[n].thread] # stops[n].turn
    BY <1>2, <1>9, NewsEnds DEF CodexCompletes, uiVars
  <2>2. stops' = stops
    BY <1>9 DEF CodexCompletes
  <2> QED
    BY <2>1, <2>2 DEF StopsInv
<1>10. ASSUME NEW t \in Threads, CodexCreates(t)
      PROVE  (\A u \in Threads : NewsOf(u))' /\ StopsInv'
  <2> PICK e : e = Event("thread.started", t, 0)
    OBVIOUS
  <2>1. e \in Events /\ e.kind \in Neutral /\ Publish(e)
    BY <1>10, EventType DEF Kinds, Neutral, CodexCreates
  <2> QED
    BY <1>6, <1>7, <1>10, <2>1 DEF CodexCreates, uiVars
<1>11. ASSUME NEW t \in Threads, SelectThread(t)
       PROVE  (\A u \in Threads : NewsOf(u))' /\ StopsInv'
  BY <1>6, <1>7, <1>11 DEF SelectThread, serverVars
<1>12. CASE Submit \/ ResumeFails \/ CreateFails \/ Post
  <2>1. UNCHANGED <<running, before, active, stream, stops>>
    BY <1>12 DEF Submit, ResumeFails, CreateFails, Post, serverVars, uiVars
  <2> QED
    BY <1>6, <1>7, <2>1
<1>13. CASE OnStarted
  <2> PICK s \in Threads : s = send.thread
    BY <1>13, SendThread DEF OnStarted, HasThread
  <2> PICK k \in Nat : k = send.turn
    BY DEF TypeOK, Sends
  <2>1. /\ UNCHANGED <<running, before, stream, stops>> /\ send.at = "answered"
        /\ active' = [active EXCEPT ![s] = k]
    BY <1>13 DEF OnStarted, serverVars
  <2>2. ~Overtaken
    <3>1. crossed' = (crossed \/ Overtaken)
      BY <1>13 DEF OnStarted
    <3> QED
      BY <3>1
  <2>3. Silent(s) => k = Known(running[s])
    <3> SUFFICES ASSUME Silent(s)
                 PROVE  k = Known(running[s])
      OBVIOUS
    <3>1. ASSUME NEW i \in DOMAIN stream
          PROVE  stream[i] # Event("turn.completed", s, k)
      <4>1. ~IsNews(stream[i], s)
        BY DEF Silent
      <4>2. IsNews(Event("turn.completed", s, k), s)
        BY EventType DEF Kinds, IsNews
      <4> QED
        BY <4>1, <4>2
    <3>2. running[s] = k
      BY <2>2, <3>1 DEF Overtaken
    <3>3. k > before
      BY <2>1 DEF OwnInv
    <3> QED
      BY <3>2, <3>3 DEF Known
  <2> QED
    BY <1>2, <1>6, <2>1, <2>3, NewsAnswered
<1>14. CASE OnStartFailed
  <2> PICK s \in Threads : s = send.thread
    BY <1>14, SendThread DEF OnStartFailed, HasThread
  <2>1. /\ UNCHANGED <<running, before, stream, stops>>
        /\ active' = [active EXCEPT ![s] = 0]
        /\ crossed' = (crossed \/ active[s] # 0)
    BY <1>14 DEF OnStartFailed, serverVars
  <2>2. active[s] = 0
    BY <2>1
  <2>3. Silent(s) => 0 = Known(running[s])
    BY <1>2, <2>2 DEF NewsOf
  <2>4. 0 \in Nat
    OBVIOUS
  <2> QED
    BY <1>2, <1>6, <2>1, <2>3, <2>4, NewsAnswered
<1>15. CASE Interrupt
  <2> PICK s : s = [at |-> "posting", thread |-> current, turn |-> active[current]]
    OBVIOUS
  <2>1. s \in Stops /\ s.at = "posting"
    BY <1>15 DEF Interrupt, Stops, TypeOK
  <2>2. \A m \in DOMAIN stops' :
          (m \in DOMAIN stops /\ stops'[m] = stops[m]) \/ stops'[m] = s
    BY <1>15, <2>1, StopAdded DEF Interrupt
  <2>3. UNCHANGED <<running, before, active, stream>>
    BY <1>15 DEF Interrupt, serverVars, uiVars
  <2>4. StopsInv'
    BY <1>2, <2>1, <2>2, <2>3 DEF StopsInv
  <2> QED
    BY <1>7, <2>3, <2>4
<1>16. ASSUME NEW n \in DOMAIN stops, CodexInterrupts(n)
       PROVE  (\A t \in Threads : NewsOf(t))' /\ StopsInv'
  <2> PICK t \in Threads : t = stops[n].thread
    BY StopType
  <2>1. CASE running[t] = stops[n].turn
    <3>1. /\ running' = [running EXCEPT ![t] = 0]
          /\ Publish(Event("turn.completed", t, running[t]))
          /\ stops' = [stops EXCEPT ![n].at = "answered"]
          /\ UNCHANGED <<active, before>>
      BY <1>16, <2>1 DEF CodexInterrupts, uiVars
    <3>2. /\ (\A u \in Threads : NewsOf(u))'
          /\ \A m \in DOMAIN stops :
               stops[m].at = "answered" => running'[stops[m].thread] # stops[m].turn
      BY <1>2, <3>1, NewsEnds
    <3>3. running'[stops[n].thread] # stops[n].turn
      BY <3>1 DEF KnownInv, TypeOK
    <3>4. StopsInv'
      BY <3>1, <3>2, <3>3, StopsMoved
    <3> QED
      BY <3>2, <3>4
  <2>2. CASE running[t] # stops[n].turn
    <3>1. /\ UNCHANGED <<running, before, active, stream>>
          /\ stops' = [stops EXCEPT ![n].at = "refused"]
      BY <1>16, <2>2 DEF CodexInterrupts, uiVars
    <3>2. \A m \in DOMAIN stops :
            stops[m].at = "answered" => running'[stops[m].thread] # stops[m].turn
      BY <1>2, <3>1 DEF StopsInv
    <3> QED
      BY <1>7, <3>1, <3>2, StopsMoved
  <2> QED
    BY <2>1, <2>2
<1>17. ASSUME NEW n \in DOMAIN stops, OnInterrupted(n) \/ OnInterruptFailed(n)
       PROVE  StopsInv'
  <2>1. stops' = [stops EXCEPT ![n].at = "done"] /\ running' = running
    BY <1>17 DEF OnInterrupted, OnInterruptFailed, serverVars
  <2>2. \A m \in DOMAIN stops :
          stops[m].at = "answered" => running'[stops[m].thread] # stops[m].turn
    BY <1>2, <2>1 DEF StopsInv
  <2> QED
    BY <2>1, <2>2, StopsMoved
<1>18. ASSUME NEW n \in DOMAIN stops, OnInterrupted(n)
       PROVE  (\A t \in Threads : NewsOf(t))'
  <2> PICK s \in Threads : s = stops[n].thread
    BY StopType
  <2>1. /\ UNCHANGED <<running, before, stream>> /\ stops[n].at = "answered"
        /\ active' = [active EXCEPT ![s] = 0]
        /\ crossed' = (crossed \/ active[s] \notin {0, stops[n].turn})
    BY <1>18 DEF OnInterrupted, serverVars
  <2>2. active[s] \in {0, stops[n].turn}
    BY <2>1
  <2>3. Silent(s) => 0 = Known(running[s])
    <3> SUFFICES ASSUME Silent(s), active[s] # 0
                 PROVE  FALSE
      BY <1>2 DEF NewsOf
    <3>1. running[s] = active[s]
      BY <1>2 DEF NewsOf, Known
    <3>2. running[s] # stops[n].turn
      BY <1>2, <2>1 DEF StopsInv
    <3> QED
      BY <2>2, <3>1, <3>2
  <2>4. 0 \in Nat
    OBVIOUS
  <2> QED
    BY <1>2, <2>1, <2>3, <2>4, NewsAnswered
<1>19. ASSUME NEW n \in DOMAIN stops, OnInterruptFailed(n)
       PROVE  (\A t \in Threads : NewsOf(t))'
  BY <1>7, <1>19 DEF OnInterruptFailed, serverVars, uiVars
<1>20. CASE OnThreadStarted \/ OnAgentDelta
  <2>1. stream # <<>> /\ stream' = Tail(stream) /\ Head(stream).kind \in Neutral
    BY <1>20 DEF OnThreadStarted, OnAgentDelta, Neutral
  <2> QED
    BY <1>6, <1>7, <1>20, <2>1 DEF OnThreadStarted, OnAgentDelta, serverVars
<1>21. CASE OnTurnStarted \/ OnTurnCompleted
  <2>1. UNCHANGED <<running, stops>>
    BY <1>21 DEF OnTurnStarted, OnTurnCompleted, serverVars
  <2> QED
    BY <1>2, <1>6, <1>21, <2>1, NewsHeard
<1>22. CASE UNCHANGED vars
  BY <1>6, <1>7, <1>22 DEF vars, serverVars, uiVars
<1> QED
  BY <1>3, <1>4, <1>5, <1>8, <1>9, <1>10, <1>11, <1>12, <1>13, <1>14, <1>15, <1>16,
     <1>17, <1>18, <1>19, <1>20, <1>21, <1>22 DEF Next

-----------------------------------------------------------------------------
(* The theorems                                                             *)

LEMMA ChatInit == Init => ChatInv
<1> SUFFICES ASSUME Init
             PROVE  ChatInv
  OBVIOUS
<1>1. stream = <<>> /\ DOMAIN stream = {} /\ stops = <<>> /\ DOMAIN stops = {}
  BY DEF Init
<1>2. (\A f : ~Has(f)) /\ (\A t, kind : ~Coming(t, kind))
  BY <1>1 DEF Has, Coming
<1>3. before \in Nat /\ before \in 0..MaxTurns
  BY ChatAssumption DEF Init
<1>4. threadOf \in Seq(Threads) /\ Len(threadOf) = before
  <2>1. threadOf \in [1..before -> Threads]
    BY DEF Init
  <2>2. threadOf \in Seq(Threads)
    BY <1>3, <2>1, SeqDef
  <2>3. DOMAIN threadOf = 1..before /\ DOMAIN threadOf = 1..Len(threadOf)
    BY <2>1, <2>2, LenProperties
  <2>4. Len(threadOf) \in Nat
    BY <2>2, LenProperties
  <2> PICK L \in Nat : L = Len(threadOf)
    BY <2>4
  <2>5. 1..before = 1..L
    BY <2>3
  <2>6. before <= L
    <3> SUFFICES ASSUME before # 0
                 PROVE  before <= L
      BY <1>3
    <3>1. before \in 1..before
      BY <1>3
    <3> QED
      BY <1>3, <2>5, <3>1
  <2>7. L <= before
    <3> SUFFICES ASSUME L # 0
                 PROVE  L <= before
      BY <1>3
    <3>1. L \in 1..L
      OBVIOUS
    <3> QED
      BY <1>3, <2>5, <3>1
  <2> QED
    BY <1>3, <2>2, <2>6, <2>7
<1>5. TypeOK
  <2>1. stream \in Seq(Events) /\ stops \in Seq(Stops) /\ send \in Sends
    BY DEF Init, Idle, Sends
  <2>2. running \in [Threads -> Nat]
    <3>1. running \in [Threads -> 0..before]
      BY DEF Init
    <3>2. \A t \in Threads : running[t] \in Nat
      BY <1>3, <3>1
    <3> QED
      BY <3>1, <3>2
  <2> QED
    BY <1>3, <1>4, <2>1, <2>2 DEF TypeOK, Init
<1>6. KnownInv
  <2>1. ASSUME NEW t \in Threads, running[t] # 0
        PROVE  t \in existing
    <3>1. running[t] \in 1..before
      BY <1>3, <2>1 DEF Init
    <3>2. threadOf[running[t]] = t
      BY <2>1 DEF Init
    <3> QED
      BY <3>1, <3>2 DEF Init
  <2> QED
    BY <1>1, <1>2, <2>1 DEF KnownInv, Init, HasThread, Idle
<1>7. OwnInv /\ StopsOwn
  <2>1. before <= Len(threadOf)
    BY <1>3, <1>4
  <2> QED
    BY <1>1, <1>2, <2>1 DEF OwnInv, StopsOwn, Init, Idle
<1>8. FlagsInv
  BY DEF FlagsInv, Init
<1>9. NewsInv
  <2>1. ASSUME NEW t \in Threads
        PROVE  NewsOf(t)
    <3>1. active[t] = Known(running[t])
      <4>1. running[t] \in 0..before
        BY DEF Init
      <4>2. ~(running[t] > before)
        BY <1>3, <4>1
      <4> QED
        BY <4>2 DEF Known, Init
    <3> QED
      BY <1>1, <3>1 DEF NewsOf, Last
  <2>2. StopsInv
    BY <1>1 DEF StopsInv
  <2> QED
    BY <2>1, <2>2 DEF NewsInv
<1> QED
  BY <1>5, <1>6, <1>7, <1>8, <1>9 DEF ChatInv

LEMMA ChatAlways == Spec => []ChatInv
<1>1. ChatInv /\ [Next]_vars => ChatInv'
  BY TypeStep, KnownStep, OwnStep, StopsOwnStep, FlagsStep, NewsStep DEF ChatInv
<1> QED
  BY <1>1, ChatInit, PTL DEF Spec

(* Always: Stop asks for a turn of the thread it is shown in.               *)
THEOREM StopsOwnTurnAlways == Spec => []StopsOwnTurn
<1>1. ChatInv => StopsOwnTurn
  BY DEF ChatInv, OwnInv, Of, StopsOwnTurn
<1> QED
  BY <1>1, ChatAlways, PTL

(* Always: "Sending..." shows only while a startTurn of that thread is      *)
(* unanswered, and the wait for the assistant has something to wait for.    *)
THEOREM FlagsHaveCauseAlways == Spec => []FlagsHaveCause
<1>1. ChatInv => FlagsHaveCause
  BY DEF ChatInv, FlagsInv, FlagsHaveCause
<1> QED
  BY <1>1, ChatAlways, PTL

(* Always: when no answer and no event is on its way, Stop is enabled       *)
(* exactly where a turn runs, unless codex exited or an answer crossed the  *)
(* stream.                                                                  *)
THEOREM StopMatchesAlways == Spec => []StopMatches
<1>1. ChatInv => StopMatches
  <2> SUFFICES ASSUME ChatInv, crashes = 0, ~crossed, stream = <<>>, NEW t \in Threads
               PROVE  active[t] = Known(running[t])
    BY DEF StopMatches
  <2>1. Silent(t)
    BY DEF Silent
  <2> QED
    BY <2>1 DEF ChatInv, NewsInv, NewsOf
<1> QED
  BY <1>1, ChatAlways, PTL
=============================================================================
