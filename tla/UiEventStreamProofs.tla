------------------------ MODULE UiEventStreamProofs ------------------------
(***************************************************************************)
(* Proofs about UiEventStream: a tab that is not left keeps one way back to *)
(* the stream; the route is always told the last event the UI handled; and  *)
(* the stream implements UiEventFeed, in whatever order publishing, breaks, *)
(* stalls, refusals, timers and restarts of the server come.                *)
(***************************************************************************)
EXTENDS UiEventStream, SequenceTheorems, TLAPS

(* What travels: Open, or an event.                                         *)
Messages == [run : Nat, id : Nat]

TypeOK ==
  /\ published \in Seq(Nat) /\ Run >= 1
  /\ buffer \in Seq(Nat)
  /\ conn \in Nat
  /\ link \in {"none", "up", "broken", "stalled"}
  /\ pipe \in Seq(Messages)
  /\ stream \in {"connecting", "open", "closed"}
  /\ url \in Nat /\ header \in Nat /\ lastEventId \in Nat
  /\ heartbeat \in BOOLEAN /\ reconnect \in BOOLEAN /\ closed \in BOOLEAN
  /\ got \in Seq(Messages)

(* The buffer holds the last events of the run, all of them or a full ring. *)
BufferInv ==
  /\ Len(buffer) <= published[Run]
  /\ Len(buffer) = MaxBufferSize \/ Len(buffer) = published[Run]
  /\ \A n \in DOMAIN buffer : buffer[n] = published[Run] - Len(buffer) + n

(* The strengthening of OneWayBack: a closed EventSource has no connection, *)
(* so none that breaks, and a tab that was left has no timer.               *)
ConnectionInv ==
  /\ closed => stream = "closed" /\ ~reconnect /\ ~heartbeat
  /\ stream = "closed" => link = "none"
  /\ link = "none" => pipe = <<>>
  /\ link = "up" => conn \in clients
  /\ OneWayBack

(* A connection that is up and unanswered carries Open, first and only.     *)
OpenInv ==
  /\ link = "up" /\ stream = "connecting" => pipe # <<>>
  /\ \A n \in DOMAIN pipe : pipe[n] = Open <=> n = 1 /\ stream = "connecting"

(* The strengthening of MarkerIsLast: whichever of header and URL counts.   *)
MarkerInv ==
  /\ lastEventId = LastHandled.id
  /\ stream # "closed" => Marker = lastEventId

Sent(e) == e.run \in DOMAIN published /\ e.id \in 1..published[e.run]

(* The first event on its way.                                              *)
IsFirst(n) == n = 1 \/ pipe[n - 1] = Open

(* The strengthening of FeedInOrder: the first event on its way may follow  *)
(* what the UI has handled, and each of the others follows the one before.  *)
InOrder(n) ==
  /\ Sent(pipe[n])
  /\ IsFirst(n) => Feed!Follows(pipe[n])
  /\ ~IsFirst(n) => pipe[n].run = pipe[n - 1].run /\ pipe[n].id = pipe[n - 1].id + 1

PipeInv ==
  /\ got # <<>> => Sent(LastHandled)
  /\ \A n \in DOMAIN pipe : pipe[n] # Open => InOrder(n)

(* The newest event the tab has or will have from its connection.           *)
Newest == IF pipe = <<>> \/ pipe[Len(pipe)] = Open THEN LastHandled ELSE pipe[Len(pipe)]

(* A connection that is up carries events of this run only, and misses none *)
(* that was published since it began.                                       *)
LiveInv ==
  link = "up" =>
    /\ \A n \in DOMAIN pipe : pipe[n] # Open => pipe[n].run = Run
    /\ Newest.run = Run => Newest.id = published[Run]

StreamInv ==
  /\ TypeOK /\ BufferInv /\ ConnectionInv
  /\ OpenInv /\ MarkerInv /\ PipeInv /\ LiveInv

-----------------------------------------------------------------------------
(* Types, and the connection                                                *)

LEMMA OpenType == Open \in Messages
  BY DEF Open, Messages

LEMMA EndOfSeq ==
  ASSUME NEW s \in Seq(Nat), NEW first \in 1..(Len(s) + 1)
  PROVE  /\ SubSeq(s, first, Len(s)) \in Seq(Nat)
         /\ Len(SubSeq(s, first, Len(s))) = Len(s) + 1 - first
         /\ \A i \in 1..(Len(s) + 1 - first) :
              SubSeq(s, first, Len(s))[i] = s[first + i - 1]
<1> DEFINE m == Len(s)
<1>1. m \in Int /\ first \in Int /\ \A i \in first..m : s[i] \in Nat
  BY LenProperties
<1> HIDE DEF m
<1>2. /\ SubSeq(s, first, m) \in Seq(Nat)
      /\ Len(SubSeq(s, first, m)) = IF first <= m THEN m - first + 1 ELSE 0
      /\ \A i \in 1..(m - first + 1) : SubSeq(s, first, m)[i] = s[first + i - 1]
  BY <1>1, SubSeqProperties
<1>3. first \in 1..(m + 1) /\ m + 1 - first = m - first + 1
  BY <1>1 DEF m
<1>4. m = Len(s)
  BY DEF m
<1> QED
  BY <1>1, <1>2, <1>3, <1>4

LEMMA AfterOpen ==
  ASSUME NEW s \in Seq(Messages)
  PROVE  /\ <<Open>> \o s \in Seq(Messages)
         /\ Len(<<Open>> \o s) = 1 + Len(s)
         /\ (<<Open>> \o s)[1] = Open
         /\ \A i \in 2..(1 + Len(s)) : (<<Open>> \o s)[i] = s[i - 1]
<1> DEFINE o == <<Open>>
<1>1. o \in Seq(Messages) /\ Len(o) = 1 /\ o[1] = Open
  BY OpenType
<1>2. Len(s) \in Nat
  BY LenProperties
<1> HIDE DEF o
<1>3. /\ o \o s \in Seq(Messages)
      /\ Len(o \o s) = Len(o) + Len(s)
      /\ \A i \in 1..(Len(o) + Len(s)) :
           (o \o s)[i] = IF i <= Len(o) THEN o[i] ELSE s[i - Len(o)]
  BY <1>1, ConcatProperties
<1>4. /\ (o \o s)[1] = Open
      /\ \A i \in 2..(1 + Len(s)) : (o \o s)[i] = s[i - 1]
  BY <1>1, <1>2, <1>3
<1> QED
  BY <1>1, <1>3, <1>4 DEF o

LEMMA NewerThanType ==
  ASSUME TypeOK, BufferInv, NEW m \in Nat
  PROVE  \E first \in 1..(Len(buffer) + 1) :
           /\ NewerThan(m) = SubSeq(buffer, first, Len(buffer))
           /\ \A i \in DOMAIN buffer : buffer[i] > m <=> first <= i
<1> DEFINE P(n) == \A i \in DOMAIN buffer : buffer[i] > m <=> n <= i
<1>1. /\ Len(buffer) \in Nat
      /\ DOMAIN buffer = 1..Len(buffer)
      /\ published[Run] \in Nat
  BY LenProperties DEF TypeOK, Run
<1>2. \E n \in 1..(Len(buffer) + 1) : P(n)
  <2> DEFINE low == published[Run] - Len(buffer)
  <2>1. CASE m <= low
    <3>1. P(1)
      BY <1>1, <2>1 DEF BufferInv
    <3> QED
      BY <1>1, <3>1
  <2>2. CASE low < m /\ m <= published[Run]
    <3>1. P(m - low + 1)
      BY <1>1, <2>2 DEF BufferInv
    <3>2. m - low + 1 \in 1..(Len(buffer) + 1)
      BY <1>1, <2>2 DEF BufferInv
    <3> QED
      BY <3>1, <3>2
  <2>3. CASE m > published[Run]
    <3>1. P(Len(buffer) + 1)
      BY <1>1, <2>3 DEF BufferInv
    <3> QED
      BY <1>1, <3>1
  <2> QED
    BY <1>1, <2>1, <2>2, <2>3 DEF BufferInv
<1> DEFINE first == CHOOSE n \in 1..(Len(buffer) + 1) : P(n)
<1>3. first \in 1..(Len(buffer) + 1) /\ P(first)
  <2> HIDE DEF P
  <2> QED
    BY <1>2
<1>4. NewerThan(m) = SubSeq(buffer, first, Len(buffer))
  BY DEF NewerThan
<1> HIDE DEF first
<1> QED
  BY <1>3, <1>4

LEMMA BufferIds ==
  ASSUME TypeOK, BufferInv
  PROVE  /\ published[Run] \in Nat /\ Len(buffer) \in Nat
         /\ \A i \in 1..Len(buffer) :
              buffer[i] \in 1..published[Run] /\ buffer[i] = published[Run] - Len(buffer) + i
<1>1. published[Run] \in Nat
  BY LenProperties DEF TypeOK, Run
<1>2. Len(buffer) \in Nat /\ DOMAIN buffer = 1..Len(buffer)
  BY LenProperties DEF TypeOK
<1> PICK top \in Nat : top = published[Run]
  BY <1>1
<1> PICK m \in Nat : m = Len(buffer)
  BY <1>2
<1>3. m <= top /\ \A i \in 1..m : buffer[i] = top - m + i
  BY <1>2 DEF BufferInv
<1>4. \A i \in 1..m : top - m + i \in 1..top
  BY <1>3
<1>5. \A i \in 1..m : buffer[i] \in 1..top /\ buffer[i] = top - m + i
  BY <1>3, <1>4
<1> QED
  BY <1>5

(* What attach writes: Open, then the buffered events after the marker, or  *)
(* none.                                                                    *)
LEMMA AttachWrites ==
  ASSUME TypeOK, BufferInv, Attach
  PROVE  \E first \in 1..(Len(buffer) + 1) :
           /\ pipe' \in Seq(Messages)
           /\ Len(pipe') = 1 + (Len(buffer) + 1 - first)
           /\ pipe'[1] = Open
           /\ \A n \in 2..Len(pipe') :
                pipe'[n] = [run |-> Run, id |-> buffer[first + n - 2]]
           /\ IF Marker = 0 THEN first = Len(buffer) + 1
              ELSE \A i \in DOMAIN buffer : buffer[i] > Marker <=> first <= i
<1>1. /\ Len(buffer) \in Nat
      /\ DOMAIN buffer = 1..Len(buffer)
      /\ \A i \in DOMAIN buffer : buffer[i] \in Nat
      /\ Run \in Nat
      /\ Marker \in Nat
  BY LenProperties DEF TypeOK, Run, Marker
<1>2. PICK first \in 1..(Len(buffer) + 1) :
        /\ Replay = SubSeq(buffer, first, Len(buffer))
        /\ IF Marker = 0 THEN first = Len(buffer) + 1
           ELSE \A i \in DOMAIN buffer : buffer[i] > Marker <=> first <= i
  <2>1. CASE Marker = 0
    <3>1. Replay = <<>>
      BY <2>1 DEF Replay
    <3>2. SubSeq(buffer, Len(buffer) + 1, Len(buffer)) = <<>>
      BY <1>1, SubSeqEmpty
    <3> QED
      BY <1>1, <2>1, <3>1, <3>2
  <2>2. CASE Marker # 0
    <3>1. Replay = NewerThan(Marker)
      BY <2>2 DEF Replay
    <3>2. PICK first \in 1..(Len(buffer) + 1) :
            /\ NewerThan(Marker) = SubSeq(buffer, first, Len(buffer))
            /\ \A i \in DOMAIN buffer : buffer[i] > Marker <=> first <= i
      BY <1>1, NewerThanType
    <3> QED
      BY <2>2, <3>1, <3>2
  <2> QED
    BY <2>1, <2>2
<1> DEFINE k == Len(buffer) + 1 - first
<1>3. /\ Replay \in Seq(Nat)
      /\ Len(Replay) = k
      /\ \A i \in 1..k : Replay[i] = buffer[first + i - 1]
  BY <1>2, EndOfSeq DEF TypeOK
<1>4. DOMAIN Replay = 1..k /\ k \in Nat
  BY <1>1, <1>2, <1>3, LenProperties
<1> DEFINE events == [n \in DOMAIN Replay |-> Event(Replay[n])]
<1>5. \A i \in 1..k : Event(Replay[i]) \in Messages
  BY <1>1, <1>2, <1>3 DEF Event, Messages
<1>6. events \in Seq(Messages) /\ Len(events) = k
  BY <1>4, <1>5
<1>7. \A i \in 1..k : events[i] = [run |-> Run, id |-> buffer[first + i - 1]]
  BY <1>3, <1>4 DEF Event
<1> HIDE DEF events
<1>8. pipe' = <<Open>> \o events
  BY DEF Attach, events
<1>9. /\ pipe' \in Seq(Messages)
      /\ Len(pipe') = 1 + k
      /\ pipe'[1] = Open
      /\ \A n \in 2..(1 + k) : pipe'[n] = events[n - 1]
  BY <1>6, <1>8, AfterOpen
<1>10. \A n \in 2..Len(pipe') : pipe'[n] = [run |-> Run, id |-> buffer[first + n - 2]]
  <2> TAKE n \in 2..Len(pipe')
  <2>1. pipe'[n] = events[n - 1] /\ n - 1 \in 1..k
    BY <1>4, <1>9
  <2>2. first + (n - 1) - 1 = first + n - 2
    BY <1>1
  <2> QED
    BY <2>1, <2>2, <1>7
<1> QED
  BY <1>2, <1>9, <1>10

(* What a publish adds to the pipe of a connection that is up.              *)
LEMMA PublishWrites ==
  ASSUME TypeOK, Publish,
         NEW id, id = published[Run] + 1
  PROVE  /\ Run \in 1..Len(published) /\ id \in Nat
         /\ published' \in Seq(Nat) /\ Run' = Run
         /\ published'[Run] = id
         /\ \A r \in 1..Len(published) : r # Run => published'[r] = published[r]
         /\ ~(link = "up" /\ conn \in clients) => pipe' = pipe
         /\ link = "up" /\ conn \in clients =>
              /\ pipe' \in Seq(Messages)
              /\ Len(pipe') = Len(pipe) + 1
              /\ pipe'[Len(pipe) + 1] = [run |-> Run, id |-> id]
              /\ \A i \in 1..Len(pipe) : pipe'[i] = pipe[i]
<1>1. Run \in 1..Len(published) /\ published[Run] \in Nat /\ id \in Nat
  BY LenProperties DEF TypeOK, Run
<1>2. published' = [published EXCEPT ![Run] = id]
  BY DEF Publish
<1>3. /\ published' \in Seq(Nat) /\ Len(published') = Len(published)
      /\ \A r \in 1..Len(published) :
           published'[r] = IF r = Run THEN id ELSE published[r]
  BY <1>1, <1>2, ExceptSeq, SMTT(30) DEF TypeOK
<1>4. [run |-> Run, id |-> id] \in Messages
  BY <1>1 DEF Messages
<1>5. pipe' = IF link = "up" /\ conn \in clients
              THEN Append(pipe, [run |-> Run, id |-> id]) ELSE pipe
  BY DEF Publish, Event
<1>6. pipe \in Seq(Messages)
  BY DEF TypeOK
<1>7. link = "up" /\ conn \in clients =>
        /\ pipe' \in Seq(Messages)
        /\ Len(pipe') = Len(pipe) + 1
        /\ pipe'[Len(pipe) + 1] = [run |-> Run, id |-> id]
        /\ \A i \in 1..Len(pipe) : pipe'[i] = pipe[i]
  BY <1>4, <1>5, <1>6, AppendProperties
<1> QED
  BY <1>1, <1>3, <1>5, <1>7 DEF Run

(* A fault leaves a beginning of the pipe.                                  *)
LEMMA FaultCuts ==
  ASSUME TypeOK, NEW kind \in {"broken", "stalled"}, Fault(kind)
  PROVE  \E n \in 0..Len(pipe) :
           /\ pipe' \in Seq(Messages)
           /\ Len(pipe') = n
           /\ \A i \in 1..n : pipe'[i] = pipe[i]
<1>1. PICK n \in 0..Len(pipe) : pipe' = SubSeq(pipe, 1, n)
  BY DEF Fault
<1>2. pipe \in Seq(Messages)
  BY DEF TypeOK
<1>3. Len(pipe) \in Nat /\ \A i \in 1..Len(pipe) : pipe[i] \in Messages
  BY <1>2, LenProperties
<1>4. n \in Int /\ \A i \in 1..n : pipe[i] \in Messages
  BY <1>3
<1>5. /\ SubSeq(pipe, 1, n) \in Seq(Messages)
      /\ Len(SubSeq(pipe, 1, n)) = IF 1 <= n THEN n - 1 + 1 ELSE 0
      /\ \A i \in 1..(n - 1 + 1) : SubSeq(pipe, 1, n)[i] = pipe[1 + i - 1]
  BY <1>4, SubSeqProperties
<1> QED
  BY <1>1, <1>3, <1>5

(* What the tab reads is the head of the pipe.                              *)
LEMMA ReadTakesHead ==
  ASSUME TypeOK, pipe # <<>>, pipe' = Tail(pipe)
  PROVE  /\ Len(pipe) \in Nat \ {0}
         /\ Head(pipe) = pipe[1] /\ pipe[1] \in Messages
         /\ pipe' \in Seq(Messages)
         /\ Len(pipe') = Len(pipe) - 1
         /\ \A i \in 1..Len(pipe') : pipe'[i] = pipe[i + 1]
<1>1. pipe \in Seq(Messages)
  BY DEF TypeOK
<1>2. Len(pipe) \in Nat \ {0}
  BY <1>1, EmptySeq
<1>3. pipe[1] \in Messages
  BY <1>1, <1>2, ElementOfSeq
<1>4. Head(pipe) = pipe[1]
  BY <1>1
<1> QED
  BY <1>1, <1>2, <1>3, <1>4, HeadTailProperties

LEMMA TypeStep ==
  ASSUME TypeOK, BufferInv, [Next]_vars
  PROVE  TypeOK'
<1> USE DEF TypeOK
<1>1. CASE Publish
  <2>1. buffer' \in Seq(Nat)
    <3>1. published[Run] + 1 \in Nat
      BY LenProperties DEF Run
    <3>2. Append(buffer, published[Run] + 1) \in Seq(Nat)
      BY <3>1, AppendProperties
    <3>3. CASE Len(buffer) = MaxBufferSize
      <4>1. buffer # <<>> /\ Tail(buffer) \in Seq(Nat)
        BY <3>3, EmptySeq, HeadTailProperties, StreamAssumption
      <4>2. Append(Tail(buffer), published[Run] + 1) \in Seq(Nat)
        BY <3>1, <4>1, AppendProperties
      <4> QED
        BY <1>1, <3>3, <4>2 DEF Publish, Buffered
    <3>4. CASE Len(buffer) # MaxBufferSize
      BY <1>1, <3>2, <3>4 DEF Publish, Buffered
    <3> QED
      BY <3>3, <3>4
  <2>2. pipe' \in Seq(Messages) /\ published' \in Seq(Nat) /\ Run' = Run
    BY <1>1, PublishWrites
  <2> QED
    BY <1>1, <2>1, <2>2 DEF Publish, sourceVars, closureVars
<1>2. CASE Attach
  <2>1. pipe' \in Seq(Messages)
    BY <1>2, AttachWrites
  <2> QED
    BY <1>2, <2>1 DEF Attach, sourceVars, closureVars, Run
<1>3. CASE Restart
  <2>1. /\ published' \in Seq(Nat) /\ Len(published') = Len(published) + 1
        /\ Len(published) \in Nat
    BY <1>3, AppendProperties, LenProperties DEF Restart
  <2>2. buffer' \in Seq(Nat)
    BY <1>3 DEF Restart
  <2> QED
    BY <1>3, <2>1, <2>2 DEF Restart, sourceVars, closureVars, Run
<1>4. ASSUME NEW c \in clients, Detach(c)
      PROVE  TypeOK'
  BY <1>4 DEF Detach, linkVars, sourceVars, closureVars, Run
<1>5. ASSUME NEW kind \in {"broken", "stalled"}, Fault(kind)
      PROVE  TypeOK'
  <2>1. pipe' \in Seq(Messages)
    BY <1>5, FaultCuts
  <2> QED
    BY <1>5, <2>1 DEF Fault, serverVars, sourceVars, closureVars, Run
<1>6. CASE Refuse
  BY <1>6 DEF Refuse, serverVars, linkVars, Run
<1>7. CASE OnOpen
  <2>1. pipe' \in Seq(Messages)
    BY <1>7, ReadTakesHead DEF OnOpen
  <2> QED
    BY <1>7, <2>1 DEF OnOpen, serverVars, Run
<1>8. CASE OnUi
  <2>1. pipe' \in Seq(Messages) /\ Head(pipe) \in Messages
    BY <1>8, ReadTakesHead DEF OnUi
  <2>2. Head(pipe).id \in Nat
    BY <2>1 DEF Messages
  <2>3. got' \in Seq(Messages)
    BY <1>8, <2>1, AppendProperties DEF OnUi
  <2> QED
    BY <1>8, <2>1, <2>2, <2>3 DEF OnUi, serverVars, Run
<1>9. CASE OnNetworkError
  BY <1>9 DEF OnNetworkError, serverVars, closureVars, Run
<1>10. CASE HeartbeatTimeout
  <2>1. pipe' \in Seq(Messages)
    BY <1>10, EmptySeq DEF HeartbeatTimeout
  <2> QED
    BY <1>10, <2>1 DEF HeartbeatTimeout, serverVars, Run
<1>11. CASE Reconnect
  BY <1>11 DEF Reconnect, serverVars, linkVars, Run
<1>12. CASE Disconnect
  <2>1. pipe' \in Seq(Messages)
    BY <1>12, EmptySeq DEF Disconnect
  <2> QED
    BY <1>12, <2>1 DEF Disconnect, serverVars, Run
<1>13. CASE UNCHANGED vars
  BY <1>13 DEF vars, serverVars, linkVars, sourceVars, closureVars, Run
<1> QED
  BY <1>1, <1>2, <1>3, <1>4, <1>5, <1>6, <1>7, <1>8, <1>9, <1>10, <1>11, <1>12,
     <1>13 DEF Next

(* A sequence that ends with n, one by one, ends with n + 1 after it came.  *)
LEMMA RingAppend ==
  ASSUME NEW b \in Seq(Nat), NEW n \in Nat,
         \A i \in DOMAIN b : b[i] = n - Len(b) + i,
         NEW c, c = Append(b, n + 1)
  PROVE  /\ \A i \in DOMAIN c : c[i] = n + 1 - Len(c) + i
         /\ Len(c) = Len(b) + 1
<1>1. Len(b) \in Nat /\ DOMAIN b = 1..Len(b) /\ n + 1 \in Nat
  BY LenProperties
<1>2. /\ c \in Seq(Nat) /\ Len(c) = Len(b) + 1
      /\ \A i \in 1..Len(b) : c[i] = b[i]
      /\ c[Len(b) + 1] = n + 1
  BY <1>1, AppendProperties
<1>3. DOMAIN c = 1..Len(c)
  BY <1>2, LenProperties
<1> QED
  BY <1>1, <1>2, <1>3

LEMMA RingTail ==
  ASSUME NEW b \in Seq(Nat), NEW n \in Nat, b # <<>>,
         \A i \in DOMAIN b : b[i] = n - Len(b) + i
  PROVE  /\ Tail(b) \in Seq(Nat)
         /\ \A i \in DOMAIN Tail(b) : Tail(b)[i] = n - Len(Tail(b)) + i
         /\ Len(Tail(b)) = Len(b) - 1
<1> DEFINE t == Tail(b)
<1>1. Len(b) \in Nat /\ DOMAIN b = 1..Len(b)
  BY LenProperties
<1>2. /\ t \in Seq(Nat) /\ Len(t) = Len(b) - 1
      /\ \A i \in 1..Len(t) : t[i] = b[i + 1]
  BY HeadTailProperties
<1> HIDE DEF t
<1>3. DOMAIN t = 1..Len(t)
  BY <1>2, LenProperties
<1>4. \A i \in DOMAIN t : t[i] = n - Len(t) + i
  <2> TAKE i \in DOMAIN t
  <2>1. i \in 1..Len(t) /\ i + 1 \in DOMAIN b /\ i \in Int
    BY <1>1, <1>2, <1>3
  <2>2. t[i] = n - Len(b) + (i + 1)
    BY <1>2, <2>1
  <2> QED
    BY <1>1, <1>2, <2>1, <2>2
<1> QED
  BY <1>2, <1>4 DEF t

LEMMA BufferStep ==
  ASSUME TypeOK, BufferInv, [Next]_vars
  PROVE  BufferInv'
<1>1. CASE Publish
  <2>1. Len(buffer) \in Nat
    BY LenProperties DEF TypeOK
  <2>2. buffer' = Buffered(published[Run] + 1)
    BY <1>1 DEF Publish
  <2>3. published'[Run'] = published[Run] + 1
    BY <1>1, PublishWrites
  <2>4. buffer \in Seq(Nat) /\ published[Run] \in Nat
    BY <2>1, LenProperties DEF TypeOK, Run
  <2>5. \A i \in DOMAIN buffer : buffer[i] = published[Run] - Len(buffer) + i
    BY DEF BufferInv
  <2>6. PICK b \in Seq(Nat) :
          /\ \A i \in DOMAIN b : b[i] = published[Run] - Len(b) + i
          /\ Len(b) = IF Len(buffer) = MaxBufferSize THEN Len(buffer) - 1 ELSE Len(buffer)
          /\ buffer' = Append(b, published[Run] + 1)
    <3>1. CASE Len(buffer) = MaxBufferSize
      <4>1. buffer # <<>>
        BY <2>4, <3>1, EmptySeq, StreamAssumption
      <4>2. buffer' = Append(Tail(buffer), published[Run] + 1)
        BY <2>2, <3>1 DEF Buffered
      <4> QED
        BY <2>4, <2>5, <3>1, <4>1, <4>2, RingTail
    <3>2. CASE Len(buffer) # MaxBufferSize
      BY <2>2, <2>4, <2>5, <3>2 DEF Buffered
    <3> QED
      BY <3>1, <3>2
  <2>7. /\ \A i \in DOMAIN buffer' : buffer'[i] = published[Run] + 1 - Len(buffer') + i
        /\ Len(buffer') = Len(b) + 1
    <3> PICK n \in Nat : n = published[Run]
      BY <2>4
    <3> PICK c : c = buffer'
      OBVIOUS
    <3>1. /\ \A i \in DOMAIN b : b[i] = n - Len(b) + i
          /\ c = Append(b, n + 1)
      BY <2>6
    <3>2. /\ \A i \in DOMAIN c : c[i] = n + 1 - Len(c) + i
          /\ Len(c) = Len(b) + 1
      BY <3>1, RingAppend, SMTT(30)
    <3> QED
      BY <3>2
  <2>8. Len(buffer) <= published[Run]
    BY DEF BufferInv
  <2>9. Len(buffer') <= published[Run] + 1
    BY <2>1, <2>4, <2>6, <2>8, <2>7, StreamAssumption DEF BufferInv
  <2>10. Len(buffer') = MaxBufferSize \/ Len(buffer') = published[Run] + 1
    BY <2>1, <2>4, <2>6, <2>7, StreamAssumption DEF BufferInv
  <2> QED
    BY <2>1, <2>3, <2>4, <2>9, <2>10, <2>7 DEF BufferInv
<1>2. CASE Restart
  <2>1. Run' = Run + 1 /\ published'[Run + 1] = 0
    BY <1>2, AppendProperties DEF Restart, Run, TypeOK
  <2>2. buffer' = <<>>
    BY <1>2 DEF Restart
  <2> QED
    BY <2>1, <2>2 DEF BufferInv
<1>3. ASSUME UNCHANGED <<published, buffer>>
      PROVE  BufferInv'
  BY <1>3 DEF BufferInv, Run
<1> QED
  BY <1>1, <1>2, <1>3 DEF Next, Attach, Detach, Fault, Refuse, OnOpen, OnUi,
     OnNetworkError, HeartbeatTimeout, Reconnect, Disconnect, vars, serverVars

LEMMA ConnectionStep ==
  ASSUME TypeOK, ConnectionInv, [Next]_vars
  PROVE  ConnectionInv'
<1> USE DEF TypeOK, ConnectionInv, OneWayBack
<1>1. CASE Publish
  BY <1>1 DEF Publish, sourceVars, closureVars
<1>2. CASE Attach
  BY <1>2 DEF Attach, sourceVars, closureVars
<1>3. CASE Restart
  BY <1>3 DEF Restart, sourceVars, closureVars
<1>4. ASSUME NEW c \in clients, Detach(c)
      PROVE  ConnectionInv'
  BY <1>4 DEF Detach, linkVars, sourceVars, closureVars
<1>5. ASSUME NEW kind \in {"broken", "stalled"}, Fault(kind)
      PROVE  ConnectionInv'
  BY <1>5 DEF Fault, serverVars, sourceVars, closureVars
<1>6. CASE Refuse
  BY <1>6 DEF Refuse, serverVars, linkVars
<1>7. CASE OnOpen
  BY <1>7 DEF OnOpen, serverVars
<1>8. CASE OnUi
  BY <1>8 DEF OnUi, serverVars
<1>9. CASE OnNetworkError
  BY <1>9 DEF OnNetworkError, serverVars, closureVars
<1>10. CASE HeartbeatTimeout
  BY <1>10 DEF HeartbeatTimeout, serverVars
<1>11. CASE Reconnect
  BY <1>11 DEF Reconnect, serverVars, linkVars
<1>12. CASE Disconnect
  BY <1>12 DEF Disconnect, serverVars
<1>13. CASE UNCHANGED vars
  BY <1>13 DEF vars, serverVars, linkVars, sourceVars, closureVars
<1> QED
  BY <1>1, <1>2, <1>3, <1>4, <1>5, <1>6, <1>7, <1>8, <1>9, <1>10, <1>11, <1>12,
     <1>13 DEF Next

LEMMA OpenStep ==
  ASSUME TypeOK, BufferInv, ConnectionInv, OpenInv, [Next]_vars
  PROVE  OpenInv'
<1> USE DEF OpenInv
<1>1. Len(pipe) \in Nat /\ DOMAIN pipe = 1..Len(pipe)
  BY LenProperties DEF TypeOK
<1>2. (pipe # <<>> <=> Len(pipe) > 0)
  BY EmptySeq, <1>1 DEF TypeOK
<1>3. TypeOK'
  BY TypeStep
<1>4. Len(pipe') \in Nat /\ DOMAIN pipe' = 1..Len(pipe')
  BY <1>3, LenProperties DEF TypeOK
<1>5. (pipe' # <<>> <=> Len(pipe') > 0)
  BY <1>3, <1>4, EmptySeq DEF TypeOK
<1>6. ASSUME NEW n, n \in Nat \ {0}, NEW r
      PROVE  [run |-> r, id |-> n] # Open
  BY <1>6 DEF Open
<1>7. CASE Publish
  <2>1. stream' = stream /\ link' = link
    BY <1>7 DEF Publish, sourceVars
  <2>2. CASE link = "up" /\ conn \in clients
    <3>1. PICK id \in Nat \ {0} : id = published[Run] + 1
      BY LenProperties DEF TypeOK, Run
    <3>2. /\ Len(pipe') = Len(pipe) + 1
          /\ pipe'[Len(pipe) + 1] = [run |-> Run, id |-> id]
          /\ \A i \in 1..Len(pipe) : pipe'[i] = pipe[i]
      BY <1>7, <2>2, <3>1, PublishWrites
    <3>3. pipe'[Len(pipe) + 1] # Open
      BY <1>6, <3>1, <3>2
    <3>4. stream = "connecting" => Len(pipe) > 0
      BY <1>2, <2>2
    <3> QED
      BY <1>1, <1>4, <1>5, <2>1, <3>2, <3>3, <3>4
  <2>3. CASE ~(link = "up" /\ conn \in clients)
    BY <1>7, <2>1, <2>3 DEF Publish
  <2> QED
    BY <2>2, <2>3
<1>8. CASE Attach
  <2>1. stream' = "connecting" /\ stream = "connecting"
    BY <1>8 DEF Attach, sourceVars
  <2>2. PICK first \in 1..(Len(buffer) + 1) :
          /\ Len(pipe') = 1 + (Len(buffer) + 1 - first)
          /\ pipe'[1] = Open
          /\ \A n \in 2..Len(pipe') :
               pipe'[n] = [run |-> Run, id |-> buffer[first + n - 2]]
    BY <1>8, AttachWrites
  <2>3. \A i \in 1..Len(buffer) : buffer[i] \in Nat \ {0}
    BY BufferIds
  <2>4. ASSUME NEW n \in 2..Len(pipe')
        PROVE  pipe'[n] # Open
    <3>1. first + n - 2 \in 1..Len(buffer)
      BY <2>2, LenProperties DEF TypeOK
    <3> QED
      BY <1>6, <2>2, <2>3, <3>1
  <2>5. pipe' # <<>>
    BY <1>5, <2>2, LenProperties DEF TypeOK
  <2> QED
    BY <1>4, <2>1, <2>2, <2>4, <2>5
<1>9. CASE Restart
  BY <1>9 DEF Restart, sourceVars
<1>10. ASSUME NEW c \in clients, Detach(c)
       PROVE  OpenInv'
  BY <1>10 DEF Detach, linkVars, sourceVars
<1>11. ASSUME NEW kind \in {"broken", "stalled"}, Fault(kind)
       PROVE  OpenInv'
  <2>1. stream' = stream /\ link' # "up"
    BY <1>11 DEF Fault, sourceVars
  <2>2. PICK n \in 0..Len(pipe) :
          Len(pipe') = n /\ \A i \in 1..n : pipe'[i] = pipe[i]
    BY <1>11, FaultCuts
  <2> QED
    BY <1>1, <1>4, <2>1, <2>2
<1>12. CASE Refuse
  BY <1>12 DEF Refuse, linkVars, ConnectionInv
<1>13. CASE OnOpen
  <2>1. /\ Len(pipe') = Len(pipe) - 1
        /\ \A i \in 1..Len(pipe') : pipe'[i] = pipe[i + 1]
    BY <1>13, ReadTakesHead DEF OnOpen
  <2>2. stream' = "open"
    BY <1>13 DEF OnOpen
  <2>3. ASSUME NEW i \in 1..Len(pipe')
        PROVE  pipe'[i] # Open
    <3>1. i + 1 \in 1..Len(pipe) /\ i + 1 # 1
      BY <1>1, <2>1
    <3> QED
      BY <1>1, <2>1, <3>1
  <2> QED
    BY <1>4, <2>2, <2>3
<1>14. CASE OnUi
  <2>1. /\ Len(pipe') = Len(pipe) - 1
        /\ \A i \in 1..Len(pipe') : pipe'[i] = pipe[i + 1]
    BY <1>14, ReadTakesHead DEF OnUi
  <2>2. stream' = "open"
    BY <1>14 DEF OnUi
  <2>3. ASSUME NEW i \in 1..Len(pipe')
        PROVE  pipe'[i] # Open
    <3>1. i + 1 \in 1..Len(pipe) /\ i + 1 # 1
      BY <1>1, <2>1
    <3> QED
      BY <1>1, <2>1, <3>1
  <2> QED
    BY <1>4, <2>2, <2>3
<1>15. CASE OnNetworkError
  BY <1>15 DEF OnNetworkError
<1>16. CASE HeartbeatTimeout
  BY <1>16 DEF HeartbeatTimeout
<1>17. CASE Reconnect
  BY <1>17 DEF Reconnect, linkVars, ConnectionInv, OneWayBack
<1>18. CASE Disconnect
  BY <1>18 DEF Disconnect
<1>19. CASE UNCHANGED vars
  BY <1>19 DEF vars, linkVars, sourceVars
<1> QED
  BY <1>7, <1>8, <1>9, <1>10, <1>11, <1>12, <1>13, <1>14, <1>15, <1>16, <1>17,
     <1>18, <1>19 DEF Next

-----------------------------------------------------------------------------
(* What the UI is given                                                     *)

LEMMA LastOfAppend ==
  ASSUME TypeOK, NEW e \in Messages, got' = Append(got, e)
  PROVE  /\ LastHandled' = e /\ got' # <<>> /\ got'[Len(got')] = e
<1>1. /\ got' \in Seq(Messages) /\ Len(got') = Len(got) + 1 /\ Len(got) \in Nat
      /\ got'[Len(got) + 1] = e
  BY AppendProperties, LenProperties DEF TypeOK
<1>2. got' # <<>>
  BY <1>1, EmptySeq
<1>3. got'[Len(got')] = e
  BY <1>1
<1> QED
  BY <1>2, <1>3 DEF LastHandled

LEMMA LastHandledType == TypeOK => LastHandled \in Messages
<1> SUFFICES ASSUME TypeOK
             PROVE  LastHandled \in Messages
  OBVIOUS
<1>1. CASE got = <<>>
  BY <1>1, OpenType DEF LastHandled
<1>2. CASE got # <<>>
  BY <1>2, EmptySeq, ElementOfSeq DEF LastHandled, TypeOK
<1> QED
  BY <1>1, <1>2

(* What the tab reads from an open stream is an event of the server.        *)
LEMMA ReadsAnEvent ==
  ASSUME TypeOK, OpenInv, PipeInv, OnUi
  PROVE  /\ Head(pipe) = pipe[1] /\ Head(pipe) \in Messages
         /\ pipe[1] # Open /\ 1 \in DOMAIN pipe
         /\ InOrder(1) /\ Sent(Head(pipe)) /\ Feed!Follows(Head(pipe))
         /\ Head(pipe).id \in Nat \ {0}
<1>1. /\ Len(pipe) \in Nat \ {0}
      /\ Head(pipe) = pipe[1] /\ Head(pipe) \in Messages
  BY ReadTakesHead DEF OnUi
<1>2. 1 \in DOMAIN pipe
  BY <1>1, LenProperties DEF TypeOK
<1>3. pipe[1] # Open
  BY <1>2 DEF OnUi, OpenInv
<1>4. InOrder(1)
  BY <1>2, <1>3 DEF PipeInv
<1>5. Sent(Head(pipe)) /\ Feed!Follows(Head(pipe))
  BY <1>1, <1>4 DEF InOrder, IsFirst
<1>6. Head(pipe).id \in Nat /\ Head(pipe).id >= 1
  <2>1. Head(pipe).run \in DOMAIN published /\ Head(pipe).id \in 1..published[Head(pipe).run]
    BY <1>5 DEF Sent
  <2>2. published[Head(pipe).run] \in Nat
    BY <2>1, LenProperties DEF TypeOK
  <2> QED
    BY <2>1, <2>2
<1> QED
  BY <1>1, <1>2, <1>3, <1>4, <1>5, <1>6

LEMMA MarkerStep ==
  ASSUME TypeOK, ConnectionInv, OpenInv, MarkerInv, PipeInv, [Next]_vars
  PROVE  MarkerInv'
<1> USE DEF MarkerInv
<1>1. ASSUME UNCHANGED <<got, url, header, lastEventId>>,
             stream' # "closed" => stream # "closed"
      PROVE  MarkerInv'
  BY <1>1 DEF LastHandled, Marker
<1>2. CASE Publish \/ Attach \/ Restart
  BY <1>1, <1>2 DEF Publish, Attach, Restart, sourceVars, closureVars
<1>3. ASSUME NEW c \in clients, Detach(c)
      PROVE  MarkerInv'
  BY <1>1, <1>3 DEF Detach, sourceVars, closureVars
<1>4. ASSUME NEW kind \in {"broken", "stalled"}, Fault(kind)
      PROVE  MarkerInv'
  BY <1>1, <1>4 DEF Fault, sourceVars, closureVars
<1>5. CASE Refuse \/ OnOpen \/ HeartbeatTimeout \/ Disconnect
  BY <1>1, <1>5 DEF Refuse, OnOpen, HeartbeatTimeout, Disconnect
<1>6. CASE OnUi
  <2>1. Head(pipe) \in Messages /\ Head(pipe).id # 0
    BY <1>6, ReadsAnEvent
  <2>2. LastHandled' = Head(pipe)
    BY <1>6, <2>1, LastOfAppend DEF OnUi
  <2>3. header' = Head(pipe).id /\ lastEventId' = Head(pipe).id
    BY <1>6 DEF OnUi
  <2> QED
    BY <2>1, <2>2, <2>3 DEF Marker
<1>7. CASE OnNetworkError
  BY <1>1, <1>7 DEF OnNetworkError, closureVars, ConnectionInv
<1>8. CASE Reconnect
  BY <1>8 DEF Reconnect, LastHandled, Marker
<1>9. CASE UNCHANGED vars
  BY <1>1, <1>9 DEF vars, sourceVars, closureVars
<1> QED
  BY <1>2, <1>3, <1>4, <1>5, <1>6, <1>7, <1>8, <1>9 DEF Next

(* Runs are added and their numbers grow.                                   *)
LEMMA PublishedGrows ==
  ASSUME TypeOK, [Next]_vars
  PROVE  /\ DOMAIN published = 1..Run /\ Run \in Nat /\ Run' \in {Run, Run + 1}
         /\ DOMAIN published' = 1..Run'
         /\ \A r \in 1..Run : published[r] \in Nat
         /\ \A r \in 1..Run' : published'[r] \in Nat
         /\ \A r \in 1..Run : published'[r] >= published[r]
<1>1. DOMAIN published = 1..Run /\ Run \in Nat /\ \A r \in 1..Run : published[r] \in Nat
  BY LenProperties DEF TypeOK, Run
<1>2. CASE Publish
  <2>1. PICK id \in Nat : id = published[Run] + 1
    BY <1>1 DEF TypeOK
  <2>2. /\ published' \in Seq(Nat) /\ Run' = Run /\ published'[Run] = id
        /\ \A r \in 1..Len(published) : r # Run => published'[r] = published[r]
    BY <1>2, <2>1, PublishWrites
  <2>3. DOMAIN published' = 1..Run' /\ \A r \in 1..Run' : published'[r] \in Nat
    BY <2>2, LenProperties DEF Run
  <2>4. ASSUME NEW r \in 1..Run
        PROVE  published'[r] >= published[r]
    <3>1. r = Run \/ published'[r] = published[r]
      BY <2>2 DEF Run
    <3>2. published[r] \in Nat /\ published'[r] \in Nat
      BY <1>1, <2>2, <2>3
    <3>3. published'[Run] >= published[Run]
      BY <1>1, <2>1, <2>2
    <3> QED
      BY <3>1, <3>2, <3>3
  <2> QED
    BY <1>1, <2>2, <2>3, <2>4
<1>3. CASE Restart
  <2>1. /\ published' \in Seq(Nat) /\ Run' = Run + 1
        /\ \A r \in 1..Run : published'[r] = published[r]
    BY <1>3, AppendProperties DEF Restart, Run, TypeOK
  <2>2. DOMAIN published' = 1..Run' /\ \A r \in 1..Run' : published'[r] \in Nat
    BY <2>1, LenProperties DEF Run
  <2> QED
    BY <1>1, <2>1, <2>2
<1>4. CASE published' = published
  BY <1>1, <1>4 DEF Run
<1> QED
  BY <1>2, <1>3, <1>4 DEF Next, Attach, Detach, Fault, Refuse, OnOpen, OnUi,
     OnNetworkError, HeartbeatTimeout, Reconnect, Disconnect, vars, serverVars

LEMMA SentStays ==
  ASSUME TypeOK, [Next]_vars, NEW e, Sent(e)
  PROVE  /\ e.run \in 1..Run /\ e.id \in Nat \ {0}
         /\ e.run \in DOMAIN published' /\ e.id \in 1..published'[e.run]
<1>1. e.run \in 1..Run /\ e.id \in 1..published[e.run]
  BY PublishedGrows DEF Sent
<1>2. published[e.run] \in Nat /\ published'[e.run] \in Nat
      /\ published'[e.run] >= published[e.run] /\ e.run \in 1..Run'
  BY <1>1, PublishedGrows
<1> QED
  BY <1>1, <1>2, PublishedGrows

(* What may follow what the UI has, may follow it later: the server's       *)
(* numbers grow.                                                            *)
LEMMA FollowsStays ==
  ASSUME TypeOK, PipeInv, [Next]_vars, got' = got, NEW e \in Messages, Sent(e),
         Feed!Follows(e)
  PROVE  Feed!Follows(e)'
<1>1. CASE got = <<>>
  BY <1>1 DEF Feed!Follows
<1>2. CASE got # <<>>
  <2> PICK last : last = got[Len(got)]
    OBVIOUS
  <2>1. last \in Messages
    BY <1>2, LastHandledType DEF LastHandled
  <2>2. last.id \in Nat /\ last.run \in Nat /\ e.id \in Nat /\ e.run \in Nat
    BY <2>1 DEF Messages
  <2>3. \/ last.run < e.run
        \/ last.run = e.run /\ e.id = last.id + 1
        \/ last.run = e.run /\ e.id > last.id + 1
             /\ published[e.run] >= last.id + 1 + MaxBufferSize
    BY <1>2 DEF Feed!Follows
  <2>4. /\ published[e.run] \in Nat /\ published'[e.run] \in Nat
        /\ published'[e.run] >= published[e.run]
    BY SentStays, PublishedGrows
  <2>5. \/ last.run < e.run
        \/ last.run = e.run /\ e.id = last.id + 1
        \/ last.run = e.run /\ e.id > last.id + 1
             /\ published'[e.run] >= last.id + 1 + MaxBufferSize
    BY <2>2, <2>3, <2>4, StreamAssumption
  <2> QED
    BY <2>5 DEF Feed!Follows
<1> QED
  BY <1>1, <1>2

(* While nothing is read, what is kept of the pipe stays in order.          *)
LEMMA OrderStays ==
  ASSUME TypeOK, PipeInv, [Next]_vars, got' = got,
         NEW n \in DOMAIN pipe, pipe'[n] = pipe[n],
         n > 1 => pipe'[n - 1] = pipe[n - 1],
         pipe[n] # Open
  PROVE  InOrder(n)'
<1>1. n \in Nat \ {0} /\ pipe[n] \in Messages
  BY LenProperties, ElementOfSeq DEF TypeOK
<1>2. InOrder(n)
  BY DEF PipeInv
<1>3. Sent(pipe[n])
  BY <1>2 DEF InOrder
<1>4. Sent(pipe[n])'
  BY <1>3, SentStays DEF Sent
<1>5. IsFirst(n)' <=> IsFirst(n)
  BY <1>1 DEF IsFirst
<1>6. ~IsFirst(n) => n > 1
  BY <1>1 DEF IsFirst
<1>7. ASSUME IsFirst(n)
      PROVE  Feed!Follows(pipe[n])'
  <2> PICK e \in Messages : e = pipe[n]
    BY <1>1
  <2>1. Sent(e) /\ Feed!Follows(e)
    BY <1>2, <1>3, <1>7 DEF InOrder
  <2>2. Feed!Follows(e)'
    BY <2>1, FollowsStays
  <2> QED
    BY <2>2 DEF Feed!Follows
<1> QED
  BY <1>2, <1>4, <1>5, <1>6, <1>7 DEF InOrder

(* An event published to a connection that is up comes next.                *)
LEMMA PublishedInOrder ==
  ASSUME StreamInv, Publish, link = "up",
         NEW L, L = Len(pipe)
  PROVE  /\ L \in Nat /\ DOMAIN pipe = 1..L /\ DOMAIN pipe' = 1..(L + 1)
         /\ Len(pipe') = L + 1
         /\ \A i \in 1..L : pipe'[i] = pipe[i]
         /\ InOrder(L + 1)' /\ pipe'[L + 1] # Open
         /\ pipe'[L + 1].run = Run /\ pipe'[L + 1].id = published'[Run] /\ Run' = Run
<1> USE DEF StreamInv
<1>1. PICK top \in Nat : top = published[Run]
  BY LenProperties DEF TypeOK, Run
<1>2. PICK id \in Nat \ {0} : id = published[Run] + 1
  BY <1>1
<1> PICK e : e = [run |-> Run, id |-> id]
  OBVIOUS
<1>3. e.run = Run /\ e.id = id /\ id = top + 1 /\ e \in Messages /\ e # Open
  BY <1>1, <1>2, LenProperties DEF Messages, TypeOK, Run, Open
<1>4. /\ pipe' \in Seq(Messages) /\ Len(pipe') = L + 1
      /\ pipe'[L + 1] = e
      /\ \A i \in 1..L : pipe'[i] = pipe[i]
      /\ published'[Run] = id /\ Run' = Run /\ published' \in Seq(Nat)
      /\ Run \in 1..Len(published)
  BY <1>2, PublishWrites DEF ConnectionInv
<1>5. L \in Nat /\ DOMAIN pipe = 1..L /\ DOMAIN pipe' = 1..(L + 1)
  BY <1>4, LenProperties DEF TypeOK
<1>6. Sent(e)'
  <2>1. Run \in DOMAIN published'
    BY <1>4, LenProperties DEF Run
  <2>2. id \in 1..published'[Run]
    BY <1>2, <1>4
  <2> QED
    BY <1>3, <2>1, <2>2 DEF Sent
<1>7. got' = got
  BY DEF Publish, closureVars
<1>8. pipe = <<>> <=> L = 0
  BY <1>5, EmptySeq DEF TypeOK
<1>9. IsFirst(L + 1)' <=> pipe = <<>> \/ pipe[L] = Open
  <2>1. L # 0 => pipe'[L] = pipe[L] /\ L + 1 # 1 /\ (L + 1) - 1 = L
    BY <1>4, <1>5
  <2>2. L = 0 => L + 1 = 1
    OBVIOUS
  <2> QED
    BY <1>8, <2>1, <2>2 DEF IsFirst
<1>10. CASE pipe = <<>> \/ pipe[L] = Open
  <2>1. Newest = LastHandled
    BY <1>10 DEF Newest
  <2>2. LastHandled.run = Run => LastHandled.id = top
    BY <1>1, <2>1 DEF LiveInv
  <2>3. Feed!Follows(e)'
    <3>1. CASE got = <<>>
      BY <1>7, <3>1 DEF Feed!Follows
    <3>2. CASE got # <<>>
      <4>1. Sent(LastHandled)
        BY <3>2 DEF PipeInv
      <4>2. LastHandled.run \in 1..Run /\ Run \in Nat
        BY <4>1, LenProperties DEF Sent, TypeOK, Run
      <4>3. LastHandled.run < Run \/ LastHandled.run = Run
        BY <4>2
      <4>4. LastHandled = got[Len(got)]
        BY <3>2 DEF LastHandled
      <4> QED
        BY <1>3, <1>7, <2>2, <4>3, <4>4 DEF Feed!Follows
    <3> QED
      BY <3>1, <3>2
  <2> QED
    BY <1>3, <1>4, <1>5, <1>6, <1>9, <1>10, <2>3 DEF InOrder
<1>11. CASE ~(pipe = <<>> \/ pipe[L] = Open)
  <2>1. L \in DOMAIN pipe
    BY <1>5, <1>8, <1>11
  <2>2. pipe[L].run = Run /\ pipe[L].id = top
    BY <1>1, <1>11, <2>1 DEF LiveInv, Newest
  <2>3. pipe'[(L + 1) - 1] = pipe[L]
    BY <1>4, <1>5, <2>1
  <2> QED
    BY <1>3, <1>4, <1>6, <1>9, <1>11, <2>2, <2>3 DEF InOrder
<1> QED
  BY <1>3, <1>4, <1>5, <1>10, <1>11

(* The replay of a new connection comes next.                               *)
LEMMA ReplayInOrder ==
  ASSUME StreamInv, Attach, NEW n \in DOMAIN pipe', n # 1
  PROVE  InOrder(n)' /\ pipe'[n].run = Run /\ n \in Nat \ {0, 1}
         /\ pipe'[n] # Open /\ (n = Len(pipe') => pipe'[n].id = published[Run])
<1> USE DEF StreamInv
<1>1. PICK first \in 1..(Len(buffer) + 1) :
        /\ pipe' \in Seq(Messages)
        /\ Len(pipe') = 1 + (Len(buffer) + 1 - first)
        /\ pipe'[1] = Open
        /\ \A i \in 2..Len(pipe') :
             pipe'[i] = [run |-> Run, id |-> buffer[first + i - 2]]
        /\ IF Marker = 0 THEN first = Len(buffer) + 1
           ELSE \A i \in DOMAIN buffer : buffer[i] > Marker <=> first <= i
  BY AttachWrites
<1>2. PICK top \in Nat : top = published[Run]
  BY BufferIds
<1>3. PICK m \in Nat : m = Len(buffer)
  BY BufferIds
<1>4. \A i \in 1..m : buffer[i] \in 1..top /\ buffer[i] = top - m + i
  BY <1>2, <1>3, BufferIds
<1>5. DOMAIN buffer = 1..m /\ DOMAIN pipe' = 1..Len(pipe')
  BY <1>1, <1>3, LenProperties DEF TypeOK
<1>6. n \in 2..Len(pipe') /\ n \in Nat \ {0, 1}
  BY <1>1, <1>3, <1>5
<1> PICK k : k = first + n - 2
  OBVIOUS
<1>7. k \in 1..m /\ first \in Nat \ {0} /\ k \in Nat
  BY <1>1, <1>3, <1>6, SMTT(30)
<1> PICK e : e = pipe'[n]
  OBVIOUS
<1>8. e.run = Run /\ e.id = buffer[k]
  <2>1. pipe'[n] = [run |-> Run, id |-> buffer[first + n - 2]]
    BY <1>1, <1>6
  <2>2. e = [run |-> Run, id |-> buffer[k]]
    BY <2>1
  <2> QED
    BY <2>2
<1>9. e.id = top - m + k /\ e.id \in 1..top
  BY <1>4, <1>7, <1>8
<1>10. e # Open
  BY <1>9 DEF Open
<1>11. /\ published' = published /\ got' = got /\ Run \in DOMAIN published
  BY LenProperties DEF Attach, closureVars, TypeOK, Run
<1>12. Sent(e)'
  BY <1>2, <1>8, <1>9, <1>11 DEF Sent
<1>13. n = Len(pipe') => e.id = top
  BY <1>1, <1>3, <1>6, <1>7, <1>9
<1>14. CASE n = 2
  <2>1. IsFirst(n)'
    BY <1>1, <1>14 DEF IsFirst
  <2>2. k = first
    BY <1>7, <1>14
  <2>3. Feed!Follows(e)'
    <3>1. CASE got = <<>>
      BY <1>11, <3>1 DEF Feed!Follows
    <3>2. CASE got # <<>>
      <4> PICK last : last = LastHandled
        OBVIOUS
      <4>1. last.run \in 1..Run /\ last.id \in Nat \ {0} /\ Run \in Nat
        BY <3>2, SentStays, PublishedGrows DEF PipeInv, Next
      <4>2. Marker = last.id
        BY DEF MarkerInv, Attach
      <4>3. \A i \in 1..m : buffer[i] > last.id <=> first <= i
        BY <1>1, <1>5, <4>1, <4>2
      <4>4. e.id > last.id
        BY <1>7, <1>8, <2>2, <4>3
      <4>5. \/ e.id = last.id + 1
            \/ e.id > last.id + 1 /\ top >= last.id + 1 + MaxBufferSize
        <5>1. CASE first = 1
          <6>1. m = MaxBufferSize \/ m = top
            BY <1>2, <1>3 DEF BufferInv
          <6> QED
            BY <1>9, <2>2, <4>1, <4>4, <5>1, <6>1, StreamAssumption
        <5>2. CASE first # 1
          <6>1. first - 1 \in 1..m /\ ~(first <= first - 1)
            BY <1>7, <2>2, <5>2
          <6>2. ~(buffer[first - 1] > last.id)
            BY <4>3, <6>1
          <6>3. buffer[first - 1] = top - m + (first - 1)
            BY <1>4, <6>1
          <6> QED
            BY <1>7, <1>9, <2>2, <4>1, <4>4, <6>2, <6>3, SMTT(30)
        <5> QED
          BY <5>1, <5>2
      <4>6. last.run < e.run \/ last.run = e.run
        BY <1>8, <4>1
      <4>7. last = got[Len(got)]
        BY <3>2 DEF LastHandled
      <4>8. published'[e.run] = top
        BY <1>2, <1>8, <1>11
      <4> QED
        BY <1>11, <4>5, <4>6, <4>7, <4>8 DEF Feed!Follows
    <3> QED
      BY <3>1, <3>2
  <2> QED
    BY <1>2, <1>6, <1>8, <1>10, <1>12, <1>13, <2>1, <2>3 DEF InOrder
<1>15. CASE n # 2
  <2>1. n - 1 \in 2..Len(pipe') /\ n - 1 \in Nat /\ n # 1
    BY <1>6, <1>15
  <2>2. pipe'[n - 1] = [run |-> Run, id |-> buffer[first + (n - 1) - 2]]
    BY <1>1, <2>1
  <2>3. first + (n - 1) - 2 = k - 1 /\ k - 1 \in 1..m
    <3>1. first + (n - 1) - 2 = k - 1
      BY <1>6, <1>7
    <3>2. n \in Nat /\ n >= 3
      BY <1>6, <1>15
    <3>3. k - 1 \in 1..m
      BY <1>7, <3>2
    <3> QED
      BY <3>1, <3>3
  <2>4. buffer[k - 1] = top - m + (k - 1) /\ buffer[k - 1] \in 1..top
    BY <1>4, <2>3
  <2>5. pipe'[n - 1].run = Run /\ e.id = pipe'[n - 1].id + 1 /\ pipe'[n - 1] # Open
    BY <1>7, <1>9, <2>2, <2>3, <2>4, SMTT(30) DEF Open
  <2>6. ~IsFirst(n)'
    BY <2>1, <2>5 DEF IsFirst
  <2> QED
    BY <1>2, <1>6, <1>8, <1>10, <1>12, <1>13, <2>5, <2>6 DEF InOrder
<1> QED
  BY <1>14, <1>15

(* OnOpen and OnUi leave the rest of the pipe.                              *)
LEMMA RestIs ==
  ASSUME TypeOK, pipe # <<>>, pipe' = Tail(pipe), NEW L, L = Len(pipe)
  PROVE  /\ L \in Nat \ {0} /\ DOMAIN pipe = 1..L /\ DOMAIN pipe' = 1..(L - 1)
         /\ Len(pipe') = L - 1 /\ (pipe' = <<>> <=> L = 1)
         /\ \A i \in 1..(L - 1) : pipe'[i] = pipe[i + 1]
<1>1. /\ L \in Nat \ {0} /\ pipe' \in Seq(Messages) /\ Len(pipe') = L - 1
      /\ \A i \in 1..Len(pipe') : pipe'[i] = pipe[i + 1]
  BY ReadTakesHead
<1>2. DOMAIN pipe = 1..L /\ DOMAIN pipe' = 1..(L - 1)
  BY <1>1, LenProperties DEF TypeOK
<1> PICK rest : rest = pipe'
  OBVIOUS
<1>3. rest = <<>> <=> Len(rest) = 0
  <2>1. rest \in Seq(Messages)
    BY <1>1
  <2> QED
    BY <2>1, EmptySeq
<1>4. rest = <<>> <=> L = 1
  BY <1>1, <1>3
<1> QED
  BY <1>1, <1>2, <1>4

LEMMA PipeStep ==
  ASSUME StreamInv, [Next]_vars
  PROVE  PipeInv'
<1> USE DEF StreamInv
<1>1. got' = got => (got' # <<>> => Sent(LastHandled)')
  <2> SUFFICES ASSUME got' = got, got # <<>>
               PROVE  Sent(LastHandled)'
    OBVIOUS
  <2> PICK e : e = LastHandled
    OBVIOUS
  <2>1. Sent(e)
    BY DEF PipeInv
  <2>2. e.run \in DOMAIN published' /\ e.id \in 1..published'[e.run]
    BY <2>1, SentStays
  <2>3. LastHandled' = e
    BY DEF LastHandled
  <2> QED
    BY <2>2, <2>3 DEF Sent
<1>2. DOMAIN pipe = 1..Len(pipe) /\ Len(pipe) \in Nat
  BY LenProperties DEF TypeOK
<1>3. ASSUME got' = got, NEW m \in 0..Len(pipe), DOMAIN pipe' = 1..m,
             \A i \in 1..m : pipe'[i] = pipe[i]
      PROVE  PipeInv'
  <2>1. ASSUME NEW n \in 1..m, pipe'[n] # Open
        PROVE  InOrder(n)'
    <3>1. n \in DOMAIN pipe /\ pipe'[n] = pipe[n]
      BY <1>2, <1>3
    <3>2. n > 1 => pipe'[n - 1] = pipe[n - 1]
      BY <1>2, <1>3
    <3> QED
      BY <1>3, <2>1, <3>1, <3>2, OrderStays
  <2> QED
    BY <1>1, <1>3, <2>1 DEF PipeInv
<1>4. ASSUME got' = got, pipe' = pipe
      PROVE  PipeInv'
  <2>1. Len(pipe) \in 0..Len(pipe)
    BY <1>2
  <2> PICK m \in 0..Len(pipe) : m = Len(pipe)
    BY <2>1
  <2>2. DOMAIN pipe' = 1..m /\ \A i \in 1..m : pipe'[i] = pipe[i]
    BY <1>2, <1>4
  <2> QED
    BY <1>3, <1>4, <2>2
<1>5. ASSUME got' = got, pipe' = <<>>
      PROVE  PipeInv'
  BY <1>1, <1>5 DEF PipeInv
<1>6. CASE Publish
  <2>1. got' = got
    BY <1>6 DEF Publish, closureVars
  <2>2. CASE link = "up"
    <3> PICK L : L = Len(pipe)
      OBVIOUS
    <3>1. /\ L \in Nat /\ DOMAIN pipe = 1..L /\ DOMAIN pipe' = 1..(L + 1)
          /\ \A i \in 1..L : pipe'[i] = pipe[i]
          /\ InOrder(L + 1)'
      BY <1>6, <2>2, PublishedInOrder
    <3>2. ASSUME NEW n \in 1..(L + 1), pipe'[n] # Open
          PROVE  InOrder(n)'
      <4>1. CASE n = L + 1
        BY <3>1, <4>1
      <4>2. CASE n # L + 1
        <5>1. n \in DOMAIN pipe /\ pipe'[n] = pipe[n]
          BY <3>1, <4>2
        <5>2. n > 1 => pipe'[n - 1] = pipe[n - 1]
          BY <3>1, <4>2
        <5> QED
          BY <2>1, <3>2, <5>1, <5>2, OrderStays
      <4> QED
        BY <4>1, <4>2
    <3> QED
      BY <1>1, <2>1, <3>1, <3>2 DEF PipeInv
  <2>3. CASE link # "up"
    BY <1>4, <1>6, <2>1, <2>3 DEF Publish
  <2> QED
    BY <2>2, <2>3
<1>7. CASE Attach
  <2>1. got' = got
    BY <1>7 DEF Attach, closureVars
  <2>2. pipe'[1] = Open
    BY <1>7, AttachWrites
  <2>3. ASSUME NEW n \in DOMAIN pipe', pipe'[n] # Open
        PROVE  InOrder(n)'
    <3>1. n # 1
      BY <2>2, <2>3
    <3> QED
      BY <1>7, <3>1, ReplayInOrder
  <2> QED
    BY <1>1, <2>1, <2>3 DEF PipeInv
<1>8. CASE Restart \/ Refuse \/ OnNetworkError \/ Reconnect
  <2>1. got' = got /\ pipe' = pipe
    BY <1>8 DEF Restart, Refuse, OnNetworkError, Reconnect, closureVars, linkVars
  <2> QED
    BY <1>4, <2>1
<1>9. ASSUME NEW c \in clients, Detach(c)
      PROVE  PipeInv'
  BY <1>4, <1>9 DEF Detach, linkVars, closureVars
<1>10. ASSUME NEW kind \in {"broken", "stalled"}, Fault(kind)
       PROVE  PipeInv'
  <2>1. PICK m \in 0..Len(pipe) :
          /\ pipe' \in Seq(Messages) /\ Len(pipe') = m
          /\ \A i \in 1..m : pipe'[i] = pipe[i]
    BY <1>10, FaultCuts
  <2>2. DOMAIN pipe' = 1..m
    BY <2>1, LenProperties
  <2>3. got' = got
    BY <1>10 DEF Fault, closureVars
  <2> QED
    BY <1>3, <2>1, <2>2, <2>3
<1>11. CASE OnOpen
  <2> PICK L : L = Len(pipe)
    OBVIOUS
  <2>1. /\ L \in Nat \ {0} /\ DOMAIN pipe = 1..L /\ DOMAIN pipe' = 1..(L - 1)
        /\ \A i \in 1..(L - 1) : pipe'[i] = pipe[i + 1]
    BY <1>11, RestIs DEF OnOpen
  <2>2. got' = got /\ published' = published /\ pipe[1] = Open
    BY <1>11, <2>1 DEF OnOpen, serverVars, OpenInv
  <2>3. ASSUME NEW n \in 1..(L - 1), pipe'[n] # Open
        PROVE  InOrder(n)'
    <3>1. n + 1 \in DOMAIN pipe /\ pipe'[n] = pipe[n + 1] /\ n + 1 # 1 /\ (n + 1) - 1 = n
      BY <2>1
    <3>2. InOrder(n + 1)
      BY <2>3, <3>1 DEF PipeInv
    <3>3. IsFirst(n)' <=> IsFirst(n + 1)
      <4>1. CASE n = 1
        BY <2>2, <3>1, <4>1 DEF IsFirst
      <4>2. CASE n # 1
        <5>1. pipe'[n - 1] = pipe[n]
          BY <2>1, <4>2
        <5> QED
          BY <3>1, <4>2, <5>1 DEF IsFirst
      <4> QED
        BY <4>1, <4>2
    <3>4. ~IsFirst(n)' => pipe'[n - 1] = pipe[n]
      BY <2>1 DEF IsFirst
    <3> QED
      BY <2>2, <3>1, <3>2, <3>3, <3>4 DEF InOrder, Sent, Feed!Follows
  <2> QED
    BY <1>1, <2>1, <2>2, <2>3 DEF PipeInv
<1>12. CASE OnUi
  <2> PICK L : L = Len(pipe)
    OBVIOUS
  <2>1. /\ L \in Nat \ {0} /\ DOMAIN pipe = 1..L /\ DOMAIN pipe' = 1..(L - 1)
        /\ \A i \in 1..(L - 1) : pipe'[i] = pipe[i + 1]
    BY <1>12, RestIs DEF OnUi
  <2>2. /\ Head(pipe) = pipe[1] /\ Head(pipe) \in Messages /\ pipe[1] # Open
        /\ Sent(Head(pipe))
    BY <1>12, ReadsAnEvent
  <2>3. published' = published /\ stream = "open"
    BY <1>12 DEF OnUi, serverVars
  <2>4. LastHandled' = pipe[1] /\ got' # <<>> /\ got'[Len(got')] = pipe[1]
    BY <1>12, <2>2, LastOfAppend DEF OnUi
  <2>5. ASSUME NEW n \in 1..(L - 1), pipe'[n] # Open
        PROVE  InOrder(n)'
    <3>1. /\ n + 1 \in DOMAIN pipe /\ n \in DOMAIN pipe
          /\ pipe'[n] = pipe[n + 1] /\ n + 1 # 1 /\ (n + 1) - 1 = n
      BY <2>1
    <3>2. pipe[n] # Open
      BY <2>3, <3>1 DEF OpenInv
    <3>3. InOrder(n + 1) /\ ~IsFirst(n + 1)
      BY <2>5, <3>1, <3>2 DEF PipeInv, IsFirst
    <3>4. Sent(pipe[n + 1]) /\ pipe[n + 1].run = pipe[n].run /\ pipe[n + 1].id = pipe[n].id + 1
      BY <3>1, <3>3 DEF InOrder
    <3>5. CASE n = 1
      <4>1. IsFirst(n)'
        BY <3>5 DEF IsFirst
      <4>2. Feed!Follows(pipe[n])'
        BY <2>4, <3>1, <3>4, <3>5 DEF Feed!Follows
      <4> QED
        BY <2>3, <3>1, <3>4, <4>1, <4>2 DEF InOrder, Sent
    <3>6. CASE n # 1
      <4>1. pipe'[n - 1] = pipe[n]
        BY <2>1, <3>6
      <4>2. ~IsFirst(n)'
        BY <3>2, <3>6, <4>1 DEF IsFirst
      <4> QED
        BY <2>3, <3>1, <3>4, <4>1, <4>2 DEF InOrder, Sent
    <3> QED
      BY <3>5, <3>6
  <2>6. Sent(LastHandled)'
    BY <2>2, <2>3, <2>4 DEF Sent
  <2> QED
    BY <2>1, <2>5, <2>6 DEF PipeInv
<1>13. CASE HeartbeatTimeout \/ Disconnect
  BY <1>5, <1>13 DEF HeartbeatTimeout, Disconnect
<1>14. CASE UNCHANGED vars
  BY <1>4, <1>14 DEF vars, linkVars, closureVars
<1> QED
  BY <1>6, <1>7, <1>8, <1>9, <1>10, <1>11, <1>12, <1>13, <1>14 DEF Next

LEMMA LiveStep ==
  ASSUME StreamInv, [Next]_vars
  PROVE  LiveInv'
<1> USE DEF StreamInv
<1>1. ASSUME link' # "up"
      PROVE  LiveInv'
  BY <1>1 DEF LiveInv
<1>2. ASSUME UNCHANGED <<published, got, pipe, link>>
      PROVE  LiveInv'
  BY <1>2 DEF LiveInv, Newest, LastHandled, Run
<1>3. CASE Publish
  <2>1. CASE link = "up"
    <3> PICK L : L = Len(pipe)
      OBVIOUS
    <3>1. /\ L \in Nat /\ DOMAIN pipe = 1..L /\ DOMAIN pipe' = 1..(L + 1)
          /\ Len(pipe') = L + 1
          /\ \A i \in 1..L : pipe'[i] = pipe[i]
          /\ pipe'[L + 1] # Open
          /\ pipe'[L + 1].run = Run /\ pipe'[L + 1].id = published'[Run] /\ Run' = Run
      BY <1>3, <2>1, PublishedInOrder
    <3>2. ASSUME NEW n \in 1..(L + 1), pipe'[n] # Open
          PROVE  pipe'[n].run = Run'
      <4>1. n = L + 1 \/ n \in 1..L
        BY <3>1
      <4> QED
        BY <2>1, <3>1, <3>2, <4>1 DEF LiveInv
    <3>3. pipe' # <<>>
      BY <3>1
    <3>4. Newest' = pipe'[L + 1]
      BY <3>1, <3>3 DEF Newest
    <3> QED
      BY <3>1, <3>2, <3>4 DEF LiveInv
  <2>2. CASE link # "up"
    BY <1>1, <1>3, <2>2 DEF Publish
  <2> QED
    BY <2>1, <2>2
<1>4. CASE Attach
  <2>1. PICK first \in 1..(Len(buffer) + 1) :
          /\ pipe' \in Seq(Messages)
          /\ Len(pipe') = 1 + (Len(buffer) + 1 - first)
          /\ pipe'[1] = Open
          /\ IF Marker = 0 THEN first = Len(buffer) + 1
             ELSE \A i \in DOMAIN buffer : buffer[i] > Marker <=> first <= i
    BY <1>4, AttachWrites
  <2>2. PICK m \in Nat : m = Len(buffer)
    BY BufferIds
  <2>3. DOMAIN pipe' = 1..Len(pipe') /\ DOMAIN buffer = 1..m /\ Len(pipe') \in Nat \ {0}
    BY <2>1, <2>2, LenProperties DEF TypeOK
  <2>4. /\ published' = published /\ got' = got /\ Run' = Run
        /\ pipe' # <<>>
    BY <1>4, <2>1, <2>3, EmptySeq DEF Attach, closureVars, Run
  <2>5. ASSUME NEW n \in DOMAIN pipe', pipe'[n] # Open
        PROVE  pipe'[n].run = Run'
    <3>1. n # 1
      BY <2>1, <2>5
    <3> QED
      BY <1>4, <2>4, <3>1, ReplayInOrder
  <2>6. ASSUME Newest'.run = Run
        PROVE  Newest'.id = published[Run]
    <3>1. CASE Len(pipe') # 1
      <4> PICK n : n = Len(pipe')
        OBVIOUS
      <4>1. n \in DOMAIN pipe' /\ n # 1
        BY <2>3, <3>1
      <4>2. pipe'[n] # Open /\ pipe'[n].id = published[Run]
        BY <1>4, <4>1, ReplayInOrder
      <4>3. Newest' = pipe'[n]
        BY <2>4, <4>2 DEF Newest
      <4> QED
        BY <4>2, <4>3
    <3>2. CASE Len(pipe') = 1
      <4> PICK last : last = LastHandled
        OBVIOUS
      <4>1. Newest' = last
        BY <2>1, <2>4, <3>2 DEF Newest, LastHandled
      <4>2. last.run = Run
        BY <2>6, <4>1
      <4>3. got # <<>>
        <5>1. Run \in Nat \ {0}
          BY LenProperties DEF TypeOK, Run
        <5> QED
          BY <4>2, <5>1 DEF LastHandled, Open
      <4>4. PICK top \in Nat : top = published[Run]
        BY BufferIds
      <4>5. last.id \in 1..top
        BY <4>2, <4>3, <4>4 DEF PipeInv, Sent
      <4>6. Marker = last.id
        BY <1>4 DEF MarkerInv, Attach
      <4>7. first = m + 1
        <5>1. first \in 1..(m + 1)
          BY <2>2
        <5>2. Len(pipe') = 1 + (m + 1 - first)
          BY <2>1, <2>2
        <5>3. 1 = 1 + (m + 1 - first)
          BY <3>2, <5>2
        <5> QED
          BY <5>1, <5>3
      <4>8. \A i \in 1..m : buffer[i] > last.id <=> m + 1 <= i
        BY <2>1, <2>3, <4>5, <4>6, <4>7
      <4>9. m # 0
        BY <2>2, <4>4, <4>5, StreamAssumption DEF BufferInv
      <4>10. buffer[m] = top
        <5>1. m \in 1..m /\ top - m + m = top
          BY <4>9
        <5> QED
          BY <2>2, <4>4, <5>1, BufferIds
      <4>11. ~(top > last.id)
        BY <4>8, <4>9, <4>10
      <4>12. last.id = top
        BY <4>5, <4>11
      <4> QED
        BY <4>1, <4>4, <4>12
    <3> QED
      BY <3>1, <3>2
  <2> QED
    BY <2>4, <2>5, <2>6 DEF LiveInv
<1>5. CASE Restart
  BY <1>1, <1>5 DEF Restart
<1>6. ASSUME NEW c \in clients, Detach(c)
      PROVE  LiveInv'
  BY <1>2, <1>6 DEF Detach, linkVars, closureVars
<1>7. ASSUME NEW kind \in {"broken", "stalled"}, Fault(kind)
      PROVE  LiveInv'
  BY <1>1, <1>7 DEF Fault
<1>8. CASE Refuse \/ Reconnect
  BY <1>2, <1>8 DEF Refuse, Reconnect, serverVars, linkVars
<1>9. CASE OnOpen \/ OnUi
  <2> SUFFICES ASSUME link' = "up"
               PROVE  LiveInv'
    BY <1>1
  <2> PICK L : L = Len(pipe)
    OBVIOUS
  <2>1. /\ L \in Nat \ {0} /\ DOMAIN pipe = 1..L /\ DOMAIN pipe' = 1..(L - 1)
        /\ Len(pipe') = L - 1 /\ (pipe' = <<>> <=> L = 1)
        /\ \A i \in 1..(L - 1) : pipe'[i] = pipe[i + 1]
    BY <1>9, RestIs DEF OnOpen, OnUi
  <2>2. published' = published /\ Run' = Run /\ link = "up" /\ pipe # <<>>
    BY <1>9 DEF OnOpen, OnUi, serverVars, Run
  <2>3. \A n \in 1..(L - 1) : pipe'[n] # Open => pipe'[n].run = Run
    <3> TAKE n \in 1..(L - 1)
    <3>1. n + 1 \in DOMAIN pipe
      BY <2>1
    <3> QED
      BY <2>1, <2>2, <3>1 DEF LiveInv
  <2>4. Newest' = Newest
    <3>1. CASE L = 1
      <4>1. Newest' = LastHandled'
        BY <2>1, <3>1 DEF Newest
      <4>2. CASE OnOpen
        <5>1. pipe[1] = Open
          BY <2>1, <4>2 DEF OnOpen, OpenInv
        <5>2. got' = got
          BY <4>2 DEF OnOpen
        <5> QED
          BY <3>1, <4>1, <5>1, <5>2 DEF Newest, LastHandled
      <4>3. CASE OnUi
        <5>1. Head(pipe) = pipe[1] /\ Head(pipe) \in Messages /\ pipe[1] # Open
          BY <4>3, ReadsAnEvent
        <5>2. LastHandled' = pipe[1]
          BY <4>3, <5>1, LastOfAppend DEF OnUi
        <5>3. Newest = pipe[1]
          BY <2>2, <3>1, <5>1 DEF Newest
        <5> QED
          BY <4>1, <5>2, <5>3
      <4> QED
        BY <1>9, <4>2, <4>3
    <3>2. CASE L # 1
      <4>1. pipe'[L - 1] = pipe[L] /\ pipe' # <<>>
        BY <2>1, <3>2
      <4>2. pipe[L] # Open
        BY <2>1, <3>2 DEF OpenInv
      <4> QED
        BY <2>1, <2>2, <4>1, <4>2 DEF Newest
    <3> QED
      BY <3>1, <3>2
  <2> QED
    BY <2>1, <2>2, <2>3, <2>4 DEF LiveInv
<1>10. CASE OnNetworkError \/ HeartbeatTimeout \/ Disconnect
  BY <1>1, <1>10 DEF OnNetworkError, HeartbeatTimeout, Disconnect
<1>11. CASE UNCHANGED vars
  BY <1>2, <1>11 DEF vars, serverVars, linkVars, closureVars
<1> QED
  BY <1>3, <1>4, <1>5, <1>6, <1>7, <1>8, <1>9, <1>10, <1>11 DEF Next

-----------------------------------------------------------------------------
(* The theorems                                                             *)

LEMMA StreamInit == Init => StreamInv
<1> SUFFICES ASSUME Init
             PROVE  StreamInv
  OBVIOUS
<1> USE DEF Init
<1>1. Run = 1 /\ published[Run] = 0
  BY DEF Run
<1>2. TypeOK
  <2>1. published \in Seq(Nat)
    OBVIOUS
  <2>2. buffer \in Seq(Nat) /\ pipe \in Seq(Messages) /\ got \in Seq(Messages)
    BY EmptySeq
  <2>3. conn \in Nat /\ url \in Nat /\ header \in Nat /\ lastEventId \in Nat
    OBVIOUS
  <2>4. /\ link \in {"none", "up", "broken", "stalled"}
        /\ stream \in {"connecting", "open", "closed"}
        /\ heartbeat \in BOOLEAN /\ reconnect \in BOOLEAN /\ closed \in BOOLEAN
    OBVIOUS
  <2>5. Run >= 1
    BY <1>1
  <2> HIDE DEF Init
  <2> QED
    BY <2>1, <2>2, <2>3, <2>4, <2>5 DEF TypeOK
<1>3. BufferInv
  BY <1>1 DEF BufferInv
<1>4. ConnectionInv
  BY DEF ConnectionInv, OneWayBack
<1>5. OpenInv
  BY DEF OpenInv
<1>6. MarkerInv
  BY DEF MarkerInv, LastHandled, Open, Marker
<1>7. PipeInv
  BY DEF PipeInv
<1>8. LiveInv
  BY DEF LiveInv
<1> QED
  BY <1>2, <1>3, <1>4, <1>5, <1>6, <1>7, <1>8 DEF StreamInv

LEMMA StreamStep == StreamInv /\ [Next]_vars => StreamInv'
<1> SUFFICES ASSUME StreamInv, [Next]_vars
             PROVE  StreamInv'
  OBVIOUS
<1>1. /\ TypeOK /\ BufferInv /\ ConnectionInv
      /\ OpenInv /\ MarkerInv /\ PipeInv
  BY DEF StreamInv
<1>2. TypeOK' /\ BufferInv'
  BY <1>1, TypeStep, BufferStep
<1>3. ConnectionInv' /\ OpenInv' /\ MarkerInv'
  BY <1>1, ConnectionStep, OpenStep, MarkerStep
<1>4. PipeInv' /\ LiveInv'
  BY PipeStep, LiveStep
<1> QED
  BY <1>2, <1>3, <1>4 DEF StreamInv

(* A tab that is not left has one way back to the stream, an EventSource    *)
(* that is not closed or a reconnect timer, however breaks, stalls,         *)
(* refusals and timeouts of the heartbeat meet (connectUiEventStream).      *)
THEOREM OneWayBackAlways == Spec => []OneWayBack
<1>1. StreamInv => OneWayBack
  BY DEF StreamInv, ConnectionInv
<1> QED
  BY StreamInit, StreamStep, <1>1, PTL DEF Spec

(* The route is told the last event the UI handled by the header or the     *)
(* URL, whoever made the connection.                                        *)
THEOREM MarkerIsLastAlways == Spec => []MarkerIsLast
<1>1. StreamInv => MarkerIsLast
  BY DEF StreamInv, MarkerInv, MarkerIsLast, LastHandled, Open
<1> QED
  BY StreamInit, StreamStep, <1>1, PTL DEF Spec

LEMMA FeedStep ==
  ASSUME StreamInv, [Next]_vars
  PROVE  Feed!Next \/ UNCHANGED <<published, got>>
<1>1. CASE Publish
  <2>1. published' = [published EXCEPT ![Len(published)] = @ + 1]
    BY <1>1 DEF Publish, Run
  <2>2. got' = got
    BY <1>1 DEF Publish, closureVars
  <2> QED
    BY <2>1, <2>2 DEF Feed!Next, Feed!Publish
<1>2. CASE Restart
  BY <1>2 DEF Restart, closureVars, Feed!Next, Feed!Restart
<1>3. CASE OnUi
  <2> PICK e : e = Head(pipe)
    OBVIOUS
  <2>1. e \in Messages /\ Sent(e) /\ Feed!Follows(e)
    BY <1>3, ReadsAnEvent DEF StreamInv
  <2>2. got' = Append(got, e) /\ published' = published
    BY <1>3 DEF OnUi, serverVars
  <2>3. e = [run |-> e.run, id |-> e.id]
    BY <2>1 DEF Messages
  <2>4. e.run \in DOMAIN published /\ e.id \in 1..published[e.run]
    BY <2>1 DEF Sent
  <2> PICK r, i : r = e.run /\ i = e.id
    OBVIOUS
  <2>5. e = [run |-> r, id |-> i]
    BY <2>3
  <2>6. \E rr \in DOMAIN published : \E ii \in 1..published[rr] :
          /\ Feed!Follows([run |-> rr, id |-> ii])
          /\ got' = Append(got, [run |-> rr, id |-> ii])
    BY <2>1, <2>2, <2>4, <2>5
  <2> QED
    BY <2>2, <2>6 DEF Feed!Next, Feed!Handle
<1>4. CASE ~Publish /\ ~Restart /\ ~OnUi
  BY <1>4 DEF Next, Attach, Detach, Fault, Refuse, OnOpen, OnNetworkError,
     HeartbeatTimeout, Reconnect, Disconnect, vars, serverVars, closureVars
<1> QED
  BY <1>1, <1>2, <1>3, <1>4

(* The stream implements UiEventFeed: in one run of the server the UI gets  *)
(* the events in order, once, and without a gap that the buffer could fill, *)
(* whatever is lost, replayed and published meanwhile.                      *)
THEOREM ImplementsTheFeed == Spec => FeedInOrder
<1>1. Init => Feed!Init
  BY DEF Init, Feed!Init
<1>2. StreamInv /\ [Next]_vars => [Feed!Next]_<<published, got>>
  BY FeedStep
<1> QED
  BY StreamInit, StreamStep, <1>1, <1>2, PTL DEF Spec, FeedInOrder, Feed!Spec
=============================================================================
