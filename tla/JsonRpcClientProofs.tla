------------------------ MODULE JsonRpcClientProofs -------------------------
(***************************************************************************)
(* Proofs about JsonRpcClient, for any set of calls, any number of          *)
(* attempts and any number of crashes: its types, one process at a time,    *)
(* the handshake before every request, and, from "The calls" on, that a     *)
(* call in flight can always be answered (NoStrandedCall), that pending     *)
(* holds nothing nobody waits for (NoLeakedEntry), and that the client      *)
(* implements CallService (CallsOnce).                                      *)
(*                                                                         *)
(* From "The approvals" on, about Approvals, for any number of requests of  *)
(* codex too: a codex that asks is answered once, what the user is still    *)
(* asked was answered to nobody, and the service implements ApprovalDesk.   *)
(***************************************************************************)
EXTENDS Approvals, FiniteSetTheorems, SequenceTheorems, TLAPS

-----------------------------------------------------------------------------
(* What the steps of the process manager do to its own fields.              *)

(* The message constructors build messages.                                 *)
LEMMA MessageTypes ==
  /\ Initialized \in Messages
  /\ \A id \in Nat : Initialize(id) \in Messages
  /\ \A id \in Nat, k \in Calls : Request(id, k) \in Messages
BY DEF Messages, Initialized, Initialize, Request

(* sendMessage keeps the manager's fields well typed.                       *)
LEMMA SendMessageType ==
  ASSUME ProcTypeOK, NEW m \in Messages, SendMessage(m)
  PROVE  ProcTypeOK' /\ Len(wire') >= Len(wire)
<1>1. CASE WriteNow(m)
  <2>1. child \in 1..Len(wire)
    BY <1>1 DEF WriteNow, ProcTypeOK
  <2>2. Append(wire[child], m) \in Seq(Messages)
    BY <2>1 DEF ProcTypeOK
  <2>3. wire' \in Seq(Seq(Messages)) /\ Len(wire') = Len(wire)
    BY <1>1, <2>1, <2>2 DEF WriteNow, ProcTypeOK
  <2>4. QED
    BY <1>1, <2>3 DEF WriteNow, ProcTypeOK
<1>2. CASE SpawnFor(m)
  <2>1. wire' \in Seq(Seq(Messages)) /\ Len(wire') = Len(wire) + 1
    BY <1>2 DEF SpawnFor, ProcTypeOK
  <2>2. held' \in Seq(Messages \cup {NoMessage}) /\ Len(held') = Len(held) + 1
    BY <1>2 DEF SpawnFor, ProcTypeOK
  <2>3. Len(wire) + 1 \in 1..Len(wire') /\ alive \subseteq 1..Len(wire')
    BY <2>1 DEF ProcTypeOK
  <2>4. alive' \subseteq 1..Len(wire')
    BY <1>2, <2>3 DEF SpawnFor
  <2>7. child' \in 0..Len(wire') /\ starting' \in 0..Len(wire')
    BY <1>2, <2>1, <2>3 DEF SpawnFor, ProcTypeOK
  <2>5. Len(held') = Len(wire') /\ Len(wire') >= Len(wire)
    BY <2>1, <2>2 DEF ProcTypeOK
  <2>6. QED
    BY <2>1, <2>2, <2>4, <2>5, <2>7 DEF ProcTypeOK
<1>3. QED
  BY <1>1, <1>2 DEF SendMessage

(* So does the timer of start().                                            *)
LEMMA StartElapsedType ==
  ASSUME ProcTypeOK, NEW c \in Children, StartElapsed(c)
  PROVE  ProcTypeOK' /\ Len(wire') = Len(wire)
<1>1. c \in 1..Len(held) /\ held[c] \in Messages
  BY DEF ProcTypeOK, StartElapsed, Children
<1>2. held' \in Seq(Messages \cup {NoMessage}) /\ Len(held') = Len(held)
  BY <1>1 DEF ProcTypeOK, StartElapsed
<1>3. wire' \in Seq(Seq(Messages)) /\ Len(wire') = Len(wire)
  <2>1. CASE child = 0
    BY <2>1 DEF ProcTypeOK, StartElapsed
  <2>2. CASE child # 0
    <3>1. child \in 1..Len(wire)
      BY <2>2 DEF ProcTypeOK
    <3>2. Append(wire[child], held[c]) \in Seq(Messages)
      BY <1>1, <3>1 DEF ProcTypeOK
    <3>3. QED
      BY <2>2, <3>1, <3>2 DEF ProcTypeOK, StartElapsed
  <2>3. QED
    BY <2>1, <2>2
<1>4. QED
  BY <1>2, <1>3 DEF ProcTypeOK, StartElapsed

-----------------------------------------------------------------------------
(* Type correctness.                                                        *)

(* ensureInitialized keeps the types of the fields it writes.               *)
LEMMA EnsureInitializedType ==
  ASSUME TypeOK, NEW k \in Calls, EnsureInitialized(k),
         UNCHANGED <<initialized, attempt, callId, codexVars, crashes, phase>>
  PROVE  TypeOK'
<1> USE DEF codexVars
<1>1. pc' \in [Calls -> Places]
  BY DEF EnsureInitialized, TypeOK, ClientTypeOK, Places
<1>2. CASE UNCHANGED <<procVars, nextId, pending, initializing>>
  BY <1>1, <1>2 DEF TypeOK, ClientTypeOK, ProcTypeOK, procVars
<1>3. CASE /\ nextId' = nextId + 1
           /\ pending' = pending \cup {nextId}
           /\ initializing' = nextId
           /\ SendMessage(Initialize(nextId))
  <2>1. ProcTypeOK'
    BY <1>3, MessageTypes, SendMessageType DEF TypeOK, ClientTypeOK
  <2>2. ClientTypeOK'
    BY <1>1, <1>3 DEF TypeOK, ClientTypeOK
  <2>3. QED
    BY <2>1, <2>2 DEF TypeOK
<1>4. QED
  BY <1>2, <1>3 DEF EnsureInitialized

(* Calls move between the places of request in one step.                    *)
LEMMA MoveType ==
  ASSUME pc \in [Calls -> Places], NEW s, NEW d \in Places
  PROVE  [k \in Calls |-> IF pc[k] \in s THEN d ELSE pc[k]] \in [Calls -> Places]
OBVIOUS

(* Every step keeps the types.                                              *)
LEMMA TypeStep == TypeOK /\ [Next]_vars => TypeOK'
<1> SUFFICES ASSUME TypeOK, [Next]_vars PROVE TypeOK'
  OBVIOUS
<1> USE DEF codexVars
<1>a. /\ wire \in Seq(Seq(Messages)) /\ Len(wire) \in Nat
      /\ \A c \in Children : wire[c] \in Seq(Messages)
  BY DEF TypeOK, ProcTypeOK, Children
<1>b. \A c \in Children : \A i \in DOMAIN wire[c] : wire[c][i] \in Messages /\ wire[c][i].id \in Nat
  <2> SUFFICES ASSUME NEW c \in Children, NEW i \in DOMAIN wire[c]
               PROVE  wire[c][i] \in Messages /\ wire[c][i].id \in Nat
    OBVIOUS
  <2>1. wire[c] \in Seq(Messages)
    BY <1>a
  <2>2. wire[c][i] \in Messages
    BY <2>1
  <2>3. QED
    BY <2>2 DEF Messages
<1>c. pc \in [Calls -> Places]
  BY DEF TypeOK, ClientTypeOK
<1>1. ASSUME NEW k \in Calls, Begin(k) PROVE TypeOK'
  BY <1>1, EnsureInitializedType DEF Begin
<1>2. ASSUME NEW k \in Calls, Retry(k) PROVE TypeOK'
  BY <1>2, EnsureInitializedType DEF Retry
<1>3. ASSUME NEW k \in Calls, SendRequest(k) PROVE TypeOK'
  <2>1. ProcTypeOK'
    BY <1>3, MessageTypes, SendMessageType DEF SendRequest, TypeOK, ClientTypeOK
  <2>2. ClientTypeOK'
    BY <1>3 DEF SendRequest, TypeOK, ClientTypeOK, Places
  <2>3. QED
    BY <2>1, <2>2 DEF TypeOK
<1>4. ASSUME NEW k \in Calls, RequestTimeout(k) PROVE TypeOK'
  BY <1>4 DEF RequestTimeout, Places, TypeOK, ClientTypeOK, ProcTypeOK, procVars
<1>5. ASSUME NEW c \in Children, StartTimer(c) PROVE TypeOK'
  <2>1. ProcTypeOK'
    BY <1>5, StartElapsedType DEF StartTimer, TypeOK
  <2>2. ClientTypeOK'
    <3>1. pc' \in [Calls -> Places] /\ initializing' \in {0, initializing}
      BY <1>5, <1>c DEF StartTimer, Shake, Places
    <3>2. initialized' \in BOOLEAN
      BY <1>5, Zenon DEF StartTimer, Shake, TypeOK, ClientTypeOK
    <3>3. QED
      BY <1>5, <3>1, <3>2 DEF StartTimer, TypeOK, ClientTypeOK
  <2>3. QED
    BY <2>1, <2>2 DEF TypeOK
<1>6. ASSUME NEW c \in Children, ExitHandlers(c), phase' \in {phase, "down"},
             crashes' \in 0..MaxCrashes
      PROVE  TypeOK'
  <2>1. ProcTypeOK'
    BY <1>6 DEF ExitHandlers, ProcExit, TypeOK, ProcTypeOK
  <2>2. pc' \in [Calls -> Places]
    BY <1>6, <1>c, MoveType DEF ExitHandlers, FailWaiters, Places
  <2>3. ClientTypeOK'
    <3>1. initialized' \in BOOLEAN
      BY <1>6, Zenon DEF ExitHandlers
    <3>2. initializing' \in 0..(nextId' - 1) /\ pending' \subseteq 1..(nextId' - 1)
      BY <1>6 DEF ExitHandlers, TypeOK, ClientTypeOK
    <3>3. phase' \in {"up", "closing", "down"}
      BY <1>6 DEF TypeOK, ClientTypeOK
    <3>4. QED
      BY <1>6, <2>2, <3>1, <3>2, <3>3 DEF ExitHandlers, TypeOK, ClientTypeOK
  <2>4. QED
    BY <2>1, <2>3 DEF TypeOK
<1>7. ASSUME NEW c \in Children, Crash(c) PROVE TypeOK'
  <2>1. crashes' \in 0..MaxCrashes
    BY <1>7, ClientAssumption DEF Crash, TypeOK, ClientTypeOK
  <2>2. QED
    BY <1>6, <1>7, <2>1 DEF Crash
<1>8. ASSUME NEW c \in Children, Stopped(c) PROVE TypeOK'
  BY <1>6, <1>8 DEF Stopped, TypeOK, ClientTypeOK
<1>9. ASSUME NEW c \in Children, NEW i \in DOMAIN wire[c], CodexWelcomes(c, i)
      PROVE  TypeOK'
  <2>1. ProcTypeOK'
    BY <1>9, MessageTypes, SendMessageType
    DEF CodexWelcomes, TypeOK, ProcTypeOK, procVars
  <2>2. pc' \in [Calls -> Places]
    BY <1>9, <1>c DEF CodexWelcomes, Shake, Places
  <2>3. initializing' \in 0..(nextId' - 1) /\ initialized' \in BOOLEAN
    <3>1. initialized' \in BOOLEAN
      BY <1>9, Zenon DEF CodexWelcomes, Shake, TypeOK, ClientTypeOK
    <3>2. initializing' \in {0, initializing}
      BY <1>9 DEF CodexWelcomes, Shake
    <3>3. nextId' = nextId
      BY <1>9 DEF CodexWelcomes
    <3>4. QED
      BY <3>1, <3>2, <3>3 DEF TypeOK, ClientTypeOK
  <2>4. ClientTypeOK'
    BY <1>b, <1>9, <2>2, <2>3 DEF CodexWelcomes, TypeOK, ClientTypeOK
  <2>5. QED
    BY <2>1, <2>4 DEF TypeOK
<1>10. ASSUME NEW c \in Children, NEW i \in DOMAIN wire[c], CodexRejectsInitialize(c, i)
       PROVE  TypeOK'
  <2>1. pc' \in [Calls -> Places]
    BY <1>10, <1>c, MoveType DEF CodexRejectsInitialize, FailWaiters, Places
  <2>2. initializing' \in 0..(nextId' - 1)
    BY <1>10 DEF CodexRejectsInitialize, TypeOK, ClientTypeOK
  <2>3. QED
    BY <1>b, <1>10, <2>1, <2>2
    DEF CodexRejectsInitialize, TypeOK, ClientTypeOK, ProcTypeOK, procVars
<1>11. ASSUME NEW c \in Children, NEW i \in DOMAIN wire[c], CodexServes(c, i)
       PROVE  TypeOK'
  BY <1>b, <1>11 DEF CodexServes, Places, TypeOK, ClientTypeOK, ProcTypeOK, procVars
<1>12. ASSUME NEW c \in Children, NEW i \in DOMAIN wire[c], CodexRefuses(c, i)
       PROVE  TypeOK'
  <2>1. pc' \in [Calls -> Places]
    BY <1>12, <1>c DEF CodexRefuses, Places
  <2>2. attempt' \in [Calls -> 0..(MaxRetries - 1)]
    BY <1>12, ClientAssumption DEF CodexRefuses, RetriesLeft, TypeOK, ClientTypeOK
  <2>3. QED
    BY <1>b, <1>12, <2>1, <2>2
    DEF CodexRefuses, TypeOK, ClientTypeOK, ProcTypeOK, procVars
<1>13. CASE InitializeTimeout
  <2>1. pc' \in [Calls -> Places]
    BY <1>13, <1>c, MoveType DEF InitializeTimeout, FailWaiters, Places
  <2>2. QED
    BY <1>13, <2>1 DEF InitializeTimeout, TypeOK, ClientTypeOK, ProcTypeOK, procVars
<1>14. CASE Stop
  BY <1>14 DEF Stop, ProcStop, clientVars, TypeOK, ClientTypeOK, ProcTypeOK
<1>15. CASE UNCHANGED vars
  BY <1>15 DEF vars, clientVars, procVars, TypeOK, ClientTypeOK, ProcTypeOK
<1>16. QED
  BY <1>1, <1>2, <1>3, <1>4, <1>5, <1>7, <1>8, <1>9, <1>10, <1>11, <1>12, <1>13,
     <1>14, <1>15
  DEF Next

LEMMA InitType ==
  ASSUME Init
  PROVE  TypeOK
<1>1. ProcTypeOK
  BY DEF Init, ProcInit, ProcTypeOK
<1>2. ClientTypeOK
  <2>1. initialized \in BOOLEAN
    BY Zenon DEF Init
  <2>2. pc \in [Calls -> Places]
    BY DEF Init, Places
  <2>3. attempt \in [Calls -> 0..(MaxRetries - 1)] /\ callId \in [Calls -> 0..(nextId - 1)]
    BY ClientAssumption DEF Init
  <2>4. QED
    BY <2>1, <2>2, <2>3, ClientAssumption DEF Init, ClientTypeOK
<1>3. QED
  BY <1>1, <1>2 DEF TypeOK

(* The fields keep their types in every reachable state.                    *)
THEOREM TypeCorrect == Spec => []TypeOK
<1>1. Init => TypeOK
  BY InitType
<1>2. QED
  BY <1>1, TypeStep, PTL DEF Spec

-----------------------------------------------------------------------------
(* One process at a time.                                                   *)

(* sendMessage spawns only where there is no process.                       *)
LEMMA SendMessageOneProcess ==
  ASSUME TypeOK, OneProcess, NEW m, SendMessage(m), phase' = phase
  PROVE  OneProcess'
<1>1. CASE WriteNow(m)
  BY <1>1 DEF WriteNow, OneProcess
<1>2. CASE SpawnFor(m)
  <2>1. Len(wire) + 1 # 0
    BY DEF TypeOK, ProcTypeOK
  <2>2. phase = "up" => alive = {}
    BY <1>2 DEF SpawnFor, OneProcess
  <2>3. QED
    BY <1>2, <2>1, <2>2, Zenon DEF SpawnFor, OneProcess
<1>3. QED
  BY <1>1, <1>2 DEF SendMessage

(* Every step keeps it at one process.                                      *)
LEMMA OneProcessStep == TypeOK /\ OneProcess /\ [Next]_vars => OneProcess'
<1> SUFFICES ASSUME TypeOK, OneProcess, [Next]_vars PROVE OneProcess'
  OBVIOUS
<1>1. ASSUME NEW k \in Calls, EnsureInitialized(k), phase' = phase PROVE OneProcess'
  BY <1>1, SendMessageOneProcess DEF EnsureInitialized, OneProcess, procVars
<1>2. ASSUME NEW k \in Calls, Begin(k) \/ Retry(k) PROVE OneProcess'
  BY <1>1, <1>2 DEF Begin, Retry
<1>3. ASSUME NEW k \in Calls, SendRequest(k) PROVE OneProcess'
  BY <1>3, SendMessageOneProcess DEF SendRequest
<1>4. ASSUME NEW k \in Calls, RequestTimeout(k) PROVE OneProcess'
  BY <1>4 DEF RequestTimeout, procVars, OneProcess
<1>5. ASSUME NEW c \in Children, StartTimer(c) PROVE OneProcess'
  BY <1>5 DEF StartTimer, StartElapsed, OneProcess
<1>6. ASSUME NEW c \in Children, Crash(c) PROVE OneProcess'
  BY <1>6 DEF Crash, ExitHandlers, ProcExit, OneProcess
<1>7. ASSUME NEW c \in Children, Stopped(c) PROVE OneProcess'
  BY <1>7 DEF Stopped, ExitHandlers, ProcExit, OneProcess
<1>8. ASSUME NEW c \in Children, NEW i \in DOMAIN wire[c], CodexWelcomes(c, i)
      PROVE  OneProcess'
  BY <1>8, SendMessageOneProcess DEF CodexWelcomes, OneProcess, procVars
<1>9. ASSUME NEW c \in Children, NEW i \in DOMAIN wire[c],
             CodexRejectsInitialize(c, i) \/ CodexServes(c, i) \/ CodexRefuses(c, i)
      PROVE  OneProcess'
  BY <1>9 DEF CodexRejectsInitialize, CodexServes, CodexRefuses, OneProcess, procVars
<1>10. CASE InitializeTimeout
  BY <1>10 DEF InitializeTimeout, OneProcess, procVars
<1>11. CASE Stop
  BY <1>11 DEF Stop, ProcStop, OneProcess
<1>12. CASE UNCHANGED vars
  BY <1>12 DEF vars, procVars, OneProcess
<1>13. QED
  BY <1>2, <1>3, <1>4, <1>5, <1>6, <1>7, <1>8, <1>9, <1>10, <1>11, <1>12 DEF Next

(* Until shutdown there is one codex process at most, the current child.    *)
THEOREM OneProcessAlways == Spec => []OneProcess
<1>1. Init => OneProcess
  BY DEF Init, ProcInit, OneProcess
<1>2. QED
  BY <1>1, OneProcessStep, TypeCorrect, PTL DEF Spec

-----------------------------------------------------------------------------
(* The handshake precedes every request.                                    *)

(* What a step may do to the wires: nothing, open one, or append to one.    *)
Written(m) ==
  /\ child # 0
  /\ wire' = [wire EXCEPT ![child] = Append(@, m)]

WireStep(S) == wire' = wire \/ wire' = Append(wire, <<>>) \/ \E m \in S : Written(m)

(* Wires only grow.                                                         *)
LEMMA WiresGrow ==
  ASSUME TypeOK, WireStep(Messages), NEW c \in Children
  PROVE  /\ c \in Children'
         /\ Len(wire'[c]) \in {Len(wire[c]), Len(wire[c]) + 1}
         /\ \A j \in 1..Len(wire[c]) : wire'[c][j] = wire[c][j]
<1>1. wire \in Seq(Seq(Messages)) /\ wire[c] \in Seq(Messages) /\ c \in 1..Len(wire)
  BY DEF TypeOK, ProcTypeOK, Children
<1>2. CASE wire' = wire
  BY <1>1, <1>2 DEF Children
<1>3. CASE wire' = Append(wire, <<>>)
  BY <1>1, <1>3 DEF Children
<1>4. ASSUME NEW m \in Messages, Written(m)
      PROVE  /\ c \in Children'
             /\ Len(wire'[c]) \in {Len(wire[c]), Len(wire[c]) + 1}
             /\ \A j \in 1..Len(wire[c]) : wire'[c][j] = wire[c][j]
  <2>1. c \in Children' /\ wire'[c] \in {wire[c], Append(wire[c], m)}
    BY <1>1, <1>4 DEF Written, Children
  <2>2. Len(Append(wire[c], m)) = Len(wire[c]) + 1
    BY <1>1
  <2>3. \A j \in 1..Len(wire[c]) : Append(wire[c], m)[j] = wire[c][j]
    BY <1>1
  <2>4. QED
    BY <2>1, <2>2, <2>3
<1>5. QED
  BY <1>2, <1>3, <1>4 DEF WireStep

(* So a connection once greeted stays greeted.                              *)
LEMMA GreetedKept ==
  ASSUME TypeOK, WireStep(Messages), welcomed \subseteq welcomed',
         NEW c \in Children, NEW i \in 1..(Len(wire[c]) + 1), Greeted(c, i)
  PROVE  Greeted(c, i)'
<1>1. Len(wire[c]) \in Nat
  BY DEF TypeOK, ProcTypeOK, Children
<1>2. PICK h \in 1..(i - 1), a \in 1..(i - 1) :
        /\ h < a
        /\ wire[c][h].kind = "initialize" /\ wire[c][h].id \in welcomed
        /\ wire[c][a].kind = "initialized"
  BY DEF Greeted, Accepted
<1>3. h \in 1..Len(wire[c]) /\ a \in 1..Len(wire[c])
  BY <1>1
<1>4. wire'[c][h] = wire[c][h] /\ wire'[c][a] = wire[c][a]
  BY <1>3, WiresGrow
<1>5. QED
  BY <1>2, <1>4 DEF Greeted, Accepted

(* HandshakeFirst survives a step that appends a request only where the     *)
(* connection is greeted.                                                   *)
LEMMA HandshakeFirstKept ==
  ASSUME TypeOK, HandshakeFirst, welcomed \subseteq welcomed',
         phase' = "up" => phase = "up",
         WireStep({m \in Messages : phase = "up" /\ m.kind = "request" =>
                                      Greeted(child, Len(wire[child]) + 1)})
  PROVE  HandshakeFirst'
<1> SUFFICES ASSUME phase' = "up", NEW c \in Children', NEW i \in DOMAIN wire'[c],
                    wire'[c][i].kind = "request"
             PROVE  Greeted(c, i)'
  BY DEF HandshakeFirst
<1>1. /\ wire \in Seq(Seq(Messages)) /\ Len(wire) \in Nat
      /\ \A d \in 1..Len(wire) : wire[d] \in Seq(Messages)
  BY DEF TypeOK, ProcTypeOK
<1>2. WireStep(Messages) /\ phase = "up"
  BY DEF WireStep
<1>3. ASSUME c \in Children, i \in DOMAIN wire[c]
      PROVE  Greeted(c, i)'
  <2>1. i \in 1..Len(wire[c]) /\ Len(wire[c]) \in Nat
    BY <1>1, <1>3 DEF Children
  <2>2. wire'[c][i] = wire[c][i]
    BY <1>2, <1>3, <2>1, WiresGrow
  <2>3. Greeted(c, i)
    BY <1>2, <1>3, <2>2 DEF HandshakeFirst
  <2>4. i \in 1..(Len(wire[c]) + 1)
    BY <2>1
  <2>5. QED
    BY <1>2, <1>3, <2>3, <2>4, GreetedKept
<1>4. CASE wire' = wire
  BY <1>3, <1>4 DEF Children
<1>5. CASE wire' = Append(wire, <<>>)
  <2>1. c \in Children
    BY <1>1, <1>5 DEF Children
  <2>2. wire'[c] = wire[c]
    BY <1>1, <1>5, <2>1 DEF Children
  <2>3. QED
    BY <1>3, <2>1, <2>2
<1>6. ASSUME NEW m \in Messages, Written(m),
             m.kind = "request" => Greeted(child, Len(wire[child]) + 1)
      PROVE  Greeted(c, i)'
  <2>1. c \in 1..Len(wire) /\ child \in 1..Len(wire)
    BY <1>1, <1>6 DEF Written, Children, TypeOK, ProcTypeOK
  <2>2. CASE c # child
    <3>1. wire'[c] = wire[c]
      BY <1>1, <1>6, <2>1, <2>2 DEF Written
    <3>2. QED
      BY <1>1, <1>3, <2>1, <3>1 DEF Children
  <2>3. CASE c = child
    <3>1. wire'[c] = Append(wire[c], m) /\ wire[c] \in Seq(Messages)
      BY <1>1, <1>6, <2>1, <2>3 DEF Written
    <3>2. i \in 1..(Len(wire[c]) + 1) /\ Len(wire[c]) \in Nat
      BY <3>1
    <3>3. CASE i <= Len(wire[c])
      BY <1>1, <1>3, <2>1, <3>1, <3>2, <3>3 DEF Children
    <3>4. CASE i = Len(wire[c]) + 1
      <4>1. wire'[c][i] = m
        BY <3>1, <3>4
      <4>2. Greeted(c, i)
        BY <1>6, <2>3, <3>4, <4>1
      <4>3. QED
        BY <1>2, <2>1, <3>2, <4>2, GreetedKept DEF Children
    <3>5. QED
      BY <3>2, <3>3, <3>4
  <2>4. QED
    BY <2>2, <2>3
<1>7. QED
  BY <1>2, <1>4, <1>5, <1>6 DEF WireStep

(* sendMessage as a step on the wires.                                      *)
LEMMA SendMessageWires ==
  ASSUME NEW S, NEW m, SendMessage(m), child # 0 => m \in S
  PROVE  WireStep(S)
BY DEF SendMessage, WriteNow, SpawnFor, WireStep, Written

(* Where the step does not touch the handshake, its invariant survives.     *)
LEMMA HandshakeKept ==
  ASSUME TypeOK, HandshakeInv, welcomed \subseteq welcomed',
         phase' = "up" => phase = "up",
         initialized' => initialized,
         child # 0 => child' = child,
         WireStep({m \in Messages : phase = "up" /\ m.kind = "request" =>
                                      Greeted(child, Len(wire[child]) + 1)}),
         phase' = "up" => \A c \in Children' :
                            held'[c] # NoMessage => held'[c].kind = "initialize",
         \A k \in Calls : pc'[k] = "resumed" => initialized'
  PROVE  HandshakeInv'
<1>1. HandshakeFirst'
  BY HandshakeFirstKept DEF HandshakeInv
<1>2. ASSUME phase' = "up", initialized'
      PROVE  child' # 0 /\ Greeted(child, Len(wire[child]) + 1)' /\ child' = child
  <2>1. child # 0 /\ child \in Children /\ Greeted(child, Len(wire[child]) + 1)
    BY <1>2 DEF HandshakeInv, TypeOK, ProcTypeOK, Children
  <2>2. WireStep(Messages)
    BY DEF WireStep
  <2>3. child' = child /\ Len(wire[child]) \in Nat
    BY <2>1 DEF TypeOK, ProcTypeOK, Children
  <2>4. /\ Len(wire'[child]) \in {Len(wire[child]), Len(wire[child]) + 1}
        /\ \A j \in 1..Len(wire[child]) : wire'[child][j] = wire[child][j]
    BY <2>1, <2>2, WiresGrow
  <2>5. QED
    BY <2>1, <2>3, <2>4 DEF Greeted, Accepted
<1>3. QED
  BY <1>1, <1>2 DEF HandshakeInv

(* ensureInitialized sends nothing but an initialize.                       *)
LEMMA EnsureInitializedHandshake ==
  ASSUME TypeOK, HandshakeInv, NEW k \in Calls, EnsureInitialized(k),
         UNCHANGED <<initialized, welcomed, phase>>,
         \A j \in Calls : pc[j] # "resumed"
  PROVE  HandshakeInv'
<1> DEFINE S == {m \in Messages : phase = "up" /\ m.kind = "request" =>
                                   Greeted(child, Len(wire[child]) + 1)}
<1>1. pc \in [Calls -> Places]
  BY DEF TypeOK, ClientTypeOK
<1>2. \A j \in Calls : pc'[j] = "resumed" => initialized'
  BY <1>1 DEF EnsureInitialized
<1>3. CASE UNCHANGED procVars
  <2>1. WireStep(S)
    BY <1>3 DEF procVars, WireStep
  <2>2. \A c \in Children' : phase' = "up" /\ held'[c] # NoMessage => held'[c].kind = "initialize"
    BY <1>3 DEF procVars, HandshakeInv, Children
  <2>3. QED
    BY <1>2, <1>3, <2>1, <2>2, HandshakeKept DEF procVars
<1>4. CASE SendMessage(Initialize(nextId))
  <2>1. Initialize(nextId) \in S
    BY MessageTypes DEF Initialize, TypeOK, ClientTypeOK
  <2>2. WireStep(S)
    BY <1>4, <2>1, SendMessageWires
  <2>3. child # 0 => child' = child
    BY <1>4 DEF SendMessage, WriteNow, SpawnFor
  <2>4. ASSUME phase' = "up", NEW c \in Children', held'[c] # NoMessage
        PROVE  held'[c].kind = "initialize"
    <3>1. CASE WriteNow(Initialize(nextId))
      BY <2>4, <3>1 DEF WriteNow, HandshakeInv, Children, TypeOK, ProcTypeOK
    <3>2. CASE SpawnFor(Initialize(nextId))
      <4>1. c \in 1..(Len(held) + 1)
        BY <3>2 DEF SpawnFor, Children, TypeOK, ProcTypeOK
      <4>2. CASE c \in 1..Len(held)
        BY <2>4, <3>2, <4>2 DEF SpawnFor, HandshakeInv, Children, TypeOK, ProcTypeOK
      <4>3. CASE c = Len(held) + 1
        BY <3>2, <4>3 DEF SpawnFor, Initialize, TypeOK, ProcTypeOK
      <4>4. Len(held) \in Nat
        BY DEF TypeOK, ProcTypeOK
      <4>5. QED
        BY <4>1, <4>2, <4>3, <4>4
    <3>3. QED
      BY <1>4, <3>1, <3>2 DEF SendMessage
  <2>5. QED
    BY <1>2, <2>2, <2>3, <2>4, HandshakeKept
<1>5. QED
  BY <1>3, <1>4 DEF EnsureInitialized

(* An exit forgets the handshake along with the child.                      *)
LEMMA ExitHandshake ==
  ASSUME TypeOK, HandshakeInv, NEW c \in Children, ExitHandlers(c),
         phase' = "up" => phase = "up", \A j \in Calls : pc[j] # "resumed"
  PROVE  HandshakeInv'
<1>1. HandshakeFirst'
  BY HandshakeFirstKept DEF ExitHandlers, ProcExit, codexVars, HandshakeInv, WireStep
<1>2. ~initialized'
  BY Zenon DEF ExitHandlers
<1>3. \A j \in Calls : pc'[j] # "resumed"
  BY DEF ExitHandlers, FailWaiters
<1>4. \A d \in Children' : phase' = "up" /\ held'[d] # NoMessage => held'[d].kind = "initialize"
  BY DEF ExitHandlers, ProcExit, HandshakeInv, Children
<1>5. QED
  BY <1>1, <1>2, <1>3, <1>4 DEF HandshakeInv

(* Every step keeps the invariant of the handshake; OneProcess is what says *)
(* that the codex answering an initialize is the one being written to.      *)
LEMMA HandshakeStep ==
  TypeOK /\ OneProcess /\ HandshakeInv /\ [Next]_vars => HandshakeInv'
<1> SUFFICES ASSUME TypeOK, OneProcess, HandshakeInv, [Next]_vars
             PROVE  HandshakeInv'
  OBVIOUS
<1> DEFINE S == {m \in Messages : phase = "up" /\ m.kind = "request" =>
                                   Greeted(child, Len(wire[child]) + 1)}
<1>a. pc \in [Calls -> Places] /\ nextId \in Nat
  BY DEF TypeOK, ClientTypeOK
<1>b. ASSUME wire' = wire, held' = held, child' = child, phase' = phase,
             initialized' = initialized, welcomed \subseteq welcomed',
             \A j \in Calls : pc'[j] # "resumed"
      PROVE  HandshakeInv'
  <2>1. WireStep(S)
    BY <1>b DEF WireStep
  <2>2. \A c \in Children' : phase' = "up" /\ held'[c] # NoMessage => held'[c].kind = "initialize"
    BY <1>b DEF HandshakeInv, Children
  <2>3. QED
    BY <1>b, <2>1, <2>2, HandshakeKept
<1>1. ASSUME NEW k \in Calls, Begin(k) \/ Retry(k) PROVE HandshakeInv'
  BY <1>1, EnsureInitializedHandshake DEF Begin, Retry, Turn, codexVars
<1>2. ASSUME NEW k \in Calls, SendRequest(k) PROVE HandshakeInv'
  <2>1. initialized /\ phase' = phase /\ initialized' = initialized /\ welcomed' = welcomed
    BY <1>2 DEF SendRequest, HandshakeInv, codexVars
  <2>2. Request(nextId, k) \in Messages
    BY <1>a, MessageTypes
  <2>3. phase = "up" => child # 0 /\ Greeted(child, Len(wire[child]) + 1)
    BY <2>1 DEF HandshakeInv
  <2>4. SendMessage(Request(nextId, k))
    BY <1>2 DEF SendRequest
  <2>5. WireStep(S)
    BY <2>2, <2>3, <2>4, SendMessageWires
  <2>6. child # 0 => child' = child
    BY <2>4 DEF SendMessage, WriteNow, SpawnFor
  <2>7. phase' = "up" => \A c \in Children' : held'[c] # NoMessage => held'[c].kind = "initialize"
    <3>1. phase = "up" => held' = held /\ Children' = Children
      BY <2>3, <2>4 DEF SendMessage, WriteNow, SpawnFor, Children, TypeOK, ProcTypeOK
    <3>2. QED
      BY <2>1, <3>1 DEF HandshakeInv
  <2>8. \A j \in Calls : pc'[j] = "resumed" => initialized'
    BY <2>1
  <2>9. QED
    BY <2>1, <2>5, <2>6, <2>7, <2>8, HandshakeKept
<1>3. ASSUME NEW k \in Calls, RequestTimeout(k) PROVE HandshakeInv'
  BY <1>a, <1>b, <1>3 DEF RequestTimeout, Turn, procVars, codexVars
<1>4. ASSUME NEW c \in Children, StartTimer(c) PROVE HandshakeInv'
  <2>1. held[c] \in Messages /\ (phase = "up" => held[c].kind = "initialize")
    BY <1>4 DEF StartTimer, StartElapsed, HandshakeInv, Children, TypeOK, ProcTypeOK
  <2>2. WireStep(S)
    <3>1. held[c] \in S
      BY <2>1
    <3>2. QED
      BY <1>4, <3>1 DEF StartTimer, StartElapsed, WireStep, Written
  <2>3. phase' = "up" => \A d \in Children' : held'[d] # NoMessage => held'[d].kind = "initialize"
    <3>1. Children' = Children
      BY <1>4, StartElapsedType DEF StartTimer, StartElapsed, Children, TypeOK, ProcTypeOK
    <3>2. \A d \in Children : held'[d] \in {NoMessage, held[d]}
      BY <1>4 DEF StartTimer, StartElapsed, Children, TypeOK, ProcTypeOK
    <3>3. QED
      BY <1>4, <3>1, <3>2 DEF StartTimer, HandshakeInv
  <2>4. CASE held[c] = Initialized
    <3>1. phase # "up" /\ phase' = phase /\ initialized'
      BY <1>4, <2>1, <2>4 DEF StartTimer, Shake, Initialized
    <3>2. QED
      BY <3>1 DEF HandshakeInv, HandshakeFirst
  <2>5. CASE held[c] # Initialized
    BY <1>4, <2>2, <2>3, <2>5, HandshakeKept
    DEF StartTimer, StartElapsed, codexVars, HandshakeInv
  <2>6. QED
    BY <2>4, <2>5
<1>5. ASSUME NEW c \in Children, Crash(c) \/ Stopped(c) PROVE HandshakeInv'
  BY <1>5, ExitHandshake DEF Crash, Stopped, Turn
<1>6. ASSUME NEW c \in Children, NEW i \in DOMAIN wire[c], CodexWelcomes(c, i)
      PROVE  HandshakeInv'
  <2>1. CASE wire[c][i].id \notin pending
    BY <1>b, <1>6, <2>1 DEF CodexWelcomes, Turn, procVars
  <2>2. CASE wire[c][i].id \in pending
    <3>1. SendMessage(Initialized) /\ phase' = phase
      BY <1>6, <2>2 DEF CodexWelcomes
    <3>2. Initialized \in S
      BY MessageTypes DEF Initialized
    <3>3. HandshakeFirst'
      BY <1>6, <3>1, <3>2, SendMessageWires, HandshakeFirstKept DEF CodexWelcomes, HandshakeInv
    <3>4. ASSUME phase = "up"
          PROVE  c = child /\ child # 0 /\ WriteNow(Initialized)
      BY <1>6, <3>1, <3>4
      DEF CodexWelcomes, Unanswered, OneProcess, SendMessage, SpawnFor, TypeOK, ProcTypeOK
    <3>5. ASSUME phase' = "up"
          PROVE  child' # 0 /\ Greeted(child, Len(wire[child]) + 1)'
      <4>1. /\ c = child /\ child' = child /\ child # 0
            /\ wire[c] \in Seq(Messages) /\ i \in 1..Len(wire[c])
            /\ wire'[c] = Append(wire[c], Initialized)
        BY <3>1, <3>4, <3>5 DEF WriteNow, TypeOK, ProcTypeOK, Children
      <4>2. /\ wire'[c][i] = wire[c][i] /\ wire'[c][Len(wire[c]) + 1] = Initialized
            /\ Len(wire'[c]) = Len(wire[c]) + 1
        BY <4>1
      <4>3. wire[c][i].kind = "initialize" /\ wire[c][i].id \in welcomed'
        BY <1>6 DEF CodexWelcomes
      <4>4. /\ i \in 1..(Len(wire'[c]) + 1 - 1) /\ Len(wire[c]) + 1 \in 1..(Len(wire'[c]) + 1 - 1)
            /\ i < Len(wire[c]) + 1
        BY <4>1, <4>2
      <4>5. QED
        BY <4>1, <4>2, <4>3, <4>4 DEF Greeted, Accepted, Initialized
    <3>6. phase' = "up" => \A d \in Children' : held'[d] # NoMessage => held'[d].kind = "initialize"
      BY <3>1, <3>4 DEF WriteNow, HandshakeInv, Children, TypeOK, ProcTypeOK
    <3>7. \A k \in Calls : pc'[k] = "resumed" => initialized'
      BY <1>6, <2>2 DEF CodexWelcomes, Shake, Turn
    <3>8. QED
      BY <3>1, <3>3, <3>5, <3>6, <3>7 DEF HandshakeInv
  <2>3. QED
    BY <2>1, <2>2
<1>7. ASSUME NEW c \in Children, NEW i \in DOMAIN wire[c], CodexRejectsInitialize(c, i)
      PROVE  HandshakeInv'
  BY <1>b, <1>7 DEF CodexRejectsInitialize, FailWaiters, Turn, procVars
<1>8. ASSUME NEW c \in Children, NEW i \in DOMAIN wire[c], CodexServes(c, i)
      PROVE  HandshakeInv'
  BY <1>a, <1>b, <1>8 DEF CodexServes, Turn, procVars
<1>9. ASSUME NEW c \in Children, NEW i \in DOMAIN wire[c], CodexRefuses(c, i)
      PROVE  HandshakeInv'
  BY <1>a, <1>b, <1>9 DEF CodexRefuses, Turn, procVars
<1>10. CASE InitializeTimeout
  BY <1>b, <1>10 DEF InitializeTimeout, FailWaiters, Turn, procVars, codexVars
<1>11. CASE Stop
  BY <1>11 DEF Stop, Turn, clientVars, HandshakeInv, HandshakeFirst
<1>12. CASE UNCHANGED vars
  BY <1>12 DEF vars, procVars, clientVars, codexVars, HandshakeInv, HandshakeFirst, Greeted, Accepted, Children
<1>13. QED
  BY <1>1, <1>2, <1>3, <1>4, <1>5, <1>6, <1>7, <1>8, <1>9, <1>10, <1>11, <1>12 DEF Next

(* Until shutdown no request reaches a codex that has not answered an       *)
(* initialize and been told "initialized".                                  *)
THEOREM HandshakeComesFirst == Spec => []HandshakeFirst
<1>1. Init => HandshakeInv
  BY DEF Init, ProcInit, HandshakeInv, HandshakeFirst, Children
<1>2. HandshakeInv => HandshakeFirst
  BY DEF HandshakeInv
<1>3. QED
  BY <1>1, <1>2, HandshakeStep, TypeCorrect, OneProcessAlways, PTL DEF Spec

-----------------------------------------------------------------------------
(* The calls.  Four invariants carry what is proved of them: an id is       *)
(* handed out once (IdsInv), an entry of pending and its caller belong      *)
(* together (PendingInv), a call in flight has its request where codex can  *)
(* read it (ReachInv), and codex has only carried out the last attempt of   *)
(* calls that are over (ServedInv).                                         *)

(* A message that was sent: it waits for a start timer, or is on a wire.    *)
Underway(m) ==
  \/ \E c \in Children : held[c] # NoMessage /\ held[c] = m
  \/ \E c \in Children : \E i \in DOMAIN wire[c] : wire[c][i] = m

Held(m) == \E c \in Children : held[c] = m

(* An id is handed out once: to one attempt of one call, or to an           *)
(* initialize, and to what was sent for it.                                 *)
IdsInv ==
  /\ \A j, k \in Calls : callId[j] = callId[k] /\ callId[k] # 0 => j = k
  /\ \A k \in Calls : callId[k] # 0 => callId[k] # initializing
  /\ answered \subseteq 0..(nextId - 1)
  /\ \A m \in Messages : Underway(m) =>
       /\ m.id < nextId
       /\ \A k \in Calls : callId[k] # 0 /\ callId[k] = m.id => m = Request(m.id, k)

(* "initialized" waits for a child only while rpc.close() does, with its    *)
(* initialize answered and no other one under way.                          *)
WelcomeWaits ==
  phase # "down" /\ Held(Initialized) =>
    initializing \notin pending /\ (initializing = 0 => initialized)

(* The entries of pending and those who wait for them.                      *)
PendingInv ==
  /\ NoLeakedEntry
  /\ \A k \in Calls : pc[k] = "flight" => callId[k] \in pending \ answered
  /\ WelcomeWaits

(* The request of k is with a live child, or waits for a timer that will    *)
(* find one.                                                                *)
Reached(k) ==
  \/ child # 0 /\ Held(Request(callId[k], k))
  \/ \E c \in alive : \E i \in DOMAIN wire[c] : wire[c][i] = Request(callId[k], k)

ReachInv ==
  /\ child # 0 => child \in alive
  /\ phase # "down" => \A k \in Calls : pc[k] = "flight" => Reached(k)

(* Only the latest attempt of a call is unanswered, and what codex carried  *)
(* out is the latest attempt of a call that is over.                        *)
ServedInv ==
  /\ \A m \in Messages : Underway(m) /\ m.kind = "request" =>
       /\ m.id > 0 /\ m.owner \in Calls
       /\ m.id = callId[m.owner] \/ m.id \in answered
  /\ \A k \in Calls : pc[k] = "idle" => callId[k] = 0
  /\ \A k \in Calls : pc[k] \in {"ensure", "resumed", "backoff"} =>
       callId[k] \in answered \cup {0}
  /\ \A k \in Calls : pc[k] = "ok" => callId[k] \in answered
  /\ \A m \in served :
       /\ m.owner \in Calls
       /\ m = Request(callId[m.owner], m.owner)
       /\ m.id \in answered
       /\ pc[m.owner] \in {"ok", "failed"}

-----------------------------------------------------------------------------
(* sendMessage puts the one message under way, and nothing else.            *)
LEMMA SendMessageUnderway ==
  ASSUME TypeOK, NEW n \in Messages, SendMessage(n), NEW m, Underway(m)'
  PROVE  Underway(m) \/ m = n
<1>a. /\ wire \in Seq(Seq(Messages)) /\ Len(wire) \in Nat /\ Len(held) = Len(wire)
      /\ held \in Seq(Messages \cup {NoMessage})
      /\ \A c \in 1..Len(wire) : wire[c] \in Seq(Messages)
  BY DEF TypeOK, ProcTypeOK
<1>1. CASE WriteNow(n)
  <2>1. child \in 1..Len(wire) /\ held' = held /\ wire' = [wire EXCEPT ![child] = Append(@, n)]
    BY <1>1 DEF WriteNow, TypeOK, ProcTypeOK
  <2>2. Children' = Children /\ Children = 1..Len(wire)
    BY <1>a, <2>1 DEF Children
  <2>3. ASSUME NEW c \in Children, NEW i \in DOMAIN wire'[c], wire'[c][i] = m
        PROVE  Underway(m) \/ m = n
    <3>1. CASE c # child
      BY <2>1, <2>3, <3>1, <1>a, <2>2 DEF Underway
    <3>2. CASE c = child
      <4>1. wire'[c] = Append(wire[c], n) /\ wire[c] \in Seq(Messages)
        BY <1>a, <2>1, <3>2
      <4>2. i \in 1..(Len(wire[c]) + 1) /\ Len(wire[c]) \in Nat
        BY <4>1
      <4>3. CASE i = Len(wire[c]) + 1
        BY <2>3, <4>1, <4>3
      <4>4. CASE i \in DOMAIN wire[c]
        BY <2>3, <4>1, <4>4 DEF Underway
      <4>5. QED
        BY <4>1, <4>2, <4>3, <4>4
    <3>3. QED
      BY <3>1, <3>2
  <2>4. QED
    BY <2>1, <2>2, <2>3 DEF Underway
<1>2. CASE SpawnFor(n)
  <2>1. wire' = Append(wire, <<>>) /\ held' = Append(held, n)
    BY <1>2 DEF SpawnFor
  <2>2. Children' = 1..(Len(wire) + 1) /\ Children = 1..Len(wire)
    BY <1>a, <2>1 DEF Children
  <2>3. \A c \in Children : wire'[c] = wire[c] /\ held'[c] = held[c]
    BY <1>a, <2>1, <2>2
  <2>4. wire'[Len(wire) + 1] = <<>> /\ held'[Len(wire) + 1] = n
    BY <1>a, <2>1
  <2>5. ASSUME NEW c \in Children', held'[c] = m, held'[c] # NoMessage
        PROVE  Underway(m) \/ m = n
    BY <1>a, <2>2, <2>3, <2>4, <2>5 DEF Underway
  <2>6. ASSUME NEW c \in Children', NEW i \in DOMAIN wire'[c], wire'[c][i] = m
        PROVE  Underway(m)
    BY <1>a, <2>2, <2>3, <2>4, <2>6 DEF Underway
  <2>7. QED
    BY <2>5, <2>6 DEF Underway
<1>3. QED
  BY <1>1, <1>2 DEF SendMessage

(* A start timer writes what was under way already.                         *)
LEMMA StartElapsedUnderway ==
  ASSUME TypeOK, NEW d \in Children, StartElapsed(d), NEW m, Underway(m)'
  PROVE  Underway(m)
<1>a. /\ wire \in Seq(Seq(Messages)) /\ Len(wire) \in Nat /\ Len(held) = Len(wire)
      /\ held \in Seq(Messages \cup {NoMessage}) /\ Children = 1..Len(wire)
      /\ \A c \in 1..Len(wire) : wire[c] \in Seq(Messages)
  BY DEF TypeOK, ProcTypeOK, Children
<1>1. /\ held[d] # NoMessage /\ held[d] \in Messages
      /\ held' = [held EXCEPT ![d] = NoMessage]
      /\ wire' = IF child = 0 THEN wire ELSE [wire EXCEPT ![child] = Append(@, held[d])]
      /\ Children' = Children
  BY <1>a DEF StartElapsed, Children
<1>2. \A c \in Children : held'[c] \in {NoMessage, held[c]}
  BY <1>a, <1>1
<1>3. ASSUME NEW c \in Children, NEW i \in DOMAIN wire'[c], wire'[c][i] = m
      PROVE  Underway(m)
  <2>1. CASE wire'[c] = wire[c]
    BY <1>3, <2>1 DEF Underway
  <2>2. CASE wire'[c] = Append(wire[c], held[d])
    <3>1. i \in 1..(Len(wire[c]) + 1) /\ Len(wire[c]) \in Nat /\ wire[c] \in Seq(Messages)
      BY <1>a, <1>1, <2>2
    <3>2. CASE i = Len(wire[c]) + 1
      BY <1>1, <1>3, <2>2, <3>1, <3>2 DEF Underway
    <3>3. CASE i \in DOMAIN wire[c]
      BY <1>3, <2>2, <3>1, <3>3 DEF Underway
    <3>4. QED
      BY <3>1, <3>2, <3>3
  <2>3. QED
    BY <1>a, <1>1, <2>1, <2>2, SMTT(30)
<1>4. QED
  BY <1>1, <1>2, <1>3 DEF Underway

(* What lies on a wire is under way.                                        *)
LEMMA WireUnderway ==
  ASSUME TypeOK, NEW c \in Children, NEW i \in DOMAIN wire[c]
  PROVE  wire[c][i] \in Messages /\ wire[c][i].id \in Nat /\ Underway(wire[c][i])
<1>1. wire[c] \in Seq(Messages)
  BY DEF TypeOK, ProcTypeOK, Children
<1>2. wire[c][i] \in Messages
  BY <1>1
<1>3. QED
  BY <1>2 DEF Messages, Underway

-----------------------------------------------------------------------------
(* Ids are handed out once.                                                 *)

(* A step that gives no call an id, and sends nothing that has one's.       *)
LEMMA IdsKept ==
  ASSUME TypeOK, IdsInv, UNCHANGED callId, nextId' \in {nextId, nextId + 1},
         initializing' \in {0, initializing, nextId},
         answered' \subseteq 0..(nextId' - 1),
         \A m \in Messages : Underway(m)' =>
           Underway(m) \/ m.id = 0 \/ (m.id = nextId /\ nextId' = nextId + 1)
  PROVE  IdsInv'
<1>1. nextId \in Nat \ {0} /\ callId \in [Calls -> 0..(nextId - 1)]
  BY DEF TypeOK, ClientTypeOK
<1>2. \A k \in Calls : callId[k] \in Nat /\ callId[k] # nextId
  BY <1>1
<1>3. \A k \in Calls : callId[k] # 0 => callId[k] # initializing'
  BY <1>2 DEF IdsInv
<1>4. ASSUME NEW m \in Messages, Underway(m)'
      PROVE  /\ m.id < nextId'
             /\ \A k \in Calls : callId[k] # 0 /\ callId[k] = m.id => m = Request(m.id, k)
  <2>0. m.id \in Nat
    BY DEF Messages
  <2>1. CASE Underway(m)
    BY <1>1, <2>0, <2>1 DEF IdsInv
  <2>2. CASE m.id = 0 \/ (m.id = nextId /\ nextId' = nextId + 1)
    BY <1>1, <1>2, <2>2
  <2>3. QED
    BY <1>4, <2>1, <2>2
<1>5. \A m \in Messages : Underway(m)' =>
        /\ m.id < nextId'
        /\ \A k \in Calls : callId'[k] # 0 /\ callId'[k] = m.id => m = Request(m.id, k)
  BY <1>4
<1>6. QED
  BY <1>3, <1>5 DEF IdsInv, Request

(* Every step keeps the ids apart.                                          *)
LEMMA IdsStep == TypeOK /\ IdsInv /\ [Next]_vars => IdsInv'
<1> SUFFICES ASSUME TypeOK, IdsInv, [Next]_vars PROVE IdsInv'
  OBVIOUS
<1>a. /\ nextId \in Nat \ {0} /\ callId \in [Calls -> 0..(nextId - 1)]
      /\ answered \subseteq 0..(nextId - 1) /\ answered \subseteq 0..(nextId + 1 - 1)
  BY DEF TypeOK, ClientTypeOK, IdsInv
<1>b. ASSUME UNCHANGED <<wire, held>>
      PROVE  \A m \in Messages : Underway(m)' => Underway(m)
  BY <1>b DEF Underway, Children
<1>c. Initialized \in Messages /\ Initialized.id = 0 /\ Initialize(nextId) \in Messages
      /\ Initialize(nextId).id = nextId
  BY <1>a, MessageTypes DEF Initialized, Initialize
<1>d. ASSUME UNCHANGED <<wire, held, callId, nextId, answered>>, initializing' \in {0, initializing}
      PROVE  IdsInv'
  <2>1. answered' \subseteq 0..(nextId' - 1) /\ nextId' \in {nextId, nextId + 1}
    BY <1>a, <1>d
  <2>2. \A m \in Messages : Underway(m)' =>
          Underway(m) \/ m.id = 0 \/ (m.id = nextId /\ nextId' = nextId + 1)
    BY <1>b, <1>d
  <2>3. QED
    BY <1>d, <2>1, <2>2, IdsKept
<1>1. ASSUME NEW k \in Calls, Begin(k) \/ Retry(k) PROVE IdsInv'
  <2>1. EnsureInitialized(k) /\ UNCHANGED <<callId, answered>>
    BY <1>1 DEF Begin, Retry, codexVars
  <2>2. CASE UNCHANGED <<procVars, nextId, pending, initializing>>
    BY <1>d, <2>1, <2>2 DEF procVars
  <2>3. CASE nextId' = nextId + 1 /\ initializing' = nextId /\ SendMessage(Initialize(nextId))
    <3>1. \A m \in Messages : Underway(m)' => Underway(m) \/ m = Initialize(nextId)
      BY <1>c, <2>3, SendMessageUnderway
    <3>2. answered' \subseteq 0..(nextId' - 1) /\ nextId' \in {nextId, nextId + 1}
      BY <1>a, <2>1, <2>3
    <3>3. \A m \in Messages : Underway(m)' =>
            Underway(m) \/ m.id = 0 \/ (m.id = nextId /\ nextId' = nextId + 1)
      BY <1>c, <2>3, <3>1
    <3>4. QED
      BY <2>1, <2>3, <3>2, <3>3, IdsKept
  <2>4. QED
    BY <2>1, <2>2, <2>3 DEF EnsureInitialized
<1>2. ASSUME NEW k \in Calls, SendRequest(k) PROVE IdsInv'
  <2>1. /\ callId' = [callId EXCEPT ![k] = nextId] /\ nextId' = nextId + 1
        /\ UNCHANGED <<initializing, answered>> /\ SendMessage(Request(nextId, k))
    BY <1>2 DEF SendRequest, codexVars
  <2>2. /\ \A j \in Calls : callId'[j] = IF j = k THEN nextId ELSE callId[j]
        /\ \A j \in Calls : callId[j] \in Nat /\ callId[j] # nextId
    BY <1>a, <2>1
  <2>3. initializing # nextId
    BY DEF TypeOK, ClientTypeOK
  <2>4. ASSUME NEW m \in Messages, Underway(m)'
        PROVE  /\ m.id < nextId'
               /\ \A j \in Calls : callId'[j] # 0 /\ callId'[j] = m.id => m = Request(m.id, j)
    <3>1. m.id \in Nat /\ Request(nextId, k) \in Messages
      BY <1>a, MessageTypes DEF Messages
    <3>2. CASE Underway(m)
      BY <1>a, <2>1, <2>2, <3>1, <3>2 DEF IdsInv
    <3>3. CASE m = Request(nextId, k)
      BY <1>a, <2>1, <2>2, <3>3 DEF Request
    <3>4. QED
      BY <2>1, <2>4, <3>1, <3>2, <3>3, SendMessageUnderway
  <2>5. QED
    BY <1>a, <2>1, <2>2, <2>3, <2>4 DEF IdsInv, Request
<1>3. ASSUME NEW k \in Calls, RequestTimeout(k) PROVE IdsInv'
  BY <1>d, <1>3 DEF RequestTimeout, procVars, codexVars
<1>4. ASSUME NEW c \in Children, StartTimer(c) PROVE IdsInv'
  <2>1. \A m \in Messages : Underway(m)' =>
          Underway(m) \/ m.id = 0 \/ (m.id = nextId /\ nextId' = nextId + 1)
    BY <1>4, StartElapsedUnderway DEF StartTimer
  <2>2. initializing' \in {0, initializing}
    BY <1>4 DEF StartTimer, Shake
  <2>3. UNCHANGED <<callId, nextId, answered>>
    BY <1>4 DEF StartTimer, codexVars
  <2>4. answered' \subseteq 0..(nextId' - 1) /\ nextId' \in {nextId, nextId + 1}
    BY <1>a, <2>3
  <2>5. QED
    BY <2>1, <2>2, <2>3, <2>4, IdsKept
<1>5. ASSUME NEW c \in Children, Crash(c) \/ Stopped(c) PROVE IdsInv'
  BY <1>d, <1>5 DEF Crash, Stopped, ExitHandlers, ProcExit, codexVars
<1>6. ASSUME NEW c \in Children, NEW i \in DOMAIN wire[c],
             UNCHANGED <<callId, nextId>>, initializing' \in {0, initializing},
             answered' = answered \cup {wire[c][i].id},
             \A m \in Messages : Underway(m)' => Underway(m) \/ m = Initialized
      PROVE  IdsInv'
  <2>1. wire[c][i].id \in 0..(nextId - 1)
    BY <1>a, WireUnderway DEF IdsInv
  <2>2. answered' \subseteq 0..(nextId' - 1) /\ nextId' \in {nextId, nextId + 1}
    BY <1>a, <1>6, <2>1
  <2>3. \A m \in Messages : Underway(m)' =>
          Underway(m) \/ m.id = 0 \/ (m.id = nextId /\ nextId' = nextId + 1)
    BY <1>c, <1>6
  <2>4. QED
    BY <1>6, <2>2, <2>3, IdsKept
<1>7. ASSUME NEW c \in Children, NEW i \in DOMAIN wire[c], CodexWelcomes(c, i)
      PROVE  IdsInv'
  <2>1. \A m \in Messages : Underway(m)' => Underway(m) \/ m = Initialized
    BY <1>b, <1>c, <1>7, SendMessageUnderway DEF CodexWelcomes, procVars
  <2>2. initializing' \in {0, initializing}
    BY <1>7 DEF CodexWelcomes, Shake
  <2>3. UNCHANGED <<callId, nextId>> /\ answered' = answered \cup {wire[c][i].id}
    BY <1>7 DEF CodexWelcomes
  <2>4. QED
    BY <1>6, <2>1, <2>2, <2>3
<1>8. ASSUME NEW c \in Children, NEW i \in DOMAIN wire[c],
             CodexRejectsInitialize(c, i) \/ CodexServes(c, i) \/ CodexRefuses(c, i)
      PROVE  IdsInv'
  <2>1. /\ UNCHANGED <<wire, held, callId, nextId>> /\ initializing' \in {0, initializing}
        /\ answered' = answered \cup {wire[c][i].id}
    BY <1>8 DEF CodexRejectsInitialize, CodexServes, CodexRefuses, procVars
  <2>2. \A m \in Messages : Underway(m)' => Underway(m)
    BY <1>b, <2>1
  <2>3. QED
    BY <1>6, <2>1, <2>2
<1>9. CASE InitializeTimeout
  BY <1>d, <1>9 DEF InitializeTimeout, procVars, codexVars
<1>10. CASE Stop
  BY <1>d, <1>10 DEF Stop, ProcStop, clientVars, codexVars
<1>11. CASE UNCHANGED vars
  BY <1>d, <1>11 DEF vars, procVars, clientVars, codexVars
<1>12. QED
  BY <1>1, <1>2, <1>3, <1>4, <1>5, <1>7, <1>8, <1>9, <1>10, <1>11 DEF Next

-----------------------------------------------------------------------------
(* What is in pending is waited for.                                        *)

(* sendMessage lets its message wait only where there is no child.          *)
LEMMA SendMessageHeld ==
  ASSUME TypeOK, NEW n \in Messages, SendMessage(n), NEW m, Held(m)'
  PROVE  Held(m) \/ (m = n /\ child = 0)
<1>a. Len(wire) \in Nat /\ Len(held) = Len(wire) /\ held \in Seq(Messages \cup {NoMessage})
      /\ wire \in Seq(Seq(Messages))
  BY DEF TypeOK, ProcTypeOK
<1>1. CASE WriteNow(n)
  BY <1>1, <1>a DEF WriteNow, Held, Children
<1>2. CASE SpawnFor(n)
  <2>1. Children' = 1..(Len(wire) + 1) /\ Children = 1..Len(wire)
    BY <1>2, <1>a DEF SpawnFor, Children
  <2>2. (\A c \in Children : held'[c] = held[c]) /\ held'[Len(wire) + 1] = n /\ child = 0
    BY <1>2, <1>a, <2>1 DEF SpawnFor
  <2>3. QED
    BY <1>a, <2>1, <2>2 DEF Held
<1>3. QED
  BY <1>1, <1>2 DEF SendMessage

(* A start timer only lets go of a message.                                 *)
LEMMA StartElapsedHeld ==
  ASSUME TypeOK, NEW d \in Children, StartElapsed(d), NEW m \in Messages, Held(m)'
  PROVE  Held(m)
<1>1. Children' = Children
  BY StartElapsedType DEF TypeOK, ProcTypeOK, Children
<1>2. \A c \in Children : held'[c] \in {NoMessage, held[c]}
  BY DEF StartElapsed, TypeOK, ProcTypeOK, Children
<1>3. QED
  BY <1>1, <1>2, NoMessageAssumption DEF Held

(* PendingInv after a step, put together from its parts.                    *)
LEMMA PendingParts ==
  ASSUME TypeOK', IdsInv',
         \A id \in pending' :
           id = initializing' \/ \E k \in Calls : pc'[k] = "flight" /\ callId'[k] = id,
         \A k \in Calls : pc'[k] = "flight" => callId'[k] \in pending' /\ callId'[k] \notin answered',
         WelcomeWaits'
  PROVE  PendingInv'
<1>0. \A id \in pending' : id \in 1..(nextId' - 1)
  BY DEF TypeOK, ClientTypeOK
<1>1. \A k \in Calls : pc'[k] = "flight" => callId'[k] # 0
  BY <1>0
<1>2. NoLeakedEntry'
  BY <1>1 DEF NoLeakedEntry, IdsInv
<1>3. \A k \in Calls : pc'[k] = "flight" => callId'[k] \in pending' \ answered'
  OBVIOUS
<1>4. QED
  BY <1>2, <1>3 DEF PendingInv

(* The entry id is taken out of pending, and whoever waited for it is       *)
(* told.                                                                    *)
LEMMA EntryRemoved ==
  ASSUME TypeOK, IdsInv, PendingInv, TypeOK', IdsInv', NEW id,
         callId' = callId, pending' = pending \ {id}, answered' \subseteq answered \cup {id},
         \A k \in Calls : pc'[k] = "flight" <=> pc[k] = "flight" /\ callId[k] # id,
         initializing' = initializing \/ (initializing' = 0 /\ (initializing = id \/ initializing \notin pending)),
         WelcomeWaits'
  PROVE  PendingInv'
<1>1. ASSUME NEW x \in pending'
      PROVE  x = initializing' \/ \E k \in Calls : pc'[k] = "flight" /\ callId'[k] = x
  <2>1. x \in pending /\ x # id
    OBVIOUS
  <2>2. x = initializing \/ \E k \in Calls : pc[k] = "flight" /\ callId[k] = x
    BY <2>1 DEF PendingInv, NoLeakedEntry
  <2>3. QED
    BY <2>1, <2>2
<1>2. \A k \in Calls : pc'[k] = "flight" => callId'[k] \in pending' /\ callId'[k] \notin answered'
  BY DEF PendingInv
<1>3. QED
  BY <1>1, <1>2, PendingParts


(* Every step keeps pending and those in flight together.                   *)
LEMMA PendingStep == TypeOK /\ IdsInv /\ PendingInv /\ [Next]_vars => PendingInv'
<1> SUFFICES ASSUME TypeOK, IdsInv, PendingInv, [Next]_vars PROVE PendingInv'
  OBVIOUS
<1>a. TypeOK' /\ IdsInv'
  BY TypeStep, IdsStep
<1>b. /\ nextId \in Nat \ {0} /\ callId \in [Calls -> 0..(nextId - 1)]
      /\ pending \subseteq 1..(nextId - 1) /\ answered \subseteq 0..(nextId - 1)
      /\ pc \in [Calls -> Places]
  BY DEF TypeOK, ClientTypeOK, IdsInv
<1>c. /\ \A id \in pending : id = initializing \/ \E k \in Calls : pc[k] = "flight" /\ callId[k] = id
      /\ \A k \in Calls : pc[k] = "flight" => callId[k] \in pending /\ callId[k] \notin answered
      /\ WelcomeWaits
  BY DEF PendingInv, NoLeakedEntry
<1>d. Initialized \in Messages /\ Initialized # Initialize(nextId)
      /\ \A k \in Calls : Initialized # Request(nextId, k)
  BY MessageTypes DEF Initialized, Initialize, Request
<1>e. ASSUME UNCHANGED <<wire, held, initialized, phase>>, pending' \subseteq pending,
             initializing' = initializing \/ initializing \in pending
      PROVE  WelcomeWaits'
  <2>1. Held(Initialized)' => Held(Initialized)
    BY <1>e DEF Held, Children
  <2>2. QED
    BY <1>c, <1>e, <2>1 DEF WelcomeWaits
<1>1. ASSUME NEW k \in Calls, Begin(k) \/ Retry(k) PROVE PendingInv'
  <2>1. /\ EnsureInitialized(k) /\ UNCHANGED <<initialized, callId, answered, phase>>
        /\ pc[k] \in {"idle", "backoff"} /\ phase # "down"
    BY <1>1 DEF Begin, Retry, codexVars, Turn
  <2>2. \A j \in Calls : pc'[j] = "flight" <=> pc[j] = "flight"
    BY <1>b, <2>1 DEF EnsureInitialized
  <2>3. CASE UNCHANGED <<procVars, nextId, pending, initializing>>
    <3>1. WelcomeWaits'
      BY <1>e, <2>1, <2>3 DEF procVars
    <3>2. QED
      BY <1>a, <1>c, <2>1, <2>2, <2>3, <3>1, PendingParts
  <2>4. CASE /\ ~initialized /\ initializing = 0 /\ pending' = pending \cup {nextId}
             /\ initializing' = nextId /\ SendMessage(Initialize(nextId))
    <3>1. Initialize(nextId) \in Messages
      BY <1>b, MessageTypes
    <3>2. Held(Initialized)' => Held(Initialized)
      BY <1>d, <2>4, <3>1, SendMessageHeld
    <3>3. WelcomeWaits'
      BY <1>c, <2>1, <2>4, <3>2 DEF WelcomeWaits
    <3>4. \A x \in pending' : x = initializing' \/ \E j \in Calls : pc'[j] = "flight" /\ callId'[j] = x
      BY <1>b, <1>c, <2>1, <2>2, <2>4
    <3>5. \A j \in Calls : pc'[j] = "flight" => callId'[j] \in pending' /\ callId'[j] \notin answered'
      BY <1>c, <2>1, <2>2, <2>4
    <3>6. QED
      BY <1>a, <3>3, <3>4, <3>5, PendingParts
  <2>5. QED
    BY <2>1, <2>3, <2>4 DEF EnsureInitialized
<1>2. ASSUME NEW k \in Calls, SendRequest(k) PROVE PendingInv'
  <2>1. /\ callId' = [callId EXCEPT ![k] = nextId] /\ pending' = pending \cup {nextId}
        /\ pc' = [pc EXCEPT ![k] = "flight"] /\ pc[k] = "resumed"
        /\ UNCHANGED <<initializing, initialized, answered, phase>>
        /\ SendMessage(Request(nextId, k)) /\ Request(nextId, k) \in Messages
    BY <1>2, <1>b, MessageTypes DEF SendRequest, codexVars
  <2>2. Held(Initialized)' => Held(Initialized)
    BY <1>d, <2>1, SendMessageHeld
  <2>3. initializing # nextId /\ nextId \notin answered
    BY <1>b DEF TypeOK, ClientTypeOK
  <2>4. WelcomeWaits'
    BY <1>c, <2>1, <2>2, <2>3 DEF WelcomeWaits
  <2>5. \A j \in Calls : /\ callId'[j] = IF j = k THEN nextId ELSE callId[j]
                         /\ pc'[j] = IF j = k THEN "flight" ELSE pc[j]
    BY <1>b, <2>1
  <2>6. \A x \in pending' : x = initializing' \/ \E j \in Calls : pc'[j] = "flight" /\ callId'[j] = x
    BY <1>c, <2>1, <2>5
  <2>7. \A j \in Calls : pc'[j] = "flight" => callId'[j] \in pending' /\ callId'[j] \notin answered'
    BY <1>c, <2>1, <2>3, <2>5
  <2>8. QED
    BY <1>a, <2>4, <2>6, <2>7, PendingParts
<1>3. ASSUME NEW k \in Calls, RequestTimeout(k) PROVE PendingInv'
  <2>1. /\ pending' = pending \ {callId[k]} /\ pc' = [pc EXCEPT ![k] = "failed"] /\ pc[k] = "flight"
        /\ callId[k] \in pending
        /\ UNCHANGED <<wire, held, initializing, initialized, callId, answered, phase>>
    BY <1>3 DEF RequestTimeout, procVars, codexVars
  <2>2. \A j \in Calls : pc'[j] = "flight" <=> pc[j] = "flight" /\ callId[j] # callId[k]
    BY <1>b, <2>1 DEF IdsInv
  <2>3. WelcomeWaits'
    BY <1>e, <2>1
  <2>4. QED
    BY <1>a, <2>1, <2>2, <2>3, EntryRemoved
<1>4. ASSUME NEW c \in Children, StartTimer(c) PROVE PendingInv'
  <2>1. /\ UNCHANGED <<pending, callId, answered, phase>> /\ StartElapsed(c)
        /\ phase # "down"
    BY <1>4 DEF StartTimer, codexVars, Turn
  <2>2. Held(Initialized)' => Held(Initialized)
    BY <1>d, <2>1, StartElapsedHeld
  <2>3. pending' = pending \ {0} /\ \A k \in Calls : pc[k] = "flight" => callId[k] # 0
    BY <1>b, <1>c, <2>1
  <2>4. CASE held[c] = Initialized
    <3>1. Held(Initialized)
      BY <2>4 DEF Held
    <3>2. initializing \notin pending
      BY <1>c, <2>1, <3>1 DEF WelcomeWaits
    <3>3. initialized' /\ initializing' = 0 /\ \A k \in Calls : pc'[k] = "flight" <=> pc[k] = "flight"
      BY <1>4, <1>b, <2>4 DEF StartTimer, Shake
    <3>4. 0 \notin pending'
      BY <2>3
    <3>5. WelcomeWaits'
      BY <3>3, <3>4 DEF WelcomeWaits
    <3>6. QED
      BY <1>a, <2>1, <2>3, <3>2, <3>3, <3>5, EntryRemoved
  <2>5. CASE held[c] # Initialized
    <3>1. UNCHANGED <<initialized, initializing, pc>>
      BY <1>4, <2>5 DEF StartTimer
    <3>2. WelcomeWaits'
      BY <1>c, <2>1, <2>2, <3>1 DEF WelcomeWaits
    <3>3. QED
      BY <1>a, <2>1, <2>3, <3>1, <3>2, EntryRemoved
  <2>6. QED
    BY <2>4, <2>5
<1>5. ASSUME NEW c \in Children, Crash(c) \/ Stopped(c) PROVE PendingInv'
  <2>1. ExitHandlers(c) /\ pending' = {} /\ \A k \in Calls : pc'[k] # "flight"
    BY <1>5 DEF Crash, Stopped, ExitHandlers, FailWaiters
  <2>2. phase' = "down" \/ ~Held(Initialized)'
    BY <1>5 DEF Crash, Stopped, ExitHandlers, ProcExit, Held, Children
  <2>3. WelcomeWaits'
    BY <2>2 DEF WelcomeWaits
  <2>4. QED
    BY <1>a, <2>1, <2>3, PendingParts
<1>6. ASSUME NEW c \in Children, NEW i \in DOMAIN wire[c], wire[c][i].kind = "initialize",
             wire[c][i].id \in pending
      PROVE  wire[c][i].id = initializing /\ \A k \in Calls : pc[k] = "flight" => callId[k] # wire[c][i].id
  <2>1. ASSUME NEW k \in Calls, pc[k] = "flight", callId[k] = wire[c][i].id PROVE FALSE
    <3>1. wire[c][i] = Request(wire[c][i].id, k)
      BY <1>b, <1>c, <2>1, WireUnderway DEF IdsInv
    <3>2. QED
      BY <1>6, <3>1 DEF Request
  <2>2. QED
    BY <1>6, <1>c, <2>1
<1>7. ASSUME NEW c \in Children, NEW i \in DOMAIN wire[c], CodexWelcomes(c, i)
      PROVE  PendingInv'
  <2>1. /\ wire[c][i].kind = "initialize" /\ UNCHANGED <<callId, phase>> /\ phase # "down"
        /\ answered' = answered \cup {wire[c][i].id} /\ pending' = pending \ {wire[c][i].id}
    BY <1>7 DEF CodexWelcomes, Turn
  <2>2. CASE wire[c][i].id \notin pending
    <3>1. UNCHANGED <<wire, held, initialized, initializing, pc>>
      BY <1>7, <2>2 DEF CodexWelcomes, procVars
    <3>2. WelcomeWaits'
      BY <1>e, <2>1, <3>1
    <3>3. \A k \in Calls : pc'[k] = "flight" <=> pc[k] = "flight" /\ callId[k] # wire[c][i].id
      BY <1>c, <2>2, <3>1
    <3>4. QED
      BY <1>a, <2>1, <3>1, <3>2, <3>3, EntryRemoved
  <2>3. CASE wire[c][i].id \in pending
    <3>1. /\ wire[c][i].id = initializing /\ initializing # 0
          /\ \A k \in Calls : pc[k] = "flight" => callId[k] # wire[c][i].id
      BY <1>6, <1>b, <2>1, <2>3
    <3>2. SendMessage(Initialized) /\ ~Held(Initialized)
      BY <1>7, <1>c, <2>1, <2>3, <3>1 DEF CodexWelcomes, WelcomeWaits
    <3>3. Held(Initialized)' => child = 0
      BY <1>d, <3>2, SendMessageHeld
    <3>4. \A k \in Calls : pc'[k] = "flight" <=> pc[k] = "flight"
      BY <1>7, <1>b DEF CodexWelcomes, Shake
    <3>5. \/ child # 0 /\ initializing' = 0
          \/ child = 0 /\ initializing' = initializing
      BY <1>7, <2>3 DEF CodexWelcomes, Shake
    <3>6. WelcomeWaits'
      BY <2>1, <3>1, <3>3, <3>5 DEF WelcomeWaits
    <3>7. QED
      BY <1>a, <2>1, <3>1, <3>4, <3>5, <3>6, EntryRemoved
  <2>4. QED
    BY <2>2, <2>3
<1>8. ASSUME NEW c \in Children, NEW i \in DOMAIN wire[c], CodexRejectsInitialize(c, i)
      PROVE  PendingInv'
  <2>1. /\ wire[c][i].kind = "initialize" /\ UNCHANGED <<wire, held, callId, initialized, phase>>
        /\ answered' = answered \cup {wire[c][i].id} /\ pending' = pending \ {wire[c][i].id}
    BY <1>8 DEF CodexRejectsInitialize, procVars
  <2>2. /\ wire[c][i].id \in pending => initializing' = 0
        /\ wire[c][i].id \notin pending => initializing' = initializing
        /\ \A k \in Calls : pc'[k] = "flight" <=> pc[k] = "flight"
    BY <1>8, <1>b DEF CodexRejectsInitialize, FailWaiters
  <2>3. /\ wire[c][i].id \in pending => wire[c][i].id = initializing
        /\ \A k \in Calls : pc'[k] = "flight" <=> pc[k] = "flight" /\ callId[k] # wire[c][i].id
    BY <1>6, <1>c, <2>1, <2>2
  <2>4. WelcomeWaits'
    BY <1>e, <2>1, <2>2, <2>3
  <2>5. QED
    BY <1>a, <2>1, <2>2, <2>3, <2>4, EntryRemoved
<1>9. ASSUME NEW c \in Children, NEW i \in DOMAIN wire[c], CodexServes(c, i) \/ CodexRefuses(c, i)
      PROVE  PendingInv'
  <2>1. /\ UNCHANGED <<wire, held, callId, initialized, initializing, phase>>
        /\ answered' = answered \cup {wire[c][i].id} /\ pending' = pending \ {wire[c][i].id}
    BY <1>9 DEF CodexServes, CodexRefuses, procVars
  <2>2. \A j \in Calls : pc'[j] = "flight" <=> pc[j] = "flight" /\ callId[j] # wire[c][i].id
    <3>1. CASE wire[c][i].id \notin pending
      <4>1. pc' = pc
        BY <1>9, <3>1 DEF CodexServes, CodexRefuses
      <4>2. QED
        BY <1>c, <3>1, <4>1
    <3>2. CASE wire[c][i].id \in pending
      <4>1. PICK k \in Calls : callId[k] = wire[c][i].id /\ \E to \in {"ok", "failed", "backoff"} :
                                 pc' = [pc EXCEPT ![k] = to]
        BY <1>9, <3>2 DEF CodexServes, CodexRefuses
      <4>2. \A j \in Calls : j # k => callId[j] # wire[c][i].id
        BY <1>b, <3>2, <4>1 DEF IdsInv
      <4>3. QED
        BY <1>b, <4>1, <4>2
    <3>3. QED
      BY <3>1, <3>2
  <2>3. WelcomeWaits'
    BY <1>e, <2>1
  <2>4. QED
    BY <1>a, <2>1, <2>2, <2>3, EntryRemoved
<1>10. CASE InitializeTimeout
  <2>1. /\ initializing \in pending /\ pending' = pending \ {initializing} /\ initializing' = 0
        /\ UNCHANGED <<wire, held, callId, answered, initialized, phase>>
        /\ \A k \in Calls : pc'[k] = "flight" <=> pc[k] = "flight"
    BY <1>10, <1>b DEF InitializeTimeout, FailWaiters, procVars, codexVars
  <2>2. \A k \in Calls : pc[k] = "flight" => callId[k] # initializing
    BY <1>b, <1>c DEF IdsInv
  <2>3. WelcomeWaits'
    BY <1>e, <2>1
  <2>4. QED
    BY <1>a, <2>1, <2>2, <2>3, EntryRemoved
<1>11. ASSUME UNCHANGED <<pending, initializing, initialized, pc, callId, answered, held, wire>>,
              phase' # "down" => phase # "down"
       PROVE  PendingInv'
  <2>1. WelcomeWaits'
    BY <1>11, <1>c DEF WelcomeWaits, Held, Children
  <2>2. QED
    BY <1>a, <1>c, <1>11, <2>1, PendingParts
<1>12. CASE Stop
  BY <1>11, <1>12 DEF Stop, Turn, ProcStop, clientVars, codexVars
<1>13. CASE UNCHANGED vars
  BY <1>11, <1>13 DEF vars, procVars, clientVars, codexVars
<1>14. QED
  BY <1>1, <1>2, <1>3, <1>4, <1>5, <1>7, <1>8, <1>9, <1>10, <1>12, <1>13 DEF Next

-----------------------------------------------------------------------------
(* What is in flight can still be answered.                                 *)

(* What is on the wire of a live child stays there.                         *)
LEMMA WireKept ==
  ASSUME TypeOK, WireStep(Messages), NEW c \in alive, NEW i \in DOMAIN wire[c]
  PROVE  i \in DOMAIN wire'[c] /\ wire'[c][i] = wire[c][i]
<1>1. c \in Children /\ wire[c] \in Seq(Messages) /\ Len(wire[c]) \in Nat
  BY DEF TypeOK, ProcTypeOK, Children
<1>2. i \in 1..Len(wire[c])
  BY <1>1
<1>3. /\ Len(wire'[c]) \in {Len(wire[c]), Len(wire[c]) + 1} /\ wire'[c][i] = wire[c][i]
      /\ c \in Children'
  BY <1>1, <1>2, WiresGrow
<1>4. DOMAIN wire'[c] = 1..Len(wire'[c])
  <2>1. wire' \in Seq(Seq(Messages))
    <3>1. CASE wire' = wire \/ wire' = Append(wire, <<>>)
      <4>1. wire \in Seq(Seq(Messages)) /\ <<>> \in Seq(Messages)
        BY DEF TypeOK, ProcTypeOK
      <4>2. Append(wire, <<>>) \in Seq(Seq(Messages))
        BY <4>1
      <4>3. QED
        BY <3>1, <4>1, <4>2
    <3>2. ASSUME NEW m \in Messages, Written(m) PROVE wire' \in Seq(Seq(Messages))
      <4>1. child \in 1..Len(wire) /\ wire \in Seq(Seq(Messages)) /\ wire[child] \in Seq(Messages)
        BY <3>2 DEF Written, TypeOK, ProcTypeOK
      <4>2. Append(wire[child], m) \in Seq(Messages)
        BY <4>1
      <4>3. QED
        BY <3>2, <4>1, <4>2 DEF Written
    <3>3. QED
      BY <3>1, <3>2 DEF WireStep
  <2>2. wire'[c] \in Seq(Messages)
    BY <1>3, <2>1 DEF Children
  <2>3. QED
    BY <2>2
<1>5. QED
  BY <1>1, <1>2, <1>3, <1>4

(* sendMessage takes no request away.                                       *)
LEMMA SendMessageReached ==
  ASSUME TypeOK, NEW n \in Messages, SendMessage(n),
         NEW k \in Calls, callId'[k] = callId[k], Reached(k)
  PROVE  Reached(k)'
<1>1. WireStep(Messages) /\ alive \subseteq alive'
  BY SendMessageWires DEF SendMessage, WriteNow, SpawnFor
<1>2. ASSUME NEW c \in alive, NEW i \in DOMAIN wire[c], wire[c][i] = Request(callId[k], k)
      PROVE  Reached(k)'
  <2>1. c \in alive' /\ i \in DOMAIN wire'[c] /\ wire'[c][i] = Request(callId'[k], k)
    BY <1>1, <1>2, WireKept
  <2>2. QED
    BY <2>1 DEF Reached, Request
<1>3. CASE child # 0 /\ Held(Request(callId[k], k))
  <2>1. WriteNow(n)
    BY <1>3 DEF SendMessage, SpawnFor
  <2>2. child' # 0 /\ held' = held /\ Children' = Children
    BY <1>3, <2>1 DEF WriteNow, Children, TypeOK, ProcTypeOK
  <2>3. QED
    BY <1>3, <2>2 DEF Reached, Held, Request
<1>4. QED
  BY <1>2, <1>3 DEF Reached

(* The request it is given is with a live child, or waits for its own.      *)
LEMMA RequestReached ==
  ASSUME TypeOK, child # 0 => child \in alive,
         NEW k \in Calls, SendMessage(Request(nextId, k)), callId'[k] = nextId
  PROVE  Reached(k)'
<1>a. nextId \in Nat /\ Request(nextId, k) \in Messages
  BY MessageTypes DEF TypeOK, ClientTypeOK
<1>1. CASE WriteNow(Request(nextId, k))
  <2>1. /\ child \in alive /\ child \in 1..Len(wire) /\ wire[child] \in Seq(Messages)
        /\ wire \in Seq(Seq(Messages))
    BY <1>1 DEF WriteNow, TypeOK, ProcTypeOK
  <2>2. alive' = alive /\ wire'[child] = Append(wire[child], Request(nextId, k))
    BY <1>1, <2>1 DEF WriteNow
  <2>3. /\ Len(wire[child]) + 1 \in DOMAIN wire'[child]
        /\ wire'[child][Len(wire[child]) + 1] = Request(nextId, k)
    BY <1>a, <2>1, <2>2
  <2>4. Request(nextId, k) = Request(callId'[k], k)
    OBVIOUS
  <2>5. QED
    BY <2>1, <2>2, <2>3, <2>4 DEF Reached, Request
<1>2. CASE SpawnFor(Request(nextId, k))
  <2>1. /\ child' = Len(wire) + 1 /\ Len(wire) \in Nat /\ Len(held) = Len(wire)
        /\ held' = Append(held, Request(nextId, k)) /\ wire' = Append(wire, <<>>)
        /\ wire \in Seq(Seq(Messages)) /\ held \in Seq(Messages \cup {NoMessage})
    BY <1>2 DEF SpawnFor, TypeOK, ProcTypeOK
  <2>2. /\ Len(wire) + 1 \in Children' /\ child' # 0
        /\ held'[Len(wire) + 1] = Request(callId'[k], k)
    BY <1>a, <2>1 DEF Children
  <2>3. QED
    BY <2>2 DEF Reached, Held, Request
<1>3. QED
  BY <1>1, <1>2 DEF SendMessage

(* A start timer that finds a child sends what waited.                      *)
LEMMA StartElapsedReached ==
  ASSUME TypeOK, child # 0 => child \in alive, NEW d \in Children, StartElapsed(d),
         NEW k \in Calls, callId'[k] = callId[k], Reached(k)
  PROVE  Reached(k)'
<1>a. /\ held[d] \in Messages /\ held' = [held EXCEPT ![d] = NoMessage]
      /\ UNCHANGED <<child, alive>> /\ held \in Seq(Messages \cup {NoMessage})
      /\ Len(held) = Len(wire) /\ wire \in Seq(Seq(Messages)) /\ Children = 1..Len(held)
      /\ Children' = Children
  BY StartElapsedType DEF StartElapsed, TypeOK, ProcTypeOK, Children
<1>1. WireStep(Messages)
  BY <1>a DEF StartElapsed, WireStep, Written
<1>2. ASSUME NEW c \in alive, NEW i \in DOMAIN wire[c], wire[c][i] = Request(callId[k], k)
      PROVE  Reached(k)'
  <2>1. c \in alive' /\ i \in DOMAIN wire'[c] /\ wire'[c][i] = Request(callId'[k], k)
    BY <1>1, <1>2, <1>a, WireKept
  <2>2. QED
    BY <2>1 DEF Reached, Request
<1>3. ASSUME child # 0, NEW c \in Children, held[c] = Request(callId[k], k)
      PROVE  Reached(k)'
  <2>1. CASE c # d
    <3>1. held'[c] = Request(callId'[k], k) /\ child' # 0 /\ c \in Children'
      BY <1>3, <1>a, <2>1
    <3>2. QED
      BY <3>1 DEF Reached, Held, Request
  <2>2. CASE c = d
    <3>1. /\ child \in alive /\ child \in 1..Len(wire) /\ wire[child] \in Seq(Messages)
          /\ wire' = [wire EXCEPT ![child] = Append(@, held[d])]
      BY <1>3 DEF StartElapsed, TypeOK, ProcTypeOK
    <3>2. child \in alive' /\ wire'[child] = Append(wire[child], held[d])
      BY <1>a, <3>1
    <3>3. /\ Len(wire[child]) + 1 \in DOMAIN wire'[child]
          /\ wire'[child][Len(wire[child]) + 1] = Request(callId'[k], k)
      BY <1>3, <1>a, <2>2, <3>1, <3>2
    <3>4. QED
      BY <3>2, <3>3 DEF Reached, Request
  <2>3. QED
    BY <2>1, <2>2
<1>4. QED
  BY <1>2, <1>3 DEF Reached, Held

(* Every step leaves what is in flight within reach.                        *)
LEMMA ReachStep ==
  TypeOK /\ OneProcess /\ HandshakeInv /\ ReachInv /\ [Next]_vars => ReachInv'
<1> SUFFICES ASSUME TypeOK, OneProcess, HandshakeInv, ReachInv, [Next]_vars PROVE ReachInv'
  OBVIOUS
<1>a. /\ pc \in [Calls -> Places] /\ callId \in [Calls -> 0..(nextId - 1)] /\ nextId \in Nat
      /\ child # 0 => child \in alive
  BY DEF TypeOK, ClientTypeOK, ReachInv
<1>b. ASSUME UNCHANGED <<child, alive, wire, held, callId>>, phase' # "down" => phase # "down",
             \A k \in Calls : pc'[k] = "flight" => pc[k] = "flight"
      PROVE  ReachInv'
  <2>1. ASSUME NEW k \in Calls, Reached(k) PROVE Reached(k)'
    BY <1>b, <2>1 DEF Reached, Held, Children, Request
  <2>2. child' # 0 => child' \in alive'
    BY <1>a, <1>b
  <2>3. QED
    BY <1>b, <2>1, <2>2 DEF ReachInv
<1>c. ASSUME NEW n \in Messages, SendMessage(n)
      PROVE  child' # 0 => child' \in alive'
  BY <1>a, <1>c DEF SendMessage, WriteNow, SpawnFor
<1>d. ASSUME NEW n \in Messages, SendMessage(n), UNCHANGED <<callId, phase>>,
             \A k \in Calls : pc'[k] = "flight" => pc[k] = "flight"
      PROVE  ReachInv'
  BY <1>c, <1>d, SendMessageReached DEF ReachInv
<1>1. ASSUME NEW k \in Calls, Begin(k) \/ Retry(k) PROVE ReachInv'
  <2>1. EnsureInitialized(k) /\ UNCHANGED <<callId, phase>>
    BY <1>1 DEF Begin, Retry
  <2>2. \A j \in Calls : pc'[j] = "flight" => pc[j] = "flight"
    BY <1>a, <2>1 DEF EnsureInitialized
  <2>3. CASE UNCHANGED procVars
    BY <1>b, <2>1, <2>2, <2>3 DEF procVars
  <2>4. CASE SendMessage(Initialize(nextId))
    BY <1>a, <1>d, <2>1, <2>2, <2>4, MessageTypes
  <2>5. QED
    BY <2>1, <2>3, <2>4 DEF EnsureInitialized
<1>2. ASSUME NEW k \in Calls, SendRequest(k) PROVE ReachInv'
  <2>1. /\ callId' = [callId EXCEPT ![k] = nextId] /\ pc' = [pc EXCEPT ![k] = "flight"]
        /\ SendMessage(Request(nextId, k)) /\ Request(nextId, k) \in Messages
        /\ UNCHANGED phase
    BY <1>2, <1>a, MessageTypes DEF SendRequest
  <2>2. child' # 0 => child' \in alive'
    BY <1>c, <2>1
  <2>3. ASSUME NEW j \in Calls, phase' # "down", pc'[j] = "flight" PROVE Reached(j)'
    <3>1. CASE j = k
      <4>1. callId'[j] = nextId
        BY <1>a, <2>1, <3>1
      <4>2. QED
        BY <1>a, <2>1, <3>1, <4>1, RequestReached
    <3>2. CASE j # k
      <4>1. callId'[j] = callId[j] /\ pc[j] = "flight"
        BY <1>a, <2>1, <2>3, <3>2
      <4>2. Reached(j)
        BY <2>1, <2>3, <4>1 DEF ReachInv
      <4>3. QED
        BY <2>1, <4>1, <4>2, SendMessageReached
    <3>3. QED
      BY <3>1, <3>2
  <2>4. QED
    BY <2>2, <2>3 DEF ReachInv
<1>3. ASSUME NEW k \in Calls, RequestTimeout(k) PROVE ReachInv'
  BY <1>3, <1>a, <1>b DEF RequestTimeout, procVars
<1>4. ASSUME NEW c \in Children, StartTimer(c) PROVE ReachInv'
  <2>1. StartElapsed(c) /\ UNCHANGED <<child, alive, callId, phase>>
    BY <1>4 DEF StartTimer, StartElapsed
  <2>2. \A j \in Calls : pc'[j] = "flight" => pc[j] = "flight"
    BY <1>4, <1>a DEF StartTimer, Shake
  <2>3. \A j \in Calls : Reached(j) => Reached(j)'
    BY <1>a, <2>1, StartElapsedReached
  <2>4. QED
    BY <1>a, <2>1, <2>2, <2>3 DEF ReachInv
<1>5. ASSUME NEW c \in Children, Crash(c) \/ Stopped(c) PROVE ReachInv'
  BY <1>5 DEF Crash, Stopped, ExitHandlers, ProcExit, FailWaiters, ReachInv
<1>6. ASSUME NEW c \in Children, NEW i \in DOMAIN wire[c], CodexWelcomes(c, i)
      PROVE  ReachInv'
  <2>1. \A j \in Calls : pc'[j] = "flight" => pc[j] = "flight"
    BY <1>6, <1>a DEF CodexWelcomes, Shake
  <2>2. UNCHANGED <<callId, phase>> /\ (UNCHANGED procVars \/ SendMessage(Initialized))
    BY <1>6 DEF CodexWelcomes
  <2>3. QED
    BY <1>b, <1>d, <2>1, <2>2, MessageTypes DEF procVars
<1>7. ASSUME NEW c \in Children, NEW i \in DOMAIN wire[c],
             CodexRejectsInitialize(c, i) \/ CodexServes(c, i) \/ CodexRefuses(c, i)
      PROVE  ReachInv'
  <2>1. \A j \in Calls : pc'[j] = "flight" => pc[j] = "flight"
    BY <1>7, <1>a DEF CodexRejectsInitialize, CodexServes, CodexRefuses, FailWaiters
  <2>2. UNCHANGED <<child, alive, wire, held, callId, phase>>
    BY <1>7 DEF CodexRejectsInitialize, CodexServes, CodexRefuses, procVars
  <2>3. QED
    BY <1>b, <2>1, <2>2
<1>8. CASE InitializeTimeout
  BY <1>8, <1>a, <1>b DEF InitializeTimeout, FailWaiters, procVars
<1>9. CASE Stop
  <2>1. child' = 0 /\ UNCHANGED <<alive, wire, held, callId, pc>> /\ phase = "up"
    BY <1>9 DEF Stop, ProcStop, clientVars
  <2>2. ASSUME NEW k \in Calls, pc[k] = "flight" PROVE Reached(k)'
    <3>1. Reached(k)
      BY <2>1, <2>2 DEF ReachInv
    <3>2. ~Held(Request(callId[k], k))
      <4>1. Request(callId[k], k) \in Messages
        BY <1>a, MessageTypes
      <4>2. QED
        BY <2>1, <4>1, NoMessageAssumption DEF Held, Request, HandshakeInv
    <3>3. QED
      BY <2>1, <3>1, <3>2 DEF Reached, Request
  <2>3. QED
    BY <2>1, <2>2 DEF ReachInv
<1>10. CASE UNCHANGED vars
  BY <1>10, <1>b DEF vars, procVars, clientVars
<1>11. QED
  BY <1>1, <1>2, <1>3, <1>4, <1>5, <1>6, <1>7, <1>8, <1>9, <1>10 DEF Next

-----------------------------------------------------------------------------
(* Always: the three invariants above.                                      *)
LEMMA CallsAlways == Spec => [](IdsInv /\ PendingInv /\ ReachInv)
<1>1. Init => IdsInv /\ PendingInv /\ ReachInv
  <2> SUFFICES ASSUME Init PROVE IdsInv /\ PendingInv /\ ReachInv
    OBVIOUS
  <2>1. IdsInv
    BY DEF Init, ProcInit, IdsInv, Underway, Children
  <2>2. PendingInv
    BY DEF Init, ProcInit, PendingInv, NoLeakedEntry, WelcomeWaits, Held, Children
  <2>3. ReachInv
    BY DEF Init, ProcInit, ReachInv
  <2>4. QED
    BY <2>1, <2>2, <2>3
<1>2. Init => HandshakeInv
  BY DEF Init, ProcInit, HandshakeInv, HandshakeFirst, Children
<1>3. QED
  BY <1>1, <1>2, IdsStep, PendingStep, ReachStep, HandshakeStep, TypeCorrect, OneProcessAlways, PTL
  DEF Spec

(* A call in flight can be answered, and each entry of pending has its one  *)
(* caller.                                                                  *)
THEOREM NothingStranded == Spec => []NoStrandedCall
<1>1. TypeOK /\ PendingInv /\ ReachInv => NoStrandedCall
  <2> SUFFICES ASSUME TypeOK, PendingInv, ReachInv, phase # "down",
                      NEW k \in Calls, pc[k] = "flight"
               PROVE  /\ callId[k] \in pending \ answered
                      /\ \/ ~Sent(callId[k])
                         \/ \E c \in alive : \E i \in DOMAIN wire[c] :
                              wire[c][i] = Request(callId[k], k)
    BY DEF NoStrandedCall
  <2>1. callId[k] \in pending \ answered
    BY DEF PendingInv
  <2>2. ASSUME Held(Request(callId[k], k)) PROVE ~Sent(callId[k])
    <3>1. Request(callId[k], k) # NoMessage
      BY MessageTypes, NoMessageAssumption DEF TypeOK, ClientTypeOK
    <3>2. Request(callId[k], k).id = callId[k]
      BY DEF Request
    <3>3. QED
      BY <2>2, <3>1, <3>2 DEF Held, Sent
  <2>3. QED
    BY <2>1, <2>2 DEF ReachInv, Reached
<1>2. QED
  BY <1>1, TypeCorrect, CallsAlways, PTL

(* No entry of pending outlives its caller.                                 *)
THEOREM NothingLeaks == Spec => []NoLeakedEntry
<1>1. PendingInv => NoLeakedEntry
  BY DEF PendingInv
<1>2. QED
  BY <1>1, CallsAlways, PTL

-----------------------------------------------------------------------------
(* At most one execution.                                                   *)

(* Who has an entry in pending is in flight, and the only one with its id.  *)
LEMMA WaiterInFlight ==
  ASSUME TypeOK, IdsInv, PendingInv, NEW k \in Calls, callId[k] \in pending
  PROVE  /\ pc[k] = "flight" /\ callId[k] # 0
         /\ \A j \in Calls : callId[j] = callId[k] => j = k
<1>1. callId[k] # 0
  BY DEF TypeOK, ClientTypeOK
<1>2. \A j \in Calls : callId[j] = callId[k] => j = k
  BY <1>1 DEF IdsInv
<1>3. callId[k] # initializing
  BY <1>1 DEF IdsInv
<1>4. PICK j \in Calls : pc[j] = "flight" /\ callId[j] = callId[k]
  BY <1>3 DEF PendingInv, NoLeakedEntry
<1>5. QED
  BY <1>1, <1>2, <1>4

(* How a call moves but by being sent or carried out.                       *)
Moves(k) ==
  \/ pc'[k] = pc[k]
  \/ pc[k] \notin {"idle", "ok", "failed"} /\ pc'[k] = "failed"
  \/ Begin(k) /\ pc'[k] \in {"ensure", "resumed"}
  \/ pc[k] \in {"ensure", "backoff"} /\ pc'[k] \in {"ensure", "resumed"}
  \/ pc[k] = "flight" /\ pc'[k] = "backoff" /\ callId[k] \in answered'

(* They keep ServedInv.                                                     *)
LEMMA ServedKept ==
  ASSUME TypeOK, ServedInv, UNCHANGED <<callId, served>>, answered \subseteq answered',
         \A m \in Messages : Underway(m)' => Underway(m) \/ m.kind # "request",
         \A k \in Calls : Moves(k)
  PROVE  ServedInv'
<1>a. \A k \in Calls : Begin(k) => pc[k] = "idle"
  BY DEF Begin
<1>1. \A m \in Messages : Underway(m)' /\ m.kind = "request" =>
        /\ m.id > 0 /\ m.owner \in Calls
        /\ m.id = callId'[m.owner] \/ m.id \in answered'
  BY DEF ServedInv
<1>2. \A k \in Calls : pc'[k] = "idle" => callId'[k] = 0
  BY DEF ServedInv, Moves
<1>3. \A k \in Calls : pc'[k] \in {"ensure", "resumed", "backoff"} =>
        callId'[k] \in answered' \cup {0}
  BY <1>a DEF ServedInv, Moves
<1>6. \A k \in Calls : pc'[k] = "ok" => callId'[k] \in answered'
  BY DEF ServedInv, Moves
<1>4. \A m \in served' :
        /\ m.owner \in Calls
        /\ m = Request(callId'[m.owner], m.owner)
        /\ m.id \in answered'
        /\ pc'[m.owner] \in {"ok", "failed"}
  BY <1>a DEF ServedInv, Moves
<1>5. QED
  BY <1>1, <1>2, <1>3, <1>4, <1>6 DEF ServedInv, Request

(* The steps of which ServedKept speaks: all but these two.                 *)
LEMMA OtherSteps ==
  ASSUME TypeOK, IdsInv, PendingInv, [Next]_vars,
         \A k \in Calls : ~SendRequest(k),
         \A c \in Children : \A i \in DOMAIN wire[c] : ~CodexServes(c, i)
  PROVE  /\ UNCHANGED <<callId, served>> /\ answered \subseteq answered'
         /\ \A m \in Messages : Underway(m)' => Underway(m) \/ m.kind # "request"
         /\ \A k \in Calls : Moves(k)
<1> DEFINE Other == /\ UNCHANGED <<callId, served>> /\ answered \subseteq answered'
                    /\ \A m \in Messages : Underway(m)' => Underway(m) \/ m.kind # "request"
                    /\ \A k \in Calls : Moves(k)
<1>a. pc \in [Calls -> Places] /\ nextId \in Nat
  BY DEF TypeOK, ClientTypeOK
<1>b. ASSUME UNCHANGED <<wire, held>>
      PROVE  \A m \in Messages : Underway(m)' => Underway(m)
  BY <1>b DEF Underway, Children
<1>c. /\ Initialized \in Messages /\ Initialized.kind # "request"
      /\ Initialize(nextId) \in Messages /\ Initialize(nextId).kind # "request"
  BY <1>a, MessageTypes DEF Initialized, Initialize
<1>1. ASSUME NEW k \in Calls, Begin(k) \/ Retry(k) PROVE Other
  <2>1. /\ EnsureInitialized(k) /\ UNCHANGED <<callId, served, answered>>
        /\ Begin(k) \/ pc[k] = "backoff"
    BY <1>1 DEF Begin, Retry, codexVars
  <2>2. \A j \in Calls : Moves(j)
    BY <1>a, <2>1 DEF EnsureInitialized, Moves
  <2>3. \A m \in Messages : Underway(m)' => Underway(m) \/ m.kind # "request"
    BY <1>b, <1>c, <2>1, SendMessageUnderway DEF EnsureInitialized, procVars
  <2>4. QED
    BY <2>1, <2>2, <2>3
<1>2. ASSUME NEW k \in Calls, RequestTimeout(k) PROVE Other
  BY <1>2, <1>a, <1>b DEF RequestTimeout, Moves, procVars, codexVars
<1>3. ASSUME NEW c \in Children, StartTimer(c) PROVE Other
  <2>1. \A j \in Calls : Moves(j)
    BY <1>3, <1>a DEF StartTimer, Shake, Moves
  <2>2. UNCHANGED <<callId, served, answered>> /\ StartElapsed(c)
    BY <1>3 DEF StartTimer, codexVars
  <2>3. QED
    BY <2>1, <2>2, StartElapsedUnderway
<1>4. ASSUME NEW c \in Children, Crash(c) \/ Stopped(c) PROVE Other
  <2>1. ExitHandlers(c) /\ UNCHANGED <<callId, served, answered, wire, held>>
    BY <1>4 DEF Crash, Stopped, ExitHandlers, ProcExit, codexVars
  <2>2. \A j \in Calls : Moves(j)
    BY <1>a, <2>1 DEF ExitHandlers, FailWaiters, Moves
  <2>3. QED
    BY <1>b, <2>1, <2>2
<1>5. ASSUME NEW c \in Children, NEW i \in DOMAIN wire[c], CodexWelcomes(c, i)
      PROVE  Other
  <2>1. UNCHANGED <<callId, served>> /\ answered \subseteq answered'
    BY <1>5 DEF CodexWelcomes
  <2>2. \A j \in Calls : Moves(j)
    BY <1>5, <1>a DEF CodexWelcomes, Shake, Moves
  <2>3. UNCHANGED procVars \/ SendMessage(Initialized)
    BY <1>5 DEF CodexWelcomes
  <2>4. \A m \in Messages : Underway(m)' => Underway(m) \/ m.kind # "request"
    BY <1>b, <1>c, <2>3, SendMessageUnderway DEF procVars
  <2>5. QED
    BY <2>1, <2>2, <2>4
<1>6. ASSUME NEW c \in Children, NEW i \in DOMAIN wire[c], CodexRejectsInitialize(c, i)
      PROVE  Other
  <2>1. UNCHANGED <<callId, served, wire, held>> /\ answered \subseteq answered'
    BY <1>6 DEF CodexRejectsInitialize, procVars
  <2>2. \A j \in Calls : Moves(j)
    BY <1>6, <1>a DEF CodexRejectsInitialize, FailWaiters, Moves
  <2>3. QED
    BY <1>b, <2>1, <2>2
<1>7. ASSUME NEW c \in Children, NEW i \in DOMAIN wire[c], CodexRefuses(c, i)
      PROVE  Other
  <2>1. UNCHANGED <<callId, served, wire, held>> /\ answered' = answered \cup {wire[c][i].id}
    BY <1>7 DEF CodexRefuses, procVars
  <2>2. \A j \in Calls : Moves(j)
    <3>1. CASE wire[c][i].id \notin pending
      BY <1>7, <3>1 DEF CodexRefuses, Moves
    <3>2. CASE wire[c][i].id \in pending
      <4>1. PICK k \in Calls : /\ callId[k] = wire[c][i].id
                               /\ \E to \in {"failed", "backoff"} : pc' = [pc EXCEPT ![k] = to]
        BY <1>7, <3>2 DEF CodexRefuses
      <4>2. pc[k] = "flight"
        BY <3>2, <4>1, WaiterInFlight
      <4>3. QED
        BY <1>a, <2>1, <4>1, <4>2 DEF Moves
    <3>3. QED
      BY <3>1, <3>2
  <2>3. QED
    BY <1>b, <2>1, <2>2
<1>8. CASE InitializeTimeout
  <2>1. UNCHANGED <<callId, served, answered, wire, held>>
    BY <1>8 DEF InitializeTimeout, procVars, codexVars
  <2>2. \A j \in Calls : Moves(j)
    BY <1>8, <1>a DEF InitializeTimeout, FailWaiters, Moves
  <2>3. QED
    BY <1>b, <2>1, <2>2
<1>9. CASE Stop \/ UNCHANGED vars
  BY <1>9, <1>b DEF Stop, ProcStop, vars, procVars, clientVars, codexVars, Moves
<1>10. QED
  BY <1>1, <1>2, <1>3, <1>4, <1>5, <1>6, <1>7, <1>8, <1>9 DEF Next

(* codex carries out only what nobody has been told of, or was told that it *)
(* failed; it is of the owner's latest attempt.                             *)
LEMMA ServesLatest ==
  ASSUME TypeOK, IdsInv, PendingInv, ServedInv,
         NEW c \in Children, NEW i \in DOMAIN wire[c], CodexServes(c, i)
  PROVE  LET k == wire[c][i].owner IN
         /\ k \in Calls /\ wire[c][i] = Request(callId[k], k)
         /\ \A m \in served : m.owner # k
         /\ \/ pc[k] = "flight" /\ \E outcome \in {"ok", "failed"} : pc' = [pc EXCEPT ![k] = outcome]
            \/ pc[k] = "failed" /\ pc' = pc
<1> DEFINE k == wire[c][i].owner
           id == wire[c][i].id
<1>a. pc \in [Calls -> Places]
  BY DEF TypeOK, ClientTypeOK
<1>1. wire[c][i] \in Messages /\ Underway(wire[c][i]) /\ wire[c][i].kind = "request" /\ id \notin answered
  BY WireUnderway DEF CodexServes, Unanswered
<1>2. k \in Calls /\ id = callId[k] /\ id # 0
  BY <1>1 DEF ServedInv
<1>3. wire[c][i] = Request(callId[k], k)
  BY <1>1, <1>2 DEF IdsInv
<1>4. ASSUME NEW m \in served, m.owner = k PROVE FALSE
  <2>1. m = Request(callId[k], k) /\ m.id \in answered
    BY <1>4 DEF ServedInv
  <2>2. QED
    BY <1>1, <1>2, <2>1 DEF Request
<1>5. CASE id \in pending
  <2>1. PICK j \in Calls : callId[j] = id /\ \E outcome \in {"ok", "failed"} : pc' = [pc EXCEPT ![j] = outcome]
    BY <1>5 DEF CodexServes
  <2>2. j = k /\ pc[k] = "flight"
    BY <1>2, <1>5, <2>1, WaiterInFlight
  <2>3. QED
    BY <1>2, <1>3, <1>4, <2>1, <2>2
<1>6. CASE id \notin pending
  <2>1. pc' = pc
    BY <1>6 DEF CodexServes
  <2>2. pc[k] \notin {"idle", "ensure", "resumed", "backoff", "flight"}
    BY <1>1, <1>2, <1>6 DEF ServedInv, PendingInv
  <2>3. pc[k] # "ok"
    BY <1>1, <1>2 DEF ServedInv
  <2>4. pc[k] = "failed"
    BY <1>a, <1>2, <2>2, <2>3 DEF Places
  <2>5. QED
    BY <1>2, <1>3, <1>4, <2>1, <2>4
<1>7. QED
  BY <1>5, <1>6

(* ServedInv after the two steps of which OtherSteps does not speak.        *)
LEMMA ServedStep == TypeOK /\ IdsInv /\ PendingInv /\ ServedInv /\ [Next]_vars => ServedInv'
<1> SUFFICES ASSUME TypeOK, IdsInv, PendingInv, ServedInv, [Next]_vars PROVE ServedInv'
  OBVIOUS
<1>a. /\ pc \in [Calls -> Places] /\ callId \in [Calls -> 0..(nextId - 1)]
      /\ nextId \in Nat \ {0}
  BY DEF TypeOK, ClientTypeOK
<1>1. ASSUME NEW k \in Calls, SendRequest(k) PROVE ServedInv'
  <2>1. /\ pc[k] = "resumed" /\ pc' = [pc EXCEPT ![k] = "flight"]
        /\ callId' = [callId EXCEPT ![k] = nextId]
        /\ UNCHANGED <<answered, served>> /\ SendMessage(Request(nextId, k))
    BY <1>1 DEF SendRequest, codexVars
  <2>2. callId[k] \in answered \cup {0}
    BY <2>1 DEF ServedInv
  <2>3. /\ pc'[k] = "flight" /\ callId'[k] = nextId
        /\ \A j \in Calls \ {k} : pc'[j] = pc[j] /\ callId'[j] = callId[j]
    BY <1>a, <2>1
  <2>4. ASSUME NEW m \in Messages, Underway(m)', m.kind = "request"
        PROVE  /\ m.id > 0 /\ m.owner \in Calls
               /\ m.id = callId'[m.owner] \/ m.id \in answered'
    <3>1. Underway(m) \/ m = Request(nextId, k)
      BY <1>a, <2>1, <2>4, MessageTypes, SendMessageUnderway
    <3>2. CASE Underway(m)
      BY <2>1, <2>2, <2>3, <2>4, <3>2 DEF ServedInv
    <3>3. CASE m = Request(nextId, k)
      <4>1. m.id = nextId /\ m.owner = k
        BY <3>3 DEF Request
      <4>2. QED
        BY <1>a, <2>3, <4>1
    <3>4. QED
      BY <3>1, <3>2, <3>3
  <2>5. \A m \in served' :
          /\ m.owner \in Calls
          /\ m = Request(callId'[m.owner], m.owner)
          /\ m.id \in answered'
          /\ pc'[m.owner] \in {"ok", "failed"}
    BY <2>1, <2>3 DEF ServedInv
  <2>6. /\ \A j \in Calls : pc'[j] = "idle" => callId'[j] = 0
        /\ \A j \in Calls : pc'[j] \in {"ensure", "resumed", "backoff"} =>
             callId'[j] \in answered' \cup {0}
        /\ \A j \in Calls : pc'[j] = "ok" => callId'[j] \in answered'
    BY <2>1, <2>3 DEF ServedInv
  <2>7. QED
    BY <2>4, <2>5, <2>6 DEF ServedInv, Request
<1>2. ASSUME NEW c \in Children, NEW i \in DOMAIN wire[c], CodexServes(c, i)
      PROVE  ServedInv'
  <2> DEFINE k == wire[c][i].owner
  <2>1. /\ UNCHANGED <<wire, held, callId>>
        /\ answered' = answered \cup {wire[c][i].id} /\ served' = served \cup {wire[c][i]}
    BY <1>2 DEF CodexServes, procVars
  <2>2. /\ k \in Calls /\ wire[c][i] = Request(callId[k], k)
        /\ \/ pc[k] = "flight" /\ \E outcome \in {"ok", "failed"} : pc' = [pc EXCEPT ![k] = outcome]
           \/ pc[k] = "failed" /\ pc' = pc
    BY <1>2, ServesLatest
  <2>3. wire[c][i].id = callId[k]
    BY <2>2 DEF Request
  <2>4. pc'[k] \in {"ok", "failed"} /\ \A j \in Calls \ {k} : pc'[j] = pc[j]
    BY <1>a, <2>2
  <2>5. \A m \in Messages : Underway(m)' => Underway(m)
    BY <2>1 DEF Underway, Children
  <2>6. \A m \in Messages : Underway(m)' /\ m.kind = "request" =>
          /\ m.id > 0 /\ m.owner \in Calls
          /\ m.id = callId'[m.owner] \/ m.id \in answered'
    BY <2>1, <2>5 DEF ServedInv
  <2>7. /\ \A j \in Calls : pc'[j] = "idle" => callId'[j] = 0
        /\ \A j \in Calls : pc'[j] \in {"ensure", "resumed", "backoff"} =>
             callId'[j] \in answered' \cup {0}
        /\ \A j \in Calls : pc'[j] = "ok" => callId'[j] \in answered'
    BY <2>1, <2>3, <2>4 DEF ServedInv
  <2>8. ASSUME NEW m \in served'
        PROVE  /\ m.owner \in Calls
               /\ m = Request(callId'[m.owner], m.owner)
               /\ m.id \in answered'
               /\ pc'[m.owner] \in {"ok", "failed"}
    <3>1. CASE m \in served
      BY <2>1, <2>4, <3>1 DEF ServedInv
    <3>2. CASE m = wire[c][i]
      BY <2>1, <2>2, <2>3, <2>4, <3>2
    <3>3. QED
      BY <2>1, <3>1, <3>2
  <2>9. QED
    BY <2>6, <2>7, <2>8 DEF ServedInv, Request
<1>3. CASE /\ \A k \in Calls : ~SendRequest(k)
           /\ \A c \in Children : \A i \in DOMAIN wire[c] : ~CodexServes(c, i)
  <2>1. /\ UNCHANGED <<callId, served>> /\ answered \subseteq answered'
        /\ \A m \in Messages : Underway(m)' => Underway(m) \/ m.kind # "request"
        /\ \A k \in Calls : Moves(k)
    BY <1>3, OtherSteps
  <2>2. QED
    BY <2>1, ServedKept
<1>4. QED
  BY <1>1, <1>2, <1>3

-----------------------------------------------------------------------------
(* The refinement of CallService.                                           *)

stageBar == [k \in Calls |-> CallStage(k)]
ServedFor(k) == {m \in served : m.owner = k}
executedBar == [k \in Calls |-> Cardinality(ServedFor(k))]

(* Where the calls stand tells the services only of failures.               *)
LEMMA FailStep ==
  ASSUME UNCHANGED served,
         \A k \in Calls : \/ CallStage(k)' = CallStage(k)
                          \/ CallStage(k) = "waiting" /\ CallStage(k)' = "failed"
  PROVE  Service!Next
<1> DEFINE lost == {k \in Calls : CallStage(k) = "waiting" /\ CallStage(k)' = "failed"}
<1>1. lost \in SUBSET {k \in Calls : stageBar[k] = "waiting"}
  BY DEF stageBar
<1>2. stageBar' = [k \in Calls |-> IF k \in lost THEN "failed" ELSE stageBar[k]]
  BY DEF stageBar
<1>3. executedBar' = executedBar
  BY DEF executedBar, ServedFor
<1>4. Service!Fail
  BY <1>1, <1>2, <1>3 DEF Service!Fail, stageBar, executedBar, ServedFor
<1>5. QED
  BY <1>4 DEF Service!Next

(* A call is begun: the services submit it.                                 *)
LEMMA BeginSubmits ==
  ASSUME TypeOK, NEW k \in Calls, Begin(k)
  PROVE  Service!Next
<1>1. /\ pc[k] = "idle" /\ pc \in [Calls -> Places] /\ UNCHANGED served
      /\ \E to \in {"ensure", "resumed"} : pc' = [pc EXCEPT ![k] = to]
  BY DEF TypeOK, ClientTypeOK, Begin, EnsureInitialized, codexVars
<1>2. /\ CallStage(k) = "idle" /\ CallStage(k)' = "waiting"
      /\ \A j \in Calls \ {k} : CallStage(j)' = CallStage(j)
  BY <1>1 DEF CallStage
<1>3. stageBar' = [stageBar EXCEPT ![k] = "waiting"] /\ stageBar[k] = "idle"
  BY <1>2 DEF stageBar
<1>4. executedBar' = executedBar
  BY <1>1 DEF executedBar, ServedFor
<1>5. Service!Submit(k)
  BY <1>3, <1>4 DEF Service!Submit, stageBar, executedBar, ServedFor
<1>6. QED
  BY <1>5 DEF Service!Next

(* codex carries a request out: that is the one execution of its call.      *)
LEMMA ServesExecutes ==
  ASSUME TypeOK, IdsInv, PendingInv, ServedInv,
         NEW c \in Children, NEW i \in DOMAIN wire[c], CodexServes(c, i),
         NEW k \in Calls, k = wire[c][i].owner
  PROVE  Service!Next
<1>a. pc \in [Calls -> Places]
  BY DEF TypeOK, ClientTypeOK
<1>1. /\ \A m \in served : m.owner # k
      /\ \/ pc[k] = "flight" /\ \E outcome \in {"ok", "failed"} : pc' = [pc EXCEPT ![k] = outcome]
         \/ pc[k] = "failed" /\ pc' = pc
  BY ServesLatest
<1>2. served' = served \cup {wire[c][i]}
  BY DEF CodexServes
<1>3. ServedFor(k) = {} /\ ServedFor(k)' = {wire[c][i]}
  <2>1. ServedFor(k) = {}
    BY <1>1 DEF ServedFor
  <2>2. ServedFor(k)' = {m \in served \cup {wire[c][i]} : m.owner = k}
    BY <1>2 DEF ServedFor
  <2>3. QED
    BY <1>1, <2>1, <2>2
<1>4. \A j \in Calls \ {k} : ServedFor(j)' = ServedFor(j)
  BY <1>2 DEF ServedFor
<1>5. executedBar[k] = 0 /\ executedBar' = [executedBar EXCEPT ![k] = 1]
  <2>1. Cardinality({}) = 0 /\ Cardinality({wire[c][i]}) = 1
    BY FS_EmptySet, FS_Singleton
  <2>2. \A j \in Calls \ {k} : Cardinality(ServedFor(j))' = Cardinality(ServedFor(j))
    BY <1>4
  <2>3. QED
    BY <1>1, <1>3, <2>1, <2>2 DEF executedBar
<1>6. CASE pc[k] = "failed" /\ pc' = pc
  <2>1. stageBar[k] = "failed" /\ stageBar' = stageBar
    BY <1>1, <1>6 DEF stageBar, CallStage
  <2>2. Service!Execute(k)
    BY <1>5, <2>1 DEF Service!Execute, stageBar, executedBar, ServedFor
  <2>3. QED
    BY <1>1, <2>2 DEF Service!Next
<1>7. ASSUME pc[k] = "flight", NEW outcome \in {"ok", "failed"}, pc' = [pc EXCEPT ![k] = outcome]
      PROVE  Service!Next
  <2>1. /\ CallStage(k) = "waiting" /\ CallStage(k)' = outcome
        /\ \A j \in Calls \ {k} : CallStage(j)' = CallStage(j)
    BY <1>a, <1>1, <1>7 DEF CallStage
  <2>2. stageBar[k] = "waiting" /\ stageBar' = [stageBar EXCEPT ![k] = outcome]
    BY <1>1, <2>1 DEF stageBar
  <2>3. Service!Execute(k)
    BY <1>5, <2>2 DEF Service!Execute, stageBar, executedBar, ServedFor
  <2>4. QED
    BY <1>1, <2>3 DEF Service!Next
<1>8. QED
  BY <1>1, <1>6, <1>7

(* Every step of the client is a step of CallService, or a stutter.         *)
LEMMA ServiceStep ==
  TypeOK /\ IdsInv /\ PendingInv /\ ServedInv /\ [Next]_vars => Service!Next
<1> SUFFICES ASSUME TypeOK, IdsInv, PendingInv, ServedInv, [Next]_vars PROVE Service!Next
  OBVIOUS
<1>a. pc \in [Calls -> Places]
  BY DEF TypeOK, ClientTypeOK
<1>1. ASSUME NEW k \in Calls, Begin(k) PROVE Service!Next
  BY <1>1, BeginSubmits
<1>2. ASSUME NEW k \in Calls, SendRequest(k) PROVE Service!Next
  <2>1. pc[k] = "resumed" /\ pc' = [pc EXCEPT ![k] = "flight"] /\ UNCHANGED served
    BY <1>2 DEF SendRequest, codexVars
  <2>2. \A j \in Calls : CallStage(j)' = CallStage(j)
    BY <1>a, <2>1 DEF CallStage
  <2>3. QED
    BY <2>1, <2>2, FailStep
<1>3. ASSUME NEW c \in Children, NEW i \in DOMAIN wire[c], CodexServes(c, i)
      PROVE  Service!Next
  BY <1>3, ServesExecutes, ServesLatest
<1>4. CASE /\ \A k \in Calls : ~Begin(k) /\ ~SendRequest(k)
           /\ \A c \in Children : \A i \in DOMAIN wire[c] : ~CodexServes(c, i)
  <2>1. UNCHANGED served /\ \A k \in Calls : Moves(k)
    BY <1>4, OtherSteps
  <2>2. \A k \in Calls : \/ CallStage(k)' = CallStage(k)
                         \/ CallStage(k) = "waiting" /\ CallStage(k)' = "failed"
    BY <1>4, <1>a, <2>1 DEF CallStage, Moves, Places
  <2>3. QED
    BY <2>1, <2>2, FailStep
<1>5. QED
  BY <1>1, <1>2, <1>3, <1>4

(* A call is executed at most once, whatever is restarted and repeated.     *)
THEOREM ExecutedAtMostOnce == Spec => CallsOnce
<1>1. Init => Service!Init
  <2> SUFFICES ASSUME Init PROVE Service!Init
    OBVIOUS
  <2>1. stageBar = [k \in Calls |-> "idle"]
    BY DEF Init, stageBar, CallStage
  <2>2. \A k \in Calls : ServedFor(k) = {}
    BY DEF Init, ServedFor
  <2>3. executedBar = [k \in Calls |-> 0]
    BY <2>2, FS_EmptySet DEF executedBar
  <2>4. QED
    BY <2>1, <2>3 DEF Service!Init, stageBar, executedBar, ServedFor
<1>2. Init => ServedInv
  BY DEF Init, ProcInit, ServedInv, Underway, Children
<1>3. TypeOK /\ IdsInv /\ PendingInv /\ ServedInv /\ [Next]_vars
        => [Service!Next]_<<[k \in Calls |-> CallStage(k)],
                            [k \in Calls |-> Cardinality({m \in served : m.owner = k})]>>
  BY ServiceStep
<1>4. QED
  BY <1>1, <1>2, <1>3, ServedStep, TypeCorrect, CallsAlways, PTL
  DEF Spec, CallsOnce, Service!Spec

-----------------------------------------------------------------------------
(* The approvals                                                            *)

AskRecords == [child : Nat, id : Nat, kind : ApprovalKinds \cup {"other"}, seen : Nat]

AsksTypeOK ==
  /\ asks \in Seq(AskRecords)
  /\ \A r \in DOMAIN asks : asks[r].child \in Children
  /\ approvals \subseteq {r \in DOMAIN asks : asks[r].kind \in ApprovalKinds}

(* m answers request r, whoever reads it.                                   *)
IsAnswer(m, r) == m.kind = "response" /\ m.owner = r

(* The answers to r on the stdin of c, and on any; and whether c's start    *)
(* timer holds one.                                                         *)
AnswersOn(c, r) == {i \in DOMAIN wire[c] : IsAnswer(wire[c][i], r)}

IsWritten(r) == \E c \in Children : AnswersOn(c, r) # {}

HeldBy(c, r) == held[c] # NoMessage /\ IsAnswer(held[c], r)

(* An answer is the answer to a request that was made.                      *)
OwnersAsked ==
  \A r : IsWritten(r) \/ (\E c \in Children : HeldBy(c, r)) => r \in DOMAIN asks

(* A decision sleeps on a start timer only if its codex is gone; a refusal  *)
(* that does has not been written, and sleeps on no other timer.            *)
SleepersInv ==
  \A c \in Children, r \in DOMAIN asks : HeldBy(c, r) =>
    /\ asks[r].kind \in ApprovalKinds => asks[r].child \notin alive
    /\ asks[r].kind \notin ApprovalKinds =>
         ~IsWritten(r) /\ \A d \in Children \ {c} : ~HeldBy(d, r)

(* AnsweredOnce, in terms a step can be followed in: of the lines of the    *)
(* codex that asked, those that were made for its request.                  *)
OnceInv ==
  \A r \in DOMAIN asks, c \in Children : asks[r].child = c =>
    /\ \A i, j \in AnswersOn(c, r) : i = j
    /\ asks[r].kind \in ApprovalKinds /\ c \in alive
         => (r \in approvals <=> AnswersOn(c, r) = {})

ChildLives == child # 0 => child \in alive

(* The strengthening of AnsweredOnce and PendingIsUnanswered, but for the   *)
(* ids (MatchInv).                                                          *)
ApprovalsInv ==
  /\ AsksTypeOK
  /\ ChildLives
  /\ OwnersAsked
  /\ SleepersInv
  /\ OnceInv
  /\ \A r \in approvals : ~IsWritten(r)

-----------------------------------------------------------------------------
(* What the steps of the manager do to the answers.                         *)

(* A line written to d.                                                     *)
LEMMA AppendedAnswers ==
  ASSUME TypeOK, NEW d \in Children, NEW m \in Messages,
         wire' = [wire EXCEPT ![d] = Append(@, m)], NEW r
  PROVE  /\ Children' = Children
         /\ \A c \in Children : c # d \/ ~IsAnswer(m, r) => AnswersOn(c, r)' = AnswersOn(c, r)
         /\ IsAnswer(m, r) => AnswersOn(d, r)' = AnswersOn(d, r) \cup {Len(wire[d]) + 1}
         /\ IsWritten(r)' <=> IsWritten(r) \/ IsAnswer(m, r)
<1> DEFINE n == Len(wire[d]) + 1
<1>1. wire \in Seq(Seq(Messages)) /\ wire[d] \in Seq(Messages) /\ Children = DOMAIN wire
  BY DEF TypeOK, ProcTypeOK, Children
<1>2. /\ Children' = Children
      /\ \A c \in Children : c # d => wire'[c] = wire[c]
      /\ wire'[d] = Append(wire[d], m)
  BY <1>1 DEF Children
<1>3. /\ DOMAIN wire'[d] = DOMAIN wire[d] \cup {n}
      /\ n \notin DOMAIN wire[d]
      /\ \A i \in DOMAIN wire[d] : wire'[d][i] = wire[d][i]
      /\ wire'[d][n] = m
  BY <1>1, <1>2
<1>4. \A c \in Children : c # d \/ ~IsAnswer(m, r) => AnswersOn(c, r)' = AnswersOn(c, r)
  <2> SUFFICES ASSUME NEW c \in Children, c # d \/ ~IsAnswer(m, r)
               PROVE  AnswersOn(c, r)' = AnswersOn(c, r)
    OBVIOUS
  <2>1. CASE c # d
    BY <1>2, <2>1 DEF AnswersOn
  <2>2. CASE c = d
    <3> HIDE DEF n
    <3> QED BY <1>3, <2>2 DEF AnswersOn
  <2> QED BY <2>1, <2>2
<1>5. IsAnswer(m, r) => AnswersOn(d, r)' = AnswersOn(d, r) \cup {n}
  <2> HIDE DEF n
  <2> QED BY <1>3 DEF AnswersOn
<1>6. IsWritten(r)' <=> IsWritten(r) \/ IsAnswer(m, r)
  <2>1. CASE IsAnswer(m, r)
    <3>1. AnswersOn(d, r)' # {}
      BY <1>5, <2>1
    <3> QED BY <1>2, <2>1, <3>1 DEF IsWritten
  <2>2. CASE ~IsAnswer(m, r)
    BY <1>2, <1>4, <2>2 DEF IsWritten
  <2> QED BY <2>1, <2>2
<1> QED BY <1>2, <1>4, <1>5, <1>6

(* A child spawned for m.                                                   *)
LEMMA SpawnedAnswers ==
  ASSUME TypeOK, NEW m \in Messages, SpawnFor(m), NEW n, n = Len(wire) + 1, NEW r
  PROVE  /\ n \notin Children /\ n # 0 /\ Children' = Children \cup {n}
         /\ \A c \in Children : AnswersOn(c, r)' = AnswersOn(c, r) /\ (HeldBy(c, r)' <=> HeldBy(c, r))
         /\ AnswersOn(n, r)' = {}
         /\ HeldBy(n, r)' <=> IsAnswer(m, r)
         /\ IsWritten(r)' <=> IsWritten(r)
<1>1. /\ wire \in Seq(Seq(Messages)) /\ held \in Seq(Messages \cup {NoMessage})
      /\ Len(held) = Len(wire) /\ Children = DOMAIN wire
      /\ wire' = Append(wire, <<>>) /\ held' = Append(held, m)
  BY DEF TypeOK, ProcTypeOK, Children, SpawnFor
<1>2. /\ n \notin Children /\ n # 0 /\ Children' = Children \cup {n}
      /\ \A c \in Children : wire'[c] = wire[c] /\ held'[c] = held[c]
      /\ wire'[n] = <<>> /\ held'[n] = m
  BY <1>1 DEF Children
<1>3. m # NoMessage
  BY NoMessageAssumption
<1>4. \A c \in Children : AnswersOn(c, r)' = AnswersOn(c, r) /\ (HeldBy(c, r)' <=> HeldBy(c, r))
  BY <1>2 DEF AnswersOn, HeldBy
<1>5. AnswersOn(n, r)' = {}
  <2>1. DOMAIN wire'[n] = {}
    BY <1>2
  <2> QED BY <2>1 DEF AnswersOn
<1>6. HeldBy(n, r)' <=> IsAnswer(m, r)
  BY <1>2, <1>3 DEF HeldBy
<1>7. IsWritten(r)' <=> IsWritten(r)
  BY <1>2, <1>4, <1>5 DEF IsWritten
<1> QED BY <1>2, <1>4, <1>5, <1>6, <1>7

-----------------------------------------------------------------------------
(* The invariant, by what a step does to the manager's fields.              *)

(* Requests stay what they are, and new ones are not approvals.             *)
AsksKept ==
  /\ \A r \in DOMAIN asks : r \in DOMAIN asks' /\ asks'[r] = asks[r]
  /\ \A r \in DOMAIN asks' \ DOMAIN asks : asks'[r].kind \notin ApprovalKinds

(* No line is written and nothing is asked; if an approval is dropped, its  *)
(* codex is gone.                                                           *)
LEMMA NothingWritten ==
  ASSUME TypeOK, ApprovalsInv, UNCHANGED <<wire, asks>>, alive' \subseteq alive, ChildLives',
         \A c \in Children : held'[c] \in {held[c], NoMessage},
         approvals' \subseteq approvals,
         \A r \in approvals \ approvals' : asks[r].child \notin alive
  PROVE  ApprovalsInv'
<1>1. Children' = Children
  BY DEF Children
<1>2. \A c, r : AnswersOn(c, r)' = AnswersOn(c, r)
  BY DEF AnswersOn
<1>3. \A r : IsWritten(r)' <=> IsWritten(r)
  BY <1>1, <1>2 DEF IsWritten
<1>4. \A c \in Children : \A r : HeldBy(c, r)' => HeldBy(c, r)
  BY DEF HeldBy
<1>5. AsksTypeOK'
  BY <1>1 DEF ApprovalsInv, AsksTypeOK
<1>6. OwnersAsked'
  BY <1>1, <1>3, <1>4 DEF ApprovalsInv, OwnersAsked
<1>7. SleepersInv'
  BY <1>1, <1>3, <1>4 DEF ApprovalsInv, SleepersInv
<1>8. OnceInv'
  BY <1>1, <1>2 DEF ApprovalsInv, OnceInv
<1>9. \A r \in approvals' : ~IsWritten(r)'
  BY <1>3 DEF ApprovalsInv
<1> QED BY <1>5, <1>6, <1>7, <1>8, <1>9 DEF ApprovalsInv

(* A line is written: an answer is that of a request whose codex is gone,   *)
(* or is the child and has not been answered; and its entry goes.           *)
LEMMA LineWritten ==
  ASSUME TypeOK, ApprovalsInv, NEW m \in Messages, child # 0,
         wire' = [wire EXCEPT ![child] = Append(@, m)], UNCHANGED <<child, alive>>,
         \A c \in Children : held'[c] \in {held[c], NoMessage},
         AsksTypeOK', AsksKept,
         approvals' \subseteq approvals,
         \A r \in approvals : r \in approvals' <=> ~IsAnswer(m, r),
         \A r : IsAnswer(m, r) =>
           /\ r \in DOMAIN asks'
           /\ asks'[r].kind \in ApprovalKinds /\ asks'[r].child \in alive
                => asks'[r].child = child /\ r \in approvals
           /\ asks'[r].kind \notin ApprovalKinds
                => ~IsWritten(r) /\ \A c \in Children : ~HeldBy(c, r)'
  PROVE  ApprovalsInv'
<1>0. PICK d : d = child
  OBVIOUS
<1>1. d \in Children /\ d \in alive
  BY <1>0 DEF TypeOK, ProcTypeOK, Children, ApprovalsInv, ChildLives
<1>2. Children' = Children
  BY <1>0, <1>1, AppendedAnswers
<1>3. \A r : \A c \in Children : c # d \/ ~IsAnswer(m, r) => AnswersOn(c, r)' = AnswersOn(c, r)
  BY <1>0, <1>1, AppendedAnswers
<1>4. \A r : IsAnswer(m, r) => AnswersOn(d, r)' = AnswersOn(d, r) \cup {Len(wire[d]) + 1}
  BY <1>0, <1>1, AppendedAnswers
<1>5. \A r : IsWritten(r)' <=> IsWritten(r) \/ IsAnswer(m, r)
  BY <1>0, <1>1, AppendedAnswers
<1>6. \A c \in Children : \A r : HeldBy(c, r)' => HeldBy(c, r)
  BY DEF HeldBy
<1>7. OwnersAsked'
  BY <1>2, <1>5, <1>6 DEF ApprovalsInv, OwnersAsked, AsksKept
<1>8. SleepersInv'
  <2> SUFFICES ASSUME NEW c \in Children, NEW r \in DOMAIN asks', HeldBy(c, r)'
               PROVE  /\ asks'[r].kind \in ApprovalKinds => asks'[r].child \notin alive
                      /\ asks'[r].kind \notin ApprovalKinds =>
                           ~IsWritten(r)' /\ \A b \in Children \ {c} : ~HeldBy(b, r)'
    BY <1>2 DEF SleepersInv
  <2>1. HeldBy(c, r)
    BY <1>6
  <2>2. r \in DOMAIN asks /\ asks'[r] = asks[r]
    BY <2>1 DEF ApprovalsInv, OwnersAsked, AsksKept
  <2>3. asks[r].kind \notin ApprovalKinds => ~IsAnswer(m, r)
    BY <2>2
  <2> QED BY <1>5, <1>6, <2>1, <2>2, <2>3 DEF ApprovalsInv, SleepersInv
<1>9. OnceInv'
  <2> SUFFICES ASSUME NEW r \in DOMAIN asks', NEW c \in Children, asks'[r].child = c
               PROVE  /\ \A i, j \in AnswersOn(c, r)' : i = j
                      /\ asks'[r].kind \in ApprovalKinds /\ c \in alive'
                           => (r \in approvals' <=> AnswersOn(c, r)' = {})
    BY <1>2 DEF OnceInv
  <2>2. CASE r \notin DOMAIN asks
    <3>1. AnswersOn(c, r) = {}
      BY <2>2 DEF ApprovalsInv, OwnersAsked, IsWritten
    <3>2. AnswersOn(c, r)' \subseteq {Len(wire[d]) + 1}
      BY <1>3, <1>4, <3>1
    <3> QED BY <2>2, <3>2 DEF AsksKept
  <2>3. CASE r \in DOMAIN asks
    <3>1. asks'[r] = asks[r]
      BY <2>3 DEF AsksKept
    <3>2. CASE c # d \/ ~IsAnswer(m, r)
      <4>1. AnswersOn(c, r)' = AnswersOn(c, r)
        BY <1>3, <3>2
      <4>2. asks[r].kind \in ApprovalKinds /\ c \in alive => ~IsAnswer(m, r)
        BY <1>0, <3>1, <3>2
      <4>3. asks[r].kind \in ApprovalKinds /\ c \in alive => (r \in approvals' <=> r \in approvals)
        BY <4>2
      <4>4. /\ \A i, j \in AnswersOn(c, r) : i = j
            /\ asks[r].kind \in ApprovalKinds /\ c \in alive
                 => (r \in approvals <=> AnswersOn(c, r) = {})
        BY <2>3, <3>1 DEF ApprovalsInv, OnceInv
      <4> QED BY <3>1, <4>1, <4>3, <4>4
    <3>3. CASE c = d /\ IsAnswer(m, r)
      <4>1. ~IsWritten(r)
        BY <1>1, <3>3 DEF ApprovalsInv
      <4>2. AnswersOn(c, r) = {}
        BY <4>1 DEF IsWritten
      <4>3. AnswersOn(c, r)' = {Len(wire[d]) + 1}
        BY <1>4, <3>3, <4>2
      <4>4. r \notin approvals'
        BY <3>3
      <4> QED BY <4>3, <4>4
    <3> QED BY <3>2, <3>3
  <2> QED BY <2>2, <2>3
<1>10. \A r \in approvals' : ~IsWritten(r)'
  BY <1>5 DEF ApprovalsInv
<1>11. ChildLives'
  BY DEF ApprovalsInv, ChildLives
<1> QED BY <1>7, <1>8, <1>9, <1>10, <1>11 DEF ApprovalsInv

(* A child is spawned: an answer that waits for it is that of a codex that  *)
(* is gone, or a refusal that is sent nowhere else.                         *)
LEMMA ChildSpawned ==
  ASSUME TypeOK, ApprovalsInv, NEW m \in Messages, SpawnFor(m),
         AsksTypeOK', AsksKept, approvals' = approvals,
         \A r : IsAnswer(m, r) =>
           /\ r \in DOMAIN asks'
           /\ asks'[r].kind \in ApprovalKinds => asks'[r].child \notin alive'
           /\ asks'[r].kind \notin ApprovalKinds
                => ~IsWritten(r) /\ \A c \in Children : ~HeldBy(c, r)
  PROVE  ApprovalsInv'
<1>0. PICK n : n = Len(wire) + 1
  OBVIOUS
<1>1. /\ n \notin Children /\ n # 0 /\ Children' = Children \cup {n}
      /\ alive' = alive \cup {n} /\ child' = n
  BY <1>0, SpawnedAnswers DEF SpawnFor
<1>2. \A r : \A c \in Children : AnswersOn(c, r)' = AnswersOn(c, r) /\ (HeldBy(c, r)' <=> HeldBy(c, r))
  BY <1>0, SpawnedAnswers
<1>3. \A r : AnswersOn(n, r)' = {} /\ (HeldBy(n, r)' <=> IsAnswer(m, r))
  BY <1>0, SpawnedAnswers
<1>4. \A r : IsWritten(r)' <=> IsWritten(r)
  BY <1>0, SpawnedAnswers
<1>5. ChildLives'
  BY <1>1 DEF ChildLives
<1>6. OwnersAsked'
  <2> SUFFICES ASSUME NEW r, IsWritten(r)' \/ \E c \in Children' : HeldBy(c, r)'
               PROVE  r \in DOMAIN asks'
    BY DEF OwnersAsked
  <2>1. CASE IsAnswer(m, r)
    BY <2>1
  <2>2. CASE ~IsAnswer(m, r)
    <3>1. IsWritten(r) \/ \E c \in Children : HeldBy(c, r)
      BY <1>1, <1>2, <1>3, <1>4, <2>2
    <3> QED BY <3>1 DEF ApprovalsInv, OwnersAsked, AsksKept
  <2> QED BY <2>1, <2>2
<1>7. SleepersInv'
  <2> SUFFICES ASSUME NEW c \in Children', NEW r \in DOMAIN asks', HeldBy(c, r)'
               PROVE  /\ asks'[r].kind \in ApprovalKinds => asks'[r].child \notin alive'
                      /\ asks'[r].kind \notin ApprovalKinds =>
                           ~IsWritten(r)' /\ \A d \in Children' \ {c} : ~HeldBy(d, r)'
    BY DEF SleepersInv
  <2>1. CASE IsAnswer(m, r)
    <3>1. asks'[r].kind \in ApprovalKinds => asks'[r].child \notin alive'
      BY <2>1
    <3>2. ASSUME asks'[r].kind \notin ApprovalKinds
          PROVE  ~IsWritten(r)' /\ \A d \in Children' \ {c} : ~HeldBy(d, r)'
      <4>1. ~IsWritten(r) /\ \A d \in Children : ~HeldBy(d, r)
        BY <2>1, <3>2
      <4>2. c = n
        BY <1>1, <1>2, <4>1
      <4> QED BY <1>1, <1>2, <1>4, <4>1, <4>2
    <3> QED BY <3>1, <3>2
  <2>2. CASE ~IsAnswer(m, r)
    <3>1. c \in Children /\ HeldBy(c, r)
      BY <1>1, <1>2, <1>3, <2>2
    <3>2. r \in DOMAIN asks /\ asks'[r] = asks[r] /\ asks[r].child \in Children
      BY <3>1 DEF ApprovalsInv, OwnersAsked, AsksKept, AsksTypeOK
    <3>3. asks[r].kind \in ApprovalKinds => asks[r].child \notin alive'
      BY <1>1, <3>1, <3>2 DEF ApprovalsInv, SleepersInv
    <3>4. asks[r].kind \notin ApprovalKinds =>
            ~IsWritten(r)' /\ \A d \in Children' \ {c} : ~HeldBy(d, r)'
      BY <1>1, <1>2, <1>3, <1>4, <2>2, <3>1, <3>2 DEF ApprovalsInv, SleepersInv
    <3> QED BY <3>2, <3>3, <3>4
  <2> QED BY <2>1, <2>2
<1>8. OnceInv'
  <2> SUFFICES ASSUME NEW r \in DOMAIN asks', NEW c \in Children', asks'[r].child = c
               PROVE  /\ \A i, j \in AnswersOn(c, r)' : i = j
                      /\ asks'[r].kind \in ApprovalKinds /\ c \in alive'
                           => (r \in approvals' <=> AnswersOn(c, r)' = {})
    BY DEF OnceInv
  <2>2. CASE r \notin DOMAIN asks
    <3>1. AnswersOn(c, r)' = {}
      BY <1>1, <1>2, <1>3, <2>2 DEF ApprovalsInv, OwnersAsked, IsWritten
    <3> QED BY <2>2, <3>1 DEF AsksKept
  <2>3. CASE r \in DOMAIN asks
    <3>1. asks'[r] = asks[r] /\ c \in Children
      BY <2>3 DEF AsksKept, ApprovalsInv, AsksTypeOK
    <3>2. AnswersOn(c, r)' = AnswersOn(c, r) /\ (c \in alive' <=> c \in alive)
      BY <1>1, <1>2, <3>1
    <3> QED BY <2>3, <3>1, <3>2 DEF ApprovalsInv, OnceInv
  <2> QED BY <2>2, <2>3
<1>9. \A r \in approvals' : ~IsWritten(r)'
  BY <1>4 DEF ApprovalsInv
<1> QED BY <1>5, <1>6, <1>7, <1>8, <1>9 DEF ApprovalsInv

(* An approval is asked by a codex that lives.                              *)
LEMMA ApprovalAsked ==
  ASSUME ApprovalsInv, AsksTypeOK', UNCHANGED procVars, NEW r, NEW e,
         r \notin DOMAIN asks, DOMAIN asks' = DOMAIN asks \cup {r},
         \A q \in DOMAIN asks : asks'[q] = asks[q], asks'[r] = e, e.kind \in ApprovalKinds,
         approvals' = approvals \cup {r}
  PROVE  ApprovalsInv'
<1>1. Children' = Children /\ alive' = alive /\ child' = child
  BY DEF Children, procVars
<1>2. \A c, q : AnswersOn(c, q)' = AnswersOn(c, q)
  BY DEF AnswersOn, procVars
<1>3. \A q : IsWritten(q)' <=> IsWritten(q)
  BY <1>1, <1>2 DEF IsWritten
<1>4. \A c, q : HeldBy(c, q)' <=> HeldBy(c, q)
  BY DEF HeldBy, procVars
<1>5. ~IsWritten(r) /\ \A c \in Children : ~HeldBy(c, r)
  BY DEF ApprovalsInv, OwnersAsked
<1>6. ChildLives'
  BY <1>1 DEF ApprovalsInv, ChildLives
<1>7. OwnersAsked'
  BY <1>1, <1>3, <1>4 DEF ApprovalsInv, OwnersAsked
<1>8. SleepersInv'
  <2> SUFFICES ASSUME NEW c \in Children, NEW q \in DOMAIN asks', HeldBy(c, q)'
               PROVE  /\ asks'[q].kind \in ApprovalKinds => asks'[q].child \notin alive'
                      /\ asks'[q].kind \notin ApprovalKinds =>
                           ~IsWritten(q)' /\ \A d \in Children' \ {c} : ~HeldBy(d, q)'
    BY <1>1 DEF SleepersInv
  <2>1. q # r /\ q \in DOMAIN asks /\ asks'[q] = asks[q]
    BY <1>4, <1>5
  <2>2. HeldBy(c, q)
    BY <1>4
  <2>3. /\ asks[q].kind \in ApprovalKinds => asks[q].child \notin alive
        /\ asks[q].kind \notin ApprovalKinds =>
             ~IsWritten(q) /\ \A d \in Children \ {c} : ~HeldBy(d, q)
    BY <2>1, <2>2 DEF ApprovalsInv, SleepersInv
  <2> QED BY <1>1, <1>3, <1>4, <2>1, <2>3
<1>9. OnceInv'
  <2> SUFFICES ASSUME NEW q \in DOMAIN asks', NEW c \in Children, asks'[q].child = c
               PROVE  /\ \A i, j \in AnswersOn(c, q)' : i = j
                      /\ asks'[q].kind \in ApprovalKinds /\ c \in alive'
                           => (q \in approvals' <=> AnswersOn(c, q)' = {})
    BY <1>1 DEF OnceInv
  <2>1. CASE q = r
    <3>1. AnswersOn(c, q)' = {}
      BY <1>2, <1>5, <2>1 DEF IsWritten
    <3> QED BY <2>1, <3>1
  <2>2. CASE q # r
    <3>1. q \in DOMAIN asks /\ asks'[q] = asks[q]
      BY <2>2
    <3>2. /\ \A i, j \in AnswersOn(c, q) : i = j
          /\ asks[q].kind \in ApprovalKinds /\ c \in alive
               => (q \in approvals <=> AnswersOn(c, q) = {})
      BY <3>1 DEF ApprovalsInv, OnceInv
    <3> QED BY <1>1, <1>2, <2>2, <3>1, <3>2
  <2> QED BY <2>1, <2>2
<1>10. \A q \in approvals' : ~IsWritten(q)'
  BY <1>3, <1>5 DEF ApprovalsInv
<1> QED BY <1>6, <1>7, <1>8, <1>9, <1>10 DEF ApprovalsInv

-----------------------------------------------------------------------------
(* Each action is one of these.                                             *)

(* What a step of the client does to the manager's fields.                  *)
ClientShape ==
  \/ UNCHANGED procVars
  \/ \E m \in Messages : m.kind # "response" /\ SendMessage(m)
  \/ \E c \in Children : held[c] # NoMessage /\ held[c].kind # "response" /\ StartElapsed(c)
  \/ \E c \in Children : ProcExit(c)
  \/ ProcStop

LEMMA ClientStepShape ==
  ASSUME TypeOK, ClientStep
  PROVE  Next /\ ClientShape
<1>a. nextId \in Nat
  BY DEF TypeOK, ClientTypeOK
<1>1. ASSUME NEW k \in Calls, Begin(k) \/ Retry(k) PROVE Next /\ ClientShape
  <2>1. UNCHANGED procVars \/ SendMessage(Initialize(nextId))
    BY <1>1 DEF Begin, Retry, EnsureInitialized
  <2>2. Initialize(nextId) \in Messages /\ Initialize(nextId).kind # "response"
    BY <1>a, MessageTypes DEF Initialize
  <2>3. Next
    BY <1>1 DEF Next
  <2> QED BY <2>1, <2>2, <2>3 DEF ClientShape
<1>2. ASSUME NEW k \in Calls, SendRequest(k) PROVE Next /\ ClientShape
  <2>1. SendMessage(Request(nextId, k))
    BY <1>2 DEF SendRequest
  <2>2. Request(nextId, k) \in Messages /\ Request(nextId, k).kind # "response"
    BY <1>a, MessageTypes DEF Request
  <2>3. Next
    BY <1>2 DEF Next
  <2> QED BY <2>1, <2>2, <2>3 DEF ClientShape
<1>3. ASSUME NEW k \in Calls, RequestTimeout(k) PROVE Next /\ ClientShape
  BY <1>3 DEF RequestTimeout, Next, ClientShape
<1>4. ASSUME NEW c \in Children, held[c] # NoMessage, held[c].kind # "response", StartTimer(c)
      PROVE  Next /\ ClientShape
  BY <1>4 DEF StartTimer, Next, ClientShape
<1>5. ASSUME NEW c \in Children, Crash(c) \/ Stopped(c) PROVE Next /\ ClientShape
  BY <1>5 DEF Crash, Stopped, ExitHandlers, Next, ClientShape
<1>6. ASSUME NEW c \in Children, NEW i \in DOMAIN wire[c], CodexWelcomes(c, i)
      PROVE  Next /\ ClientShape
  <2>1. UNCHANGED procVars \/ SendMessage(Initialized)
    BY <1>6 DEF CodexWelcomes
  <2>2. Initialized \in Messages /\ Initialized.kind # "response"
    BY MessageTypes DEF Initialized
  <2>3. Next
    BY <1>6 DEF Next
  <2> QED BY <2>1, <2>2, <2>3 DEF ClientShape
<1>7. ASSUME NEW c \in Children, NEW i \in DOMAIN wire[c],
             CodexRejectsInitialize(c, i) \/ CodexServes(c, i) \/ CodexRefuses(c, i)
      PROVE  Next /\ ClientShape
  BY <1>7 DEF CodexRejectsInitialize, CodexServes, CodexRefuses, Next, ClientShape
<1>8. CASE InitializeTimeout
  BY <1>8 DEF InitializeTimeout, Next, ClientShape
<1>9. CASE Stop
  BY <1>9 DEF Stop, Next, ClientShape
<1>10. CASE \E k \in Calls : Begin(k) \/ Retry(k) \/ SendRequest(k) \/ RequestTimeout(k)
  BY <1>1, <1>2, <1>3, <1>10
<1>11. CASE \E c \in Children :
              \/ held[c] # NoMessage /\ held[c].kind # "response" /\ StartTimer(c)
              \/ Crash(c) \/ Stopped(c)
  BY <1>4, <1>5, <1>11
<1>12. CASE \E c \in Children : \E i \in DOMAIN wire[c] :
              \/ CodexWelcomes(c, i) \/ CodexRejectsInitialize(c, i)
              \/ CodexServes(c, i) \/ CodexRefuses(c, i)
  BY <1>6, <1>7, <1>12
<1>13. Next /\ ClientShape
  BY <1>8, <1>9, <1>10, <1>11, <1>12 DEF ClientStep
<1> QED BY <1>13

(* While requests stay as they are, so do their types.                      *)
LEMMA AsksTypeKept ==
  ASSUME AsksTypeOK, UNCHANGED asks, Children \subseteq Children', approvals' \subseteq approvals
  PROVE  AsksTypeOK'
BY DEF AsksTypeOK

(* A line that answers nothing.                                             *)
LEMMA NoAnswerSent ==
  ASSUME TypeOK, ApprovalsInv, NEW m \in Messages, m.kind # "response", SendMessage(m),
         UNCHANGED <<asks, approvals>>
  PROVE  ApprovalsInv'
<1>1. \A r : ~IsAnswer(m, r)
  BY DEF IsAnswer
<1>2. AsksKept
  BY DEF AsksKept
<1>3. AsksTypeOK
  BY DEF ApprovalsInv
<1>4. CASE WriteNow(m)
  <2>1. child \in Children
    BY <1>4 DEF WriteNow, TypeOK, ProcTypeOK, Children
  <2>2. AsksTypeOK'
    BY <1>3, <1>4, <2>1, AsksTypeKept, AppendedAnswers DEF WriteNow
  <2> QED BY <1>1, <1>2, <1>4, <2>2, LineWritten DEF WriteNow
<1>5. CASE SpawnFor(m)
  <2>1. AsksTypeOK'
    BY <1>3, <1>5, AsksTypeKept, SpawnedAnswers
  <2> QED BY <1>1, <1>2, <1>5, <2>1, ChildSpawned
<1> QED BY <1>4, <1>5 DEF SendMessage

(* The timer of start() with the message m, which it writes if there is a   *)
(* child.                                                                   *)
LEMMA TimerShape ==
  ASSUME TypeOK, NEW c \in Children, StartElapsed(c), NEW m, m = held[c]
  PROVE  /\ m \in Messages /\ UNCHANGED <<child, alive>>
         /\ \A d \in Children : held'[d] = IF d = c THEN NoMessage ELSE held[d]
         /\ wire' = IF child = 0 THEN wire ELSE [wire EXCEPT ![child] = Append(@, m)]
         /\ Children' = Children
<1>1. wire \in Seq(Seq(Messages)) /\ held \in Seq(Messages \cup {NoMessage}) /\ Len(held) = Len(wire)
  BY DEF TypeOK, ProcTypeOK
<1>2. Children = DOMAIN held
  BY <1>1 DEF Children
<1>3. held[c] \in Messages
  BY <1>1, <1>2 DEF StartElapsed
<1>4. Children' = Children
  BY <1>1 DEF StartElapsed, Children
<1> QED BY <1>1, <1>2, <1>3, <1>4 DEF StartElapsed

LEMMA ClientStepInv ==
  ASSUME TypeOK, OneProcess, ApprovalsInv, ClientStep
  PROVE  TypeOK' /\ OneProcess' /\ ApprovalsInv'
<1>a. TypeOK' /\ OneProcess'
  BY ClientStepShape, TypeStep, OneProcessStep
<1>b. UNCHANGED <<asks, approvals>>
  BY DEF ClientStep
<1>1. CASE UNCHANGED procVars
  <2>1. ChildLives'
    BY <1>1 DEF procVars, ApprovalsInv, ChildLives
  <2> QED BY <1>1, <1>a, <1>b, <2>1, NothingWritten DEF procVars
<1>2. ASSUME NEW m \in Messages, m.kind # "response", SendMessage(m)
      PROVE  ApprovalsInv'
  BY <1>2, <1>b, NoAnswerSent
<1>3. ASSUME NEW c \in Children, held[c] # NoMessage, held[c].kind # "response", StartElapsed(c)
      PROVE  ApprovalsInv'
  <2>1. PICK m : m = held[c]
    OBVIOUS
  <2>2. /\ m \in Messages /\ UNCHANGED <<child, alive>>
        /\ \A d \in Children : held'[d] = IF d = c THEN NoMessage ELSE held[d]
        /\ wire' = IF child = 0 THEN wire ELSE [wire EXCEPT ![child] = Append(@, m)]
        /\ Children' = Children
    BY <1>3, <2>1, TimerShape
  <2>3. CASE child = 0
    <3>1. ChildLives'
      BY <2>2, <2>3 DEF ChildLives
    <3> QED BY <1>b, <2>2, <2>3, <3>1, NothingWritten
  <2>4. CASE child # 0
    <3>1. \A r : ~IsAnswer(m, r)
      BY <1>3, <2>1 DEF IsAnswer
    <3>2. AsksTypeOK' /\ AsksKept
      BY <1>b, <2>2, AsksTypeKept DEF ApprovalsInv, AsksKept
    <3> QED BY <1>b, <2>2, <2>4, <3>1, <3>2, LineWritten
  <2> QED BY <2>3, <2>4
<1>4. ASSUME NEW c \in Children, ProcExit(c)
      PROVE  ApprovalsInv'
  <2>1. ChildLives'
    BY <1>4 DEF ProcExit, ChildLives
  <2> QED BY <1>4, <1>b, <2>1, NothingWritten DEF ProcExit
<1>5. CASE ProcStop
  <2>1. ChildLives'
    BY <1>5 DEF ProcStop, ChildLives
  <2> QED BY <1>5, <1>a, <1>b, <2>1, NothingWritten DEF ProcStop
<1>6. ApprovalsInv'
  BY <1>1, <1>2, <1>3, <1>4, <1>5, ClientStepShape DEF ClientShape
<1> QED BY <1>a, <1>6

(* A message sent without another change to the client keeps the types.     *)
LEMMA AnswerTypes ==
  ASSUME TypeOK, OneProcess, NEW m \in Messages, SendMessage(m) \/ UNCHANGED procVars,
         UNCHANGED <<clientVars, codexVars, crashes, phase>>
  PROVE  TypeOK' /\ OneProcess'
<1>1. CASE SendMessage(m)
  <2>1. ProcTypeOK'
    BY <1>1, SendMessageType DEF TypeOK
  <2>2. ClientTypeOK'
    BY DEF TypeOK, ClientTypeOK, clientVars, codexVars
  <2> QED BY <1>1, <2>1, <2>2, SendMessageOneProcess DEF TypeOK
<1>2. CASE UNCHANGED procVars
  BY <1>2 DEF TypeOK, ClientTypeOK, ProcTypeOK, OneProcess, procVars, clientVars, codexVars
<1> QED BY <1>1, <1>2

(* The timer of start() with a decision or a refusal that slept on it.      *)
LEMMA RespondElapsedInv ==
  ASSUME TypeOK, OneProcess, ApprovalsInv, NEW c \in Children, RespondElapsed(c)
  PROVE  TypeOK' /\ OneProcess' /\ ApprovalsInv'
<1>a. TypeOK' /\ OneProcess'
  <2>1. Next
    BY DEF RespondElapsed, Next
  <2> QED BY <2>1, TypeStep, OneProcessStep
<1>1. PICK m : m = held[c]
  OBVIOUS
<1>2. PICK r : r = m.owner
  OBVIOUS
<1>3. /\ held[c] # NoMessage /\ StartElapsed(c) /\ UNCHANGED asks
      /\ approvals' = approvals \ {r}
      /\ \A q : IsAnswer(m, q) <=> q = r
  BY <1>1, <1>2 DEF RespondElapsed, StartTimer, IsAnswer
<1>4. /\ m \in Messages /\ UNCHANGED <<child, alive>>
      /\ \A d \in Children : held'[d] = IF d = c THEN NoMessage ELSE held[d]
      /\ wire' = IF child = 0 THEN wire ELSE [wire EXCEPT ![child] = Append(@, m)]
      /\ Children' = Children
  BY <1>1, <1>3, TimerShape
<1>5. HeldBy(c, r)
  BY <1>1, <1>3 DEF HeldBy
<1>6. r \in DOMAIN asks
  BY <1>5 DEF ApprovalsInv, OwnersAsked
<1>7. /\ asks[r].kind \in ApprovalKinds => asks[r].child \notin alive
      /\ asks[r].kind \notin ApprovalKinds =>
           ~IsWritten(r) /\ \A d \in Children \ {c} : ~HeldBy(d, r)
  BY <1>5, <1>6 DEF ApprovalsInv, SleepersInv
<1>8. AsksTypeOK' /\ AsksKept
  BY <1>3, <1>4, AsksTypeKept DEF ApprovalsInv, AsksKept
<1>9. CASE child = 0
  <2>1. ChildLives'
    BY <1>4, <1>9 DEF ChildLives
  <2>2. \A q \in approvals \ approvals' : asks[q].child \notin alive
    BY <1>3, <1>7 DEF ApprovalsInv, AsksTypeOK
  <2>3. \A d \in Children : held'[d] \in {held[d], NoMessage}
    BY <1>4
  <2> QED BY <1>a, <1>3, <1>4, <1>9, <2>1, <2>2, <2>3, NothingWritten
<1>10. CASE child # 0
  <2>1. asks[r].kind \notin ApprovalKinds => \A d \in Children : ~HeldBy(d, r)'
    BY <1>4, <1>7 DEF HeldBy
  <2>2. \A d \in Children : held'[d] \in {held[d], NoMessage}
    BY <1>4
  <2>3. \A q : IsAnswer(m, q) =>
           /\ q \in DOMAIN asks'
           /\ asks'[q].kind \in ApprovalKinds /\ asks'[q].child \in alive
                => asks'[q].child = child /\ q \in approvals
           /\ asks'[q].kind \notin ApprovalKinds
                => ~IsWritten(q) /\ \A d \in Children : ~HeldBy(d, q)'
    BY <1>3, <1>6, <1>7, <2>1
  <2> QED BY <1>a, <1>3, <1>4, <1>8, <1>10, <2>2, <2>3, LineWritten
<1> QED BY <1>9, <1>10

(* What codex asks is appended to asks.                                     *)
LEMMA AskShape ==
  ASSUME TypeOK, ApprovalsInv, NEW c \in Children, NEW kind \in ApprovalKinds \cup {"other"},
         CodexAsks(c, kind), NEW r, r = Len(asks) + 1
  PROVE  \E id \in Nat, seen \in DOMAIN wire[c] :
         /\ id = Cardinality({q \in DOMAIN asks : asks[q].child = c})
         /\ asks' = Append(asks, [child |-> c, id |-> id, kind |-> kind, seen |-> seen])
         /\ r \in Nat /\ r \notin DOMAIN asks /\ DOMAIN asks' = DOMAIN asks \cup {r}
         /\ \A q \in DOMAIN asks : asks'[q] = asks[q]
         /\ asks'[r] = [child |-> c, id |-> id, kind |-> kind, seen |-> seen]
         /\ HandleServerRequest(kind, id, r)
         /\ UNCHANGED <<clientVars, codexVars, crashes, phase>>
         /\ \A q \in DOMAIN asks' : asks'[q].child \in Children
         /\ asks' \in Seq(AskRecords)
<1> DEFINE mine == {q \in DOMAIN asks : asks[q].child = c}
<1>1. asks \in Seq(AskRecords) /\ \A q \in DOMAIN asks : asks[q].child \in Children
  BY DEF ApprovalsInv, AsksTypeOK
<1>2. PICK id : id = Cardinality(mine)
  OBVIOUS
<1>3. id \in Nat
  <2>1. DOMAIN asks = 1..Len(asks) /\ Len(asks) \in Nat
    BY <1>1
  <2>2. IsFiniteSet(DOMAIN asks)
    BY <2>1, FS_Interval
  <2>3. IsFiniteSet(mine)
    BY <2>2, FS_Subset
  <2> QED BY <1>2, <2>3, FS_CardinalityType
<1>4. PICK seen \in DOMAIN wire[c] :
        asks' = Append(asks, [child |-> c, id |-> id, kind |-> kind, seen |-> seen])
  BY <1>2 DEF CodexAsks
<1>5. /\ HandleServerRequest(kind, id, r)
      /\ UNCHANGED <<clientVars, codexVars, crashes, phase>>
  BY <1>2 DEF CodexAsks
<1>6. PICK e : e = [child |-> c, id |-> id, kind |-> kind, seen |-> seen]
  OBVIOUS
<1>7. e \in AskRecords
  <2>1. c \in Nat /\ seen \in Nat
    BY DEF TypeOK, ProcTypeOK, Children
  <2> QED BY <1>3, <1>6, <2>1 DEF AskRecords
<1>8. /\ r \in Nat /\ r \notin DOMAIN asks /\ DOMAIN asks' = DOMAIN asks \cup {r}
      /\ \A q \in DOMAIN asks : asks'[q] = asks[q]
      /\ asks'[r] = e /\ asks' \in Seq(AskRecords)
  BY <1>1, <1>4, <1>6, <1>7
<1>9. e.child = c
  BY <1>6
<1>10. \A q \in DOMAIN asks' : asks'[q].child \in Children
  BY <1>1, <1>8, <1>9
<1> QED BY <1>2, <1>3, <1>4, <1>5, <1>6, <1>8, <1>10

(* codex asks: an approval is stored, anything else is refused.             *)
LEMMA CodexAsksInv ==
  ASSUME TypeOK, OneProcess, ApprovalsInv, NEW c \in Children,
         NEW kind \in ApprovalKinds \cup {"other"}, CodexAsks(c, kind)
  PROVE  TypeOK' /\ OneProcess' /\ ApprovalsInv'
<1>1. PICK r : r = Len(asks) + 1
  OBVIOUS
<1>2. PICK id \in Nat, seen \in DOMAIN wire[c] :
         /\ asks' = Append(asks, [child |-> c, id |-> id, kind |-> kind, seen |-> seen])
         /\ r \in Nat /\ r \notin DOMAIN asks /\ DOMAIN asks' = DOMAIN asks \cup {r}
         /\ \A q \in DOMAIN asks : asks'[q] = asks[q]
         /\ asks'[r] = [child |-> c, id |-> id, kind |-> kind, seen |-> seen]
         /\ HandleServerRequest(kind, id, r)
         /\ UNCHANGED <<clientVars, codexVars, crashes, phase>>
         /\ \A q \in DOMAIN asks' : asks'[q].child \in Children
         /\ asks' \in Seq(AskRecords)
  BY <1>1, AskShape
<1>3. PICK m : m = [kind |-> "response", id |-> id, owner |-> r]
  OBVIOUS
<1>4. m \in Messages /\ \A q : IsAnswer(m, q) <=> q = r
  BY <1>2, <1>3 DEF Messages, IsAnswer
<1>5. CASE kind \in ApprovalKinds /\ approvals' = approvals \cup {r} /\ UNCHANGED procVars
  <2>1. TypeOK' /\ OneProcess'
    BY <1>2, <1>4, <1>5, AnswerTypes
  <2>2. Children' = Children
    BY <1>5 DEF procVars, Children
  <2>3. \A q \in approvals' : q \in DOMAIN asks' /\ asks'[q].kind \in ApprovalKinds
    BY <1>2, <1>5 DEF ApprovalsInv, AsksTypeOK
  <2>4. AsksTypeOK'
    BY <1>2, <2>2, <2>3 DEF AsksTypeOK
  <2> QED BY <1>2, <1>5, <2>1, <2>4, ApprovalAsked
<1>6. CASE kind \notin ApprovalKinds /\ SendMessage(m) /\ UNCHANGED approvals
  <2>1. TypeOK' /\ OneProcess'
    BY <1>2, <1>4, <1>6, AnswerTypes
  <2>2. AsksKept
    BY <1>2, <1>6 DEF AsksKept
  <2>3. r \notin approvals /\ ~IsWritten(r) /\ \A d \in Children : ~HeldBy(d, r)
    BY <1>2 DEF ApprovalsInv, AsksTypeOK, OwnersAsked
  <2>4. ASSUME Children \subseteq Children'
        PROVE  AsksTypeOK'
    <3>1. \A q \in approvals' : q \in DOMAIN asks' /\ asks'[q].kind \in ApprovalKinds
      BY <1>2, <1>6 DEF ApprovalsInv, AsksTypeOK
    <3> QED BY <1>2, <2>4, <3>1 DEF AsksTypeOK
  <2>5. asks'[r].kind \notin ApprovalKinds /\ r \in DOMAIN asks'
    BY <1>2, <1>6
  <2>6. CASE WriteNow(m)
    <3>1. child \in Children
      BY <2>6 DEF WriteNow, TypeOK, ProcTypeOK, Children
    <3>2. Children' = Children
      BY <1>4, <2>6, <3>1, AppendedAnswers DEF WriteNow
    <3>3. \A d \in Children : ~HeldBy(d, r)'
      BY <2>3, <2>6 DEF WriteNow, HeldBy
    <3>4. AsksTypeOK'
      BY <2>4, <3>2
    <3> QED BY <1>4, <1>6, <2>1, <2>2, <2>3, <2>5, <2>6, <3>3, <3>4, LineWritten DEF WriteNow
  <2>7. CASE SpawnFor(m)
    <3>1. AsksTypeOK'
      BY <1>4, <2>4, <2>7, SpawnedAnswers
    <3> QED BY <1>4, <1>6, <2>1, <2>2, <2>3, <2>5, <2>7, <3>1, ChildSpawned
  <2> QED BY <1>6, <2>6, <2>7 DEF SendMessage
<1> QED BY <1>2, <1>3, <1>5, <1>6 DEF HandleServerRequest

(* A decision: with a child its entry goes, and if the codex that asked     *)
(* lives it is that child.                                                  *)
LEMMA ApproveInv ==
  ASSUME TypeOK, OneProcess, ApprovalsInv, NEW kind \in ApprovalKinds, NEW r \in DOMAIN asks,
         Approve(kind, r)
  PROVE  TypeOK' /\ OneProcess' /\ ApprovalsInv'
<1>1. PICK m : m = Response(r)
  OBVIOUS
<1>2. m \in Messages /\ \A q : IsAnswer(m, q) <=> q = r
  <2>1. asks[r].id \in Nat /\ r \in Nat
    <3>1. asks \in Seq(AskRecords)
      BY DEF ApprovalsInv, AsksTypeOK
    <3>2. asks[r] \in AskRecords /\ r \in Nat
      BY <3>1
    <3> QED BY <3>2 DEF AskRecords
  <2> QED BY <1>1, <2>1 DEF Messages, IsAnswer, Response
<1>3. /\ r \in approvals /\ asks[r].kind \in ApprovalKinds /\ SendMessage(m)
      /\ approvals' = IF child # 0 THEN approvals \ {r} ELSE approvals
      /\ UNCHANGED <<clientVars, codexVars, crashes, phase, asks>>
      /\ alive = (IF child = 0 THEN {} ELSE {child})
  BY <1>1 DEF Approve, OneProcess
<1>4. TypeOK' /\ OneProcess'
  BY <1>2, <1>3, AnswerTypes
<1>5. AsksKept
  BY <1>3 DEF AsksKept
<1>6. CASE WriteNow(m)
  <2>1. child \in Children /\ child # 0
    BY <1>6 DEF WriteNow, TypeOK, ProcTypeOK, Children
  <2>2. Children' = Children
    BY <1>2, <1>6, <2>1, AppendedAnswers DEF WriteNow
  <2>3. AsksTypeOK'
    BY <1>3, <2>2, AsksTypeKept DEF ApprovalsInv
  <2>4. \A q : IsAnswer(m, q) =>
           /\ q \in DOMAIN asks'
           /\ asks'[q].kind \in ApprovalKinds /\ asks'[q].child \in alive
                => asks'[q].child = child /\ q \in approvals
           /\ asks'[q].kind \notin ApprovalKinds
                => ~IsWritten(q) /\ \A d \in Children : ~HeldBy(d, q)'
    BY <1>2, <1>3, <2>1
  <2> QED BY <1>2, <1>3, <1>4, <1>5, <1>6, <2>1, <2>3, <2>4, LineWritten DEF WriteNow
<1>7. CASE SpawnFor(m)
  <2>1. child = 0
    BY <1>7 DEF SpawnFor
  <2>2. PICK n : n = Len(wire) + 1
    OBVIOUS
  <2>3. n \notin Children /\ Children' = Children \cup {n} /\ alive' = {n}
    BY <1>2, <1>3, <1>7, <2>1, <2>2, SpawnedAnswers DEF SpawnFor
  <2>4. AsksTypeOK'
    BY <1>3, <2>1, <2>3, AsksTypeKept DEF ApprovalsInv
  <2>5. asks'[r].child \notin alive'
    BY <1>3, <2>3 DEF ApprovalsInv, AsksTypeOK
  <2> QED BY <1>2, <1>3, <1>4, <1>5, <1>7, <2>1, <2>4, <2>5, ChildSpawned
<1> QED BY <1>3, <1>6, <1>7 DEF SendMessage

LEMMA InitApprovalsInv ==
  ASSUME ApprovalsInit
  PROVE  TypeOK /\ OneProcess /\ ApprovalsInv
<1>1. Init /\ DOMAIN asks = {} /\ asks = <<>> /\ approvals = {}
  BY DEF ApprovalsInit
<1>2. Children = {} /\ child = 0
  BY <1>1 DEF Init, ProcInit, Children
<1>3. TypeOK
  BY <1>1, InitType
<1>4. OneProcess
  BY <1>1 DEF Init, ProcInit, OneProcess
<1>5. AsksTypeOK
  <2>1. asks \in Seq(AskRecords)
    BY <1>1
  <2> QED BY <1>1, <2>1 DEF AsksTypeOK
<1>6. ApprovalsInv
  BY <1>1, <1>2, <1>5 DEF ApprovalsInv, ChildLives, OwnersAsked, SleepersInv, OnceInv, IsWritten
<1> QED BY <1>3, <1>4, <1>6

LEMMA ApprovalsStep ==
  ASSUME TypeOK, OneProcess, ApprovalsInv, [ApprovalsNext]_allVars
  PROVE  TypeOK' /\ OneProcess' /\ ApprovalsInv'
<1>1. CASE ClientStep
  BY <1>1, ClientStepInv
<1>2. ASSUME NEW c \in Children, RespondElapsed(c) PROVE TypeOK' /\ OneProcess' /\ ApprovalsInv'
  BY <1>2, RespondElapsedInv
<1>3. ASSUME NEW c \in Children, NEW kind \in ApprovalKinds \cup {"other"}, CodexAsks(c, kind)
      PROVE  TypeOK' /\ OneProcess' /\ ApprovalsInv'
  BY <1>3, CodexAsksInv
<1>4. ASSUME NEW kind \in ApprovalKinds, NEW r \in DOMAIN asks, Approve(kind, r)
      PROVE  TypeOK' /\ OneProcess' /\ ApprovalsInv'
  BY <1>4, ApproveInv
<1>5. CASE UNCHANGED allVars
  <2>1. TypeOK' /\ OneProcess'
    BY <1>5, TypeStep, OneProcessStep DEF allVars
  <2>2. ChildLives'
    BY <1>5 DEF allVars, vars, procVars, ApprovalsInv, ChildLives
  <2> QED BY <1>5, <2>1, <2>2, NothingWritten DEF allVars, vars, procVars
<1> QED BY <1>1, <1>2, <1>3, <1>4, <1>5 DEF ApprovalsNext

(* So all of it holds in every reachable state.                             *)
LEMMA ApprovalsAlways == ApprovalsSpec => [](TypeOK /\ OneProcess /\ ApprovalsInv)
<1>1. ApprovalsInit => TypeOK /\ OneProcess /\ ApprovalsInv
  BY InitApprovalsInv
<1>2. TypeOK /\ OneProcess /\ ApprovalsInv /\ [ApprovalsNext]_allVars
        => (TypeOK /\ OneProcess /\ ApprovalsInv)'
  BY ApprovalsStep
<1> QED BY <1>1, <1>2, PTL DEF ApprovalsSpec

-----------------------------------------------------------------------------
(* The ids.  Codex reads an answer by its id alone; what ties that to the   *)
(* request the answer was made for: a codex has one request of each id, an  *)
(* answer has the id of its request, and, on the stdin of the codex that    *)
(* asked, is a line this codex had not seen when it asked.                  *)

Mine(c) == {r \in DOMAIN asks : asks[r].child = c}

IdsAsked ==
  /\ \A r \in DOMAIN asks : asks[r].id \in Nat /\ asks[r].id < Cardinality(Mine(asks[r].child))
  /\ \A q, r \in DOMAIN asks : asks[q].child = asks[r].child /\ asks[q].id = asks[r].id => q = r
  /\ \A r \in DOMAIN asks : asks[r].seen \in DOMAIN wire[asks[r].child]

IdsAnswered ==
  /\ \A c \in Children : \A i \in DOMAIN wire[c] :
       wire[c][i].kind = "response" => wire[c][i].id = asks[wire[c][i].owner].id
  /\ \A c \in Children :
       held[c] # NoMessage /\ held[c].kind = "response" => held[c].id = asks[held[c].owner].id

UnseenInv ==
  \A r \in DOMAIN asks, c \in Children : asks[r].child = c =>
    \A i \in AnswersOn(c, r) : asks[r].seen < i

MatchInv == IdsAsked /\ IdsAnswered /\ UnseenInv

(* What a step adds to the wires and the timers is the message m.           *)
Lines(m) ==
  /\ \A c \in Children : c \in Children' /\ DOMAIN wire[c] \subseteq DOMAIN wire'[c]
  /\ \A c \in Children' : \A i \in DOMAIN wire'[c] :
       \/ c \in Children /\ i \in DOMAIN wire[c] /\ wire'[c][i] = wire[c][i]
       \/ wire'[c][i] = m /\ (c \in Children => \A j \in DOMAIN wire[c] : j < i)
  /\ \A c \in Children' :
       \/ held'[c] \in {NoMessage, m}
       \/ c \in Children /\ held'[c] = held[c]

LEMMA LineAppended ==
  ASSUME TypeOK, NEW d \in Children, NEW m \in Messages,
         wire' = [wire EXCEPT ![d] = Append(@, m)]
  PROVE  /\ Children' = Children
         /\ \A c \in Children : c # d => wire'[c] = wire[c]
         /\ wire'[d] = Append(wire[d], m)
         /\ DOMAIN wire'[d] = DOMAIN wire[d] \cup {Len(wire[d]) + 1}
         /\ \A i \in DOMAIN wire[d] : wire'[d][i] = wire[d][i] /\ i < Len(wire[d]) + 1
         /\ wire'[d][Len(wire[d]) + 1] = m
         /\ Len(wire[d]) + 1 \notin DOMAIN wire[d]
<1>1. wire \in Seq(Seq(Messages)) /\ wire[d] \in Seq(Messages) /\ Children = DOMAIN wire
  BY DEF TypeOK, ProcTypeOK, Children
<1>2. /\ Children' = Children
      /\ \A c \in Children : c # d => wire'[c] = wire[c]
      /\ wire'[d] = Append(wire[d], m)
  BY <1>1 DEF Children
<1>3. PICK s : s = wire[d]
  OBVIOUS
<1>4. /\ DOMAIN Append(s, m) = DOMAIN s \cup {Len(s) + 1}
      /\ \A i \in DOMAIN s : Append(s, m)[i] = s[i] /\ i < Len(s) + 1
      /\ Append(s, m)[Len(s) + 1] = m
      /\ Len(s) + 1 \notin DOMAIN s
  BY <1>1, <1>3
<1> QED BY <1>2, <1>3, <1>4

LEMMA LinesAppended ==
  ASSUME TypeOK, NEW d \in Children, NEW m \in Messages,
         wire' = [wire EXCEPT ![d] = Append(@, m)],
         \A c \in Children : held'[c] \in {NoMessage, held[c]}
  PROVE  Lines(m)
<1>1. PICK n : n = Len(wire[d]) + 1
  OBVIOUS
<1>2. /\ Children' = Children
      /\ \A c \in Children : c # d => wire'[c] = wire[c]
      /\ DOMAIN wire'[d] = DOMAIN wire[d] \cup {n}
      /\ \A i \in DOMAIN wire[d] : wire'[d][i] = wire[d][i] /\ i < n
      /\ wire'[d][n] = m
  <2>1. /\ Children' = Children
        /\ \A c \in Children : c # d => wire'[c] = wire[c]
        /\ wire'[d] = Append(wire[d], m)
        /\ DOMAIN wire'[d] = DOMAIN wire[d] \cup {Len(wire[d]) + 1}
        /\ \A i \in DOMAIN wire[d] : wire'[d][i] = wire[d][i] /\ i < Len(wire[d]) + 1
        /\ wire'[d][Len(wire[d]) + 1] = m
        /\ Len(wire[d]) + 1 \notin DOMAIN wire[d]
    BY LineAppended
  <2> QED BY <1>1, <2>1
<1>3. \A c \in Children : DOMAIN wire[c] \subseteq DOMAIN wire'[c]
  BY <1>2
<1>4. ASSUME NEW c \in Children, NEW i \in DOMAIN wire'[c]
      PROVE  \/ i \in DOMAIN wire[c] /\ wire'[c][i] = wire[c][i]
             \/ wire'[c][i] = m /\ \A j \in DOMAIN wire[c] : j < i
  <2>1. CASE c # d
    BY <1>2, <1>4, <2>1
  <2>2. CASE c = d
    BY <1>2, <1>4, <2>2
  <2> QED BY <2>1, <2>2
<1> QED BY <1>2, <1>3, <1>4 DEF Lines

LEMMA LinesSent ==
  ASSUME TypeOK, NEW m \in Messages, SendMessage(m)
  PROVE  Lines(m)
<1>1. CASE WriteNow(m)
  <2>1. PICK d : d = child
    OBVIOUS
  <2>2. d \in Children /\ wire' = [wire EXCEPT ![d] = Append(@, m)] /\ held' = held
    BY <1>1, <2>1 DEF WriteNow, TypeOK, ProcTypeOK, Children
  <2> QED BY <2>2, LinesAppended
<1>2. CASE SpawnFor(m)
  <2>1. /\ wire \in Seq(Seq(Messages)) /\ held \in Seq(Messages \cup {NoMessage})
        /\ Len(held) = Len(wire) /\ Children = DOMAIN wire
        /\ wire' = Append(wire, <<>>) /\ held' = Append(held, m)
    BY <1>2 DEF TypeOK, ProcTypeOK, Children, SpawnFor
  <2>2. PICK n : n = Len(wire) + 1
    OBVIOUS
  <2>3. /\ n \notin Children /\ Children' = Children \cup {n}
        /\ \A c \in Children : wire'[c] = wire[c] /\ held'[c] = held[c]
        /\ wire'[n] = <<>> /\ held'[n] = m
    BY <2>1, <2>2 DEF Children
  <2>4. DOMAIN wire'[n] = {}
    BY <2>3
  <2> QED BY <2>3, <2>4 DEF Lines
<1> QED BY <1>1, <1>2 DEF SendMessage

LEMMA LinesElapsed ==
  ASSUME TypeOK, NEW c \in Children, StartElapsed(c), NEW m, m = held[c]
  PROVE  Lines(m)
<1>1. /\ m \in Messages
      /\ \A d \in Children : held'[d] \in {NoMessage, held[d]}
      /\ wire' = IF child = 0 THEN wire ELSE [wire EXCEPT ![child] = Append(@, m)]
      /\ Children' = Children
  BY TimerShape
<1>2. CASE child = 0
  BY <1>1, <1>2 DEF Lines
<1>3. CASE child # 0
  <2>1. PICK d : d = child
    OBVIOUS
  <2>2. d \in Children /\ wire' = [wire EXCEPT ![d] = Append(@, m)]
    BY <1>1, <1>3, <2>1 DEF TypeOK, ProcTypeOK, Children
  <2> QED BY <1>1, <2>2, LinesAppended
<1> QED BY <1>2, <1>3

LEMMA LinesKept ==
  ASSUME UNCHANGED <<wire, held>>, NEW m
  PROVE  Lines(m)
BY DEF Lines, Children

(* The new line is no answer, or the answer to a request by its id; the     *)
(* requests stay as they are, and new ones have ids of their own.           *)
LEMMA MatchKept ==
  ASSUME TypeOK, ApprovalsInv, MatchInv, NEW m, Lines(m),
         m.kind = "response" => m.owner \in DOMAIN asks' /\ m.id = asks'[m.owner].id,
         IdsAsked', AsksTypeOK',
         \A r \in DOMAIN asks : r \in DOMAIN asks' /\ asks'[r] = asks[r],
         \A r \in DOMAIN asks' : /\ asks'[r].child \in Children
                                 /\ asks'[r].seen \in DOMAIN wire[asks'[r].child]
  PROVE  MatchInv'
<1>1. ASSUME NEW c \in Children, NEW i \in DOMAIN wire[c], wire[c][i].kind = "response"
      PROVE  /\ wire[c][i].owner \in DOMAIN asks
             /\ wire[c][i].id = asks'[wire[c][i].owner].id
  <2>1. PICK q : q = wire[c][i].owner
    OBVIOUS
  <2>2. i \in AnswersOn(c, q)
    BY <1>1, <2>1 DEF AnswersOn, IsAnswer
  <2>3. q \in DOMAIN asks
    BY <2>2 DEF ApprovalsInv, OwnersAsked, IsWritten
  <2> QED BY <1>1, <2>1, <2>3 DEF MatchInv, IdsAnswered
<1>2. ASSUME NEW c \in Children, held[c] # NoMessage, held[c].kind = "response"
      PROVE  held[c].id = asks'[held[c].owner].id
  <2>1. PICK q : q = held[c].owner
    OBVIOUS
  <2>2. HeldBy(c, q)
    BY <1>2, <2>1 DEF HeldBy, IsAnswer
  <2>3. q \in DOMAIN asks
    BY <2>2 DEF ApprovalsInv, OwnersAsked
  <2> QED BY <1>2, <2>1, <2>3 DEF MatchInv, IdsAnswered
<1>3. IdsAnswered'
  <2>1. ASSUME NEW c \in Children', NEW i \in DOMAIN wire'[c], wire'[c][i].kind = "response"
        PROVE  wire'[c][i].id = asks'[wire'[c][i].owner].id
    BY <1>1, <2>1 DEF Lines
  <2>2. ASSUME NEW c \in Children', held'[c] # NoMessage, held'[c].kind = "response"
        PROVE  held'[c].id = asks'[held'[c].owner].id
    BY <1>2, <2>2 DEF Lines
  <2> QED BY <2>1, <2>2 DEF IdsAnswered
<1>4. UnseenInv'
  <2> SUFFICES ASSUME NEW r \in DOMAIN asks', NEW c \in Children', asks'[r].child = c,
                      NEW i \in AnswersOn(c, r)'
               PROVE  asks'[r].seen < i
    BY DEF UnseenInv
  <2>1. i \in DOMAIN wire'[c] /\ wire'[c][i].kind = "response" /\ wire'[c][i].owner = r
        /\ c \in Children
    BY DEF AnswersOn, IsAnswer
  <2>2. CASE i \in DOMAIN wire[c] /\ wire'[c][i] = wire[c][i]
    <3>1. r \in DOMAIN asks /\ asks'[r] = asks[r]
      BY <1>1, <2>1, <2>2
    <3>2. i \in AnswersOn(c, r)
      BY <2>1, <2>2 DEF AnswersOn, IsAnswer
    <3> QED BY <2>1, <3>1, <3>2 DEF MatchInv, UnseenInv
  <2>3. CASE \A j \in DOMAIN wire[c] : j < i
    BY <2>1, <2>3
  <2> QED BY <2>1, <2>2, <2>3 DEF Lines
<1> QED BY <1>3, <1>4 DEF MatchInv

LEMMA IdsAskedKept ==
  ASSUME ApprovalsInv, MatchInv, UNCHANGED asks, NEW m, Lines(m)
  PROVE  /\ IdsAsked'
         /\ \A r \in DOMAIN asks' : /\ asks'[r].child \in Children
                                    /\ asks'[r].seen \in DOMAIN wire[asks'[r].child]
<1>1. \A c : Mine(c)' = Mine(c)
  BY DEF Mine
<1>2. \A r \in DOMAIN asks : /\ asks[r].child \in Children
                             /\ asks[r].seen \in DOMAIN wire[asks[r].child]
  BY DEF ApprovalsInv, AsksTypeOK, MatchInv, IdsAsked
<1>3. \A r \in DOMAIN asks : asks[r].seen \in DOMAIN wire'[asks[r].child]
  BY <1>2 DEF Lines
<1> QED BY <1>1, <1>2, <1>3 DEF MatchInv, IdsAsked

(* A request has the next id of its codex.                                  *)
LEMMA IdsAskedGrow ==
  ASSUME ApprovalsInv, MatchInv, NEW m, Lines(m), NEW r, NEW c \in Children, NEW e,
         r \notin DOMAIN asks, DOMAIN asks' = DOMAIN asks \cup {r},
         \A q \in DOMAIN asks : asks'[q] = asks[q],
         asks'[r] = e, e.child = c, e.id = Cardinality(Mine(c)), e.seen \in DOMAIN wire[c]
  PROVE  /\ IdsAsked'
         /\ \A q \in DOMAIN asks' : /\ asks'[q].child \in Children
                                    /\ asks'[q].seen \in DOMAIN wire[asks'[q].child]
<1>1. /\ \A q \in DOMAIN asks : /\ asks[q].child \in Children
                                /\ asks[q].seen \in DOMAIN wire[asks[q].child]
                                /\ asks[q].id \in Nat
                                /\ asks[q].id < Cardinality(Mine(asks[q].child))
      /\ \A p, q \in DOMAIN asks : asks[p].child = asks[q].child /\ asks[p].id = asks[q].id => p = q
  BY DEF ApprovalsInv, AsksTypeOK, MatchInv, IdsAsked
<1>2. /\ Mine(c)' = Mine(c) \cup {r}
      /\ \A d : d # c => Mine(d)' = Mine(d)
      /\ r \notin Mine(c)
  BY DEF Mine
<1>3. Cardinality(Mine(c)) \in Nat /\ Cardinality(Mine(c)') = Cardinality(Mine(c)) + 1
  <2>1. DOMAIN asks = 1..Len(asks) /\ Len(asks) \in Nat
    BY DEF ApprovalsInv, AsksTypeOK
  <2>2. IsFiniteSet(DOMAIN asks)
    BY <2>1, FS_Interval
  <2>3. IsFiniteSet(Mine(c))
    BY <2>2, FS_Subset DEF Mine
  <2>4. Cardinality(Mine(c)) \in Nat
    BY <2>3, FS_CardinalityType
  <2>5. Cardinality(Mine(c) \cup {r}) = Cardinality(Mine(c)) + 1
    BY <1>2, <2>3, FS_AddElement
  <2> QED BY <1>2, <2>4, <2>5
<1>4. PICK n : n = Cardinality(Mine(c))
  OBVIOUS
<1>5. n \in Nat /\ e.id = n /\ Cardinality(Mine(c)') = n + 1
  BY <1>3, <1>4
<1>6. ASSUME NEW q \in DOMAIN asks, NEW d, d = asks[q].child
      PROVE  asks[q].id < Cardinality(Mine(d)') /\ (d = c => asks[q].id < n)
  <2>1. CASE d = c
    <3>1. PICK k : k = asks[q].id
      OBVIOUS
    <3>2. k \in Nat /\ k < n
      BY <1>1, <1>4, <1>6, <2>1, <3>1
    <3>3. k < n + 1
      BY <1>5, <3>2
    <3> QED BY <1>5, <2>1, <3>1, <3>2, <3>3
  <2>2. CASE d # c
    <3>1. Mine(d)' = Mine(d)
      BY <1>2, <2>2
    <3> QED BY <1>1, <1>6, <2>2, <3>1
  <2> QED BY <2>1, <2>2
<1>7. ASSUME NEW q \in DOMAIN asks', NEW d, d = asks'[q].child
      PROVE  /\ asks'[q].id \in Nat /\ asks'[q].id < Cardinality(Mine(d)')
             /\ d \in Children /\ asks'[q].seen \in DOMAIN wire[d]
  <2>1. CASE q = r
    <3>1. d = c /\ asks'[q].id = n /\ n < n + 1
      BY <1>5, <1>7, <2>1
    <3> QED BY <1>5, <2>1, <3>1
  <2>2. CASE q \in DOMAIN asks
    BY <1>1, <1>6, <1>7, <2>2
  <2> QED BY <2>1, <2>2
<1>8. ASSUME NEW p \in DOMAIN asks', NEW q \in DOMAIN asks',
             asks'[p].child = asks'[q].child, asks'[p].id = asks'[q].id
      PROVE  p = q
  <2>1. \A s \in DOMAIN asks : asks[s].child = c => asks[s].id # n
    BY <1>1, <1>5, <1>6
  <2>2. CASE p = r /\ q # r
    BY <1>5, <1>8, <2>1, <2>2
  <2>3. CASE q = r /\ p # r
    BY <1>5, <1>8, <2>1, <2>3
  <2>4. CASE p # r /\ q # r
    BY <1>1, <1>8, <2>4
  <2> QED BY <2>2, <2>3, <2>4
<1>9. ASSUME NEW q \in DOMAIN asks'
      PROVE  /\ asks'[q].id \in Nat
             /\ asks'[q].id < Cardinality({s \in DOMAIN asks' : asks'[s].child = asks'[q].child})
             /\ asks'[q].child \in Children
             /\ asks'[q].seen \in DOMAIN wire[asks'[q].child]
             /\ asks'[q].seen \in DOMAIN wire'[asks'[q].child]
  <2>1. PICK d : d = asks'[q].child
    OBVIOUS
  <2>2. Mine(d)' = {s \in DOMAIN asks' : asks'[s].child = asks'[q].child}
    BY <2>1 DEF Mine
  <2>3. /\ asks'[q].id \in Nat /\ asks'[q].id < Cardinality(Mine(d)')
        /\ d \in Children /\ asks'[q].seen \in DOMAIN wire[d]
    BY <1>7, <2>1
  <2>4. asks'[q].seen \in DOMAIN wire'[d]
    BY <2>3 DEF Lines
  <2> QED BY <2>1, <2>2, <2>3, <2>4
<1> QED BY <1>8, <1>9 DEF IdsAsked, Mine

(* A step that asks nothing.                                                *)
LEMMA MatchSame ==
  ASSUME TypeOK, ApprovalsInv, ApprovalsInv', MatchInv, UNCHANGED asks, NEW m, Lines(m),
         m.kind = "response" => m.owner \in DOMAIN asks /\ m.id = asks[m.owner].id
  PROVE  MatchInv'
BY IdsAskedKept, MatchKept DEF ApprovalsInv

(* The id that waits on a timer is that of a request.                       *)
LEMMA HeldId ==
  ASSUME ApprovalsInv, MatchInv, NEW c \in Children, held[c] # NoMessage, held[c].kind = "response"
  PROVE  held[c].owner \in DOMAIN asks /\ held[c].id = asks[held[c].owner].id
<1>1. PICK q : q = held[c].owner
  OBVIOUS
<1>2. HeldBy(c, q)
  BY <1>1 DEF HeldBy, IsAnswer
<1> QED BY <1>1, <1>2 DEF ApprovalsInv, OwnersAsked, MatchInv, IdsAnswered

LEMMA MatchStep ==
  ASSUME TypeOK, OneProcess, ApprovalsInv, MatchInv, [ApprovalsNext]_allVars
  PROVE  MatchInv'
<1>a. ApprovalsInv'
  BY ApprovalsStep
<1>b. ASSUME UNCHANGED <<wire, held, asks>> PROVE MatchInv'
  <2>1. Initialized.kind # "response" /\ Lines(Initialized)
    BY <1>b, LinesKept DEF Initialized
  <2> QED BY <1>a, <1>b, <2>1, MatchSame
<1>1. CASE ClientStep
  <2>1. ClientShape /\ UNCHANGED asks
    BY <1>1, ClientStepShape DEF ClientStep
  <2>2. CASE UNCHANGED procVars
    BY <1>b, <2>1, <2>2 DEF procVars
  <2>3. ASSUME NEW m \in Messages, m.kind # "response", SendMessage(m) PROVE MatchInv'
    BY <1>a, <2>1, <2>3, LinesSent, MatchSame
  <2>4. ASSUME NEW c \in Children, held[c] # NoMessage, held[c].kind # "response", StartElapsed(c)
        PROVE  MatchInv'
    BY <1>a, <2>1, <2>4, LinesElapsed, MatchSame
  <2>5. ASSUME NEW c \in Children, ProcExit(c) PROVE MatchInv'
    BY <1>b, <2>1, <2>5 DEF ProcExit
  <2>6. CASE ProcStop
    BY <1>b, <2>1, <2>6 DEF ProcStop
  <2> QED BY <2>1, <2>2, <2>3, <2>4, <2>5, <2>6 DEF ClientShape
<1>2. ASSUME NEW c \in Children, RespondElapsed(c) PROVE MatchInv'
  <2>1. /\ held[c] # NoMessage /\ held[c].kind = "response" /\ StartElapsed(c) /\ UNCHANGED asks
    BY <1>2 DEF RespondElapsed, StartTimer
  <2> QED BY <1>a, <2>1, HeldId, LinesElapsed, MatchSame
<1>3. ASSUME NEW c \in Children, NEW kind \in ApprovalKinds \cup {"other"}, CodexAsks(c, kind)
      PROVE  MatchInv'
  <2>1. PICK r : r = Len(asks) + 1
    OBVIOUS
  <2>2. PICK id \in Nat, seen \in DOMAIN wire[c] :
           /\ id = Cardinality(Mine(c))
           /\ r \in Nat /\ r \notin DOMAIN asks /\ DOMAIN asks' = DOMAIN asks \cup {r}
           /\ \A q \in DOMAIN asks : asks'[q] = asks[q]
           /\ asks'[r] = [child |-> c, id |-> id, kind |-> kind, seen |-> seen]
           /\ HandleServerRequest(kind, id, r)
    BY <1>3, <2>1, AskShape DEF Mine
  <2>3. PICK m : m = [kind |-> "response", id |-> id, owner |-> r]
    OBVIOUS
  <2>4. m \in Messages /\ m.owner = r /\ m.id = id
    BY <2>2, <2>3 DEF Messages
  <2>5. Lines(m)
    <3>1. CASE UNCHANGED procVars
      BY <3>1, LinesKept DEF procVars
    <3>2. CASE SendMessage(m)
      BY <2>4, <3>2, LinesSent
    <3> QED BY <2>2, <2>3, <3>1, <3>2 DEF HandleServerRequest
  <2>6. PICK e : e = [child |-> c, id |-> id, kind |-> kind, seen |-> seen]
    OBVIOUS
  <2>7. e.child = c /\ e.id = Cardinality(Mine(c)) /\ e.seen \in DOMAIN wire[c] /\ asks'[r] = e /\ e.id = id
    BY <2>2, <2>6
  <2>8. /\ IdsAsked'
        /\ \A q \in DOMAIN asks' : /\ asks'[q].child \in Children
                                   /\ asks'[q].seen \in DOMAIN wire[asks'[q].child]
    BY <2>2, <2>5, <2>7, IdsAskedGrow
  <2>9. m.owner \in DOMAIN asks' /\ m.id = asks'[m.owner].id
    BY <2>2, <2>4, <2>7
  <2>10. AsksTypeOK' /\ \A q \in DOMAIN asks : q \in DOMAIN asks' /\ asks'[q] = asks[q]
    BY <1>a, <2>2 DEF ApprovalsInv
  <2> QED BY <2>5, <2>8, <2>9, <2>10, MatchKept
<1>4. ASSUME NEW kind \in ApprovalKinds, NEW r \in DOMAIN asks, Approve(kind, r) PROVE MatchInv'
  <2>1. PICK m : m = Response(r)
    OBVIOUS
  <2>2. SendMessage(m) /\ UNCHANGED asks /\ m.owner = r /\ m.id = asks[r].id
    BY <1>4, <2>1 DEF Approve, Response
  <2>3. m \in Messages
    <3>1. asks \in Seq(AskRecords)
      BY DEF ApprovalsInv, AsksTypeOK
    <3>2. asks[r] \in AskRecords /\ r \in Nat
      BY <3>1
    <3> QED BY <2>1, <3>2 DEF AskRecords, Messages, Response
  <2> QED BY <1>a, <2>2, <2>3, LinesSent, MatchSame
<1>5. CASE UNCHANGED allVars
  BY <1>b, <1>5 DEF allVars, vars, procVars
<1> QED BY <1>1, <1>2, <1>3, <1>4, <1>5 DEF ApprovalsNext

LEMMA MatchAlways == ApprovalsSpec => []MatchInv
<1>1. ApprovalsInit => MatchInv
  <2> SUFFICES ASSUME ApprovalsInit PROVE MatchInv
    OBVIOUS
  <2>1. DOMAIN asks = {} /\ Children = {}
    BY DEF ApprovalsInit, Init, ProcInit, Children
  <2> QED BY <2>1 DEF MatchInv, IdsAsked, IdsAnswered, UnseenInv
<1>2. TypeOK /\ OneProcess /\ ApprovalsInv /\ MatchInv /\ [ApprovalsNext]_allVars => MatchInv'
  BY MatchStep
<1> QED BY <1>1, <1>2, ApprovalsAlways, PTL DEF ApprovalsSpec

(* What codex takes for the answer to its request is the answer made for    *)
(* it, or one made for a request of another incarnation.                    *)
LEMMA AnswersAre ==
  ASSUME TypeOK, ApprovalsInv, MatchInv,
         NEW r \in DOMAIN asks, NEW c \in Children, asks[r].child = c
  PROVE  /\ Answers(r) \ Strays(r) = AnswersOn(c, r)
         /\ \A i \in Answers(r) :
              \E q \in DOMAIN asks : /\ q = wire[c][i].owner /\ asks[q].id = asks[r].id
                                     /\ i \in AnswersOn(c, q)
                                     /\ asks[q].child = c => q = r
<1>1. ASSUME NEW i \in Answers(r)
      PROVE  \E q \in DOMAIN asks : /\ q = wire[c][i].owner /\ asks[q].id = asks[r].id
                                    /\ i \in AnswersOn(c, q)
                                    /\ asks[q].child = c => q = r
  <2>1. PICK q : q = wire[c][i].owner
    OBVIOUS
  <2>2. i \in AnswersOn(c, q) /\ wire[c][i].id = asks[r].id
    BY <1>1, <2>1 DEF Answers, AnswersOn, IsAnswer
  <2>3. q \in DOMAIN asks
    BY <2>2 DEF ApprovalsInv, OwnersAsked, IsWritten
  <2>4. asks[q].id = asks[r].id
    BY <2>1, <2>2 DEF AnswersOn, IsAnswer, MatchInv, IdsAnswered
  <2> QED BY <2>1, <2>2, <2>3, <2>4 DEF MatchInv, IdsAsked
<1>2. ASSUME NEW i \in Answers(r) \ Strays(r)
      PROVE  i \in AnswersOn(c, r)
  BY <1>1, <1>2 DEF Strays
<1>3. ASSUME NEW i \in AnswersOn(c, r)
      PROVE  i \in Answers(r) \ Strays(r)
  <2>1. /\ i \in DOMAIN wire[c] /\ wire[c][i].kind = "response" /\ wire[c][i].owner = r
        /\ asks[r].seen < i /\ wire[c][i].id = asks[r].id
    BY <1>3 DEF AnswersOn, IsAnswer, MatchInv, UnseenInv, IdsAnswered
  <2>2. asks[r].seen \in Nat /\ i \in Nat
    <3>1. wire[c] \in Seq(Messages)
      BY DEF TypeOK, ProcTypeOK, Children
    <3>2. asks[r].seen \in DOMAIN wire[c]
      BY DEF MatchInv, IdsAsked
    <3> QED BY <2>1, <3>1, <3>2
  <2> QED BY <2>1, <2>2 DEF Answers, Strays
<1> QED BY <1>1, <1>2, <1>3

(* A codex that asked is told once: an entry leaves pending with its answer *)
(* on the stdin of the codex that asked, and in no other way while it       *)
(* lives; any other answer it reads with that id was made for a request of  *)
(* another incarnation.                                                     *)
THEOREM ToldOnce == ApprovalsSpec => []AnsweredOnce
<1>1. TypeOK /\ ApprovalsInv /\ MatchInv => AnsweredOnce
  <2> SUFFICES ASSUME TypeOK, ApprovalsInv, MatchInv, NEW r \in DOMAIN asks,
                      NEW c \in Children, asks[r].child = c
               PROVE  /\ Cardinality(Answers(r) \ Strays(r)) <= 1
                      /\ asks[r].kind \in ApprovalKinds /\ asks[r].child \in alive
                           => (r \in approvals <=> Answers(r) \ Strays(r) = {})
    BY DEF AnsweredOnce, ApprovalsInv, AsksTypeOK
  <2> DEFINE own == Answers(r) \ Strays(r)
  <2>1. own = AnswersOn(c, r)
    BY AnswersAre
  <2>a. PICK S : S = AnswersOn(c, r)
    OBVIOUS
  <2>2. /\ \A i, j \in AnswersOn(c, r) : i = j
        /\ asks[r].kind \in ApprovalKinds /\ c \in alive
             => (r \in approvals <=> AnswersOn(c, r) = {})
    BY DEF ApprovalsInv, OnceInv
  <2>3. Cardinality(S) <= 1
    <3>1. CASE S = {}
      BY <3>1, FS_EmptySet
    <3>2. CASE S # {}
      <4>1. PICK i : S = {i}
        BY <2>2, <2>a, <3>2
      <4>2. Cardinality({i}) = 1
        BY FS_Singleton
      <4> QED BY <4>1, <4>2
    <3> QED BY <3>1, <3>2
  <2> QED BY <2>1, <2>2, <2>3, <2>a
<1> QED BY <1>1, ApprovalsAlways, MatchAlways, PTL

(* What the user is still asked was not answered to any incarnation; and    *)
(* if its own codex took another answer for it, then one that was made for  *)
(* a request of a codex that is gone.                                       *)
THEOREM OnlyOpenQuestions == ApprovalsSpec => []PendingIsUnanswered
<1>1. TypeOK /\ OneProcess /\ ApprovalsInv /\ MatchInv => PendingIsUnanswered
  <2> SUFFICES ASSUME TypeOK, OneProcess, ApprovalsInv, MatchInv
               PROVE  PendingIsUnanswered
    OBVIOUS
  <2>1. ASSUME NEW c \in Children, NEW i \in DOMAIN wire[c],
               wire[c][i].kind = "response", wire[c][i].owner \in approvals
        PROVE  FALSE
    <3>1. PICK r : r = wire[c][i].owner
      OBVIOUS
    <3>2. i \in AnswersOn(c, r)
      BY <2>1, <3>1 DEF AnswersOn, IsAnswer
    <3>3. IsWritten(r)
      BY <3>2 DEF IsWritten
    <3> QED BY <2>1, <3>1, <3>3 DEF ApprovalsInv
  <2>2. ASSUME phase = "up", NEW r \in approvals, NEW i \in Answers(r), asks[r].child \in alive,
               asks[wire[asks[r].child][i].owner].child \in alive
        PROVE  FALSE
    <3>1. PICK c \in Children : c = asks[r].child /\ r \in DOMAIN asks
      BY DEF ApprovalsInv, AsksTypeOK
    <3>2. PICK q \in DOMAIN asks : /\ q = wire[c][i].owner /\ i \in AnswersOn(c, q)
                                   /\ asks[q].child = c => q = r
      BY <3>1, AnswersAre
    <3>3. asks[q].child = c
      BY <2>2, <3>1, <3>2 DEF OneProcess
    <3>4. IsWritten(r)
      BY <3>2, <3>3 DEF IsWritten
    <3> QED BY <3>4 DEF ApprovalsInv
  <2> QED BY <2>1, <2>2 DEF PendingIsUnanswered
<1> QED BY <1>1, ApprovalsAlways, MatchAlways, PTL

-----------------------------------------------------------------------------
(* The service implements the desk.  DeskAsks, Told and Len(wire) are what  *)
(* asks, answered and started stand for there.                              *)

DeskAsks ==
  [r \in DOMAIN asks |-> [codex |-> asks[r].child, id |-> asks[r].id, kind |-> asks[r].kind]]

Told == {r \in DOMAIN asks : asks[r].kind \in ApprovalKinds /\ Answers(r) # {}}

(* Incarnation c has an answer with this id after line s of its stdin.      *)
Heard(c, s, id) ==
  \E i \in DOMAIN wire[c] : i > s /\ wire[c][i].kind = "response" /\ wire[c][i].id = id

(* The approvals for whose answer incarnation d would take message m.       *)
Hits(d, m) ==
  {r \in DOMAIN asks : /\ asks[r].kind \in ApprovalKinds /\ asks[r].child = d
                       /\ m.kind = "response" /\ m.id = asks[r].id}

LEMMA ToldIs ==
  ASSUME NEW r \in DOMAIN asks, NEW c, NEW s, NEW id,
         c = asks[r].child, s = asks[r].seen, id = asks[r].id
  PROVE  r \in Told <=> asks[r].kind \in ApprovalKinds /\ Heard(c, s, id)
BY DEF Told, Answers, Heard

LEMMA ToldIsPrimed ==
  ASSUME NEW r \in DOMAIN asks', NEW c, NEW s, NEW id,
         c = asks'[r].child, s = asks'[r].seen, id = asks'[r].id
  PROVE  r \in Told' <=> asks'[r].kind \in ApprovalKinds /\ Heard(c, s, id)'
BY DEF Told, Answers, Heard

(* The steps of the desk, by what they do.                                  *)
LEMMA DeskStutters ==
  ASSUME UNCHANGED <<asks, approvals, alive>>, Len(wire') = Len(wire), Told' = Told
  PROVE  UNCHANGED Desk!deskVars
BY DEF Desk!deskVars, Told

LEMMA DeskStarts ==
  ASSUME UNCHANGED <<asks, approvals>>, Told' = Told,
         Len(wire') = Len(wire) + 1, alive' = alive \cup {Len(wire) + 1}
  PROVE  Desk!DeskNext
BY DEF Desk!DeskNext, Desk!CodexStarts, Desk!Starts, Told

LEMMA DeskExits ==
  ASSUME UNCHANGED <<asks, approvals>>, Told' = Told, Len(wire') = Len(wire),
         NEW c \in alive, alive' = alive \ {c}
  PROVE  Desk!DeskNext
BY DEF Desk!DeskNext, Desk!CodexExits, Told

(* A line with this id reaches a codex that lives.                          *)
ReachesCodex(id) ==
  \E d \in alive :
    Told' = Told \cup {r \in DOMAIN DeskAsks : /\ DeskAsks[r].codex = d /\ DeskAsks[r].id = id
                                               /\ DeskAsks[r].kind \in ApprovalKinds}

LEMMA DeskReaches ==
  ASSUME NEW d \in alive, NEW m, NEW id, m.kind = "response", m.id = id,
         Told' = Told \cup Hits(d, m)
  PROVE  ReachesCodex(id)
<1>1. Hits(d, m) = {r \in DOMAIN DeskAsks : /\ DeskAsks[r].codex = d /\ DeskAsks[r].id = id
                                            /\ DeskAsks[r].kind \in ApprovalKinds}
  BY DEF Hits, DeskAsks
<1> QED BY <1>1 DEF ReachesCodex

LEMMA ReachedDesk ==
  ASSUME NEW id, ReachesCodex(id)
  PROVE  /\ \A r \in DOMAIN DeskAsks : DeskAsks[r].id = id => Desk!Reaches(DeskAsks[r].id)
         /\ \A c : Desk!NextId(c) = id => Desk!Reaches(Desk!NextId(c))
<1>1. ASSUME NEW r \in DOMAIN DeskAsks, DeskAsks[r].id = id
      PROVE  Desk!Reaches(DeskAsks[r].id)
  <2>1. PICK d \in alive :
          Told' = Told \cup {q \in DOMAIN DeskAsks : /\ DeskAsks[q].codex = d /\ DeskAsks[q].id = id
                                                     /\ DeskAsks[q].kind \in ApprovalKinds}
    BY DEF ReachesCodex
  <2>2. Told' = Told \cup {q \in DOMAIN DeskAsks :
                              /\ DeskAsks[q].codex = d /\ DeskAsks[q].id = DeskAsks[r].id
                              /\ DeskAsks[q].kind \in ApprovalKinds}
    BY <1>1, <2>1
  <2> QED BY <2>2 DEF Desk!Reaches, DeskAsks, Told
<1>2. ASSUME NEW c, Desk!NextId(c) = id
      PROVE  Desk!Reaches(Desk!NextId(c))
  <2>1. PICK d \in alive :
          Told' = Told \cup {q \in DOMAIN DeskAsks : /\ DeskAsks[q].codex = d /\ DeskAsks[q].id = id
                                                     /\ DeskAsks[q].kind \in ApprovalKinds}
    BY DEF ReachesCodex
  <2>2. Told' = Told \cup {q \in DOMAIN DeskAsks :
                              /\ DeskAsks[q].codex = d /\ DeskAsks[q].id = Desk!NextId(c)
                              /\ DeskAsks[q].kind \in ApprovalKinds}
    BY <1>2, <2>1
  <2> QED BY <2>2 DEF Desk!Reaches, DeskAsks, Told
<1> QED BY <1>1, <1>2

(* A decision is over: that of a codex that lives is the answer to it, any  *)
(* other reaches nobody or whom it hits.                                    *)
LEMMA DeskDecides ==
  ASSUME UNCHANGED <<asks, alive>>, Len(wire') = Len(wire), NEW r \in approvals,
         r \in DOMAIN asks, approvals' = approvals \ {r}, NEW id, id = asks[r].id,
         IF asks[r].child \in alive THEN Told' = Told \cup {r}
                                    ELSE ReachesCodex(id) \/ Told' = Told
  PROVE  Desk!DeskNext
<1>1. DeskAsks[r].codex = asks[r].child /\ DeskAsks[r].id = id /\ r \in DOMAIN DeskAsks
  BY DEF DeskAsks
<1>2. CASE asks[r].child \in alive
  <2>1. Desk!Decide(r)
    BY <1>1, <1>2 DEF Desk!Decide, Told, DeskAsks
  <2> QED BY <1>1, <2>1 DEF Desk!DeskNext, DeskAsks
<1>3. CASE asks[r].child \notin alive
  <2>1. Desk!Reaches(DeskAsks[r].id) \/ Told' = Told
    BY <1>1, <1>3, ReachedDesk
  <2>2. Desk!Discard(r)
    BY <1>1, <1>3, <2>1 DEF Desk!Discard, Told, DeskAsks
  <2> QED BY <1>1, <2>2 DEF Desk!DeskNext, DeskAsks
<1> QED BY <1>2, <1>3

LEMMA DeskRepeats ==
  ASSUME UNCHANGED <<asks, approvals, alive>>, Len(wire') = Len(wire), NEW r \in DOMAIN asks,
         r \notin approvals, asks[r].child \notin alive \/ asks[r].kind \notin ApprovalKinds,
         NEW id, id = asks[r].id, ReachesCodex(id)
  PROVE  Desk!DeskNext
<1>1. /\ DeskAsks[r].codex = asks[r].child /\ DeskAsks[r].id = id /\ DeskAsks[r].kind = asks[r].kind
      /\ r \in DOMAIN DeskAsks
  BY DEF DeskAsks
<1>2. Desk!Reaches(DeskAsks[r].id)
  BY <1>1, ReachedDesk
<1>3. Desk!Repeat(r)
  BY <1>1, <1>2 DEF Desk!Repeat, DeskAsks
<1> QED BY <1>1, <1>3 DEF Desk!DeskNext, DeskAsks

(* A request of an incarnation whose stdin stays as it is stays told or     *)
(* untold.                                                                  *)
LEMMA ToldOld ==
  ASSUME AsksTypeOK, \A r \in DOMAIN asks : r \in DOMAIN asks' /\ asks'[r] = asks[r],
         NEW r \in DOMAIN asks, NEW c \in Children, c = asks[r].child, wire'[c] = wire[c]
  PROVE  r \in Told' <=> r \in Told
<1>1. PICK s, id : s = asks[r].seen /\ id = asks[r].id
  OBVIOUS
<1>2. Heard(c, s, id)' <=> Heard(c, s, id)
  BY DEF Heard
<1>3. r \in Told <=> asks[r].kind \in ApprovalKinds /\ Heard(c, s, id)
  BY <1>1, ToldIs
<1>4. r \in Told' <=> asks[r].kind \in ApprovalKinds /\ Heard(c, s, id)'
  BY <1>1, ToldIsPrimed
<1> QED BY <1>2, <1>3, <1>4

LEMMA ToldKept ==
  ASSUME AsksTypeOK, \A r \in DOMAIN asks : r \in DOMAIN asks' /\ asks'[r] = asks[r],
         \A r \in DOMAIN asks' \ DOMAIN asks : asks'[r].kind \notin ApprovalKinds,
         \A c \in Children : wire'[c] = wire[c]
  PROVE  Told' = Told
<1>1. ASSUME NEW r \in DOMAIN asks
      PROVE  r \in Told' <=> r \in Told
  BY ToldOld DEF AsksTypeOK
<1>2. Told \subseteq DOMAIN asks /\ Told' \subseteq DOMAIN asks'
  BY DEF Told
<1>3. \A r \in Told' : asks'[r].kind \in ApprovalKinds
  BY DEF Told
<1> QED BY <1>1, <1>2, <1>3

(* A line written to incarnation d tells those it hits.                     *)
LEMMA LineTold ==
  ASSUME TypeOK, AsksTypeOK, MatchInv, NEW d \in Children, NEW m \in Messages,
         wire' = [wire EXCEPT ![d] = Append(@, m)],
         \A r \in DOMAIN asks : r \in DOMAIN asks' /\ asks'[r] = asks[r],
         \A r \in DOMAIN asks' \ DOMAIN asks : asks'[r].kind \notin ApprovalKinds
  PROVE  Told' = Told \cup Hits(d, m) /\ Len(wire') = Len(wire)
<1>1. PICK n : n = Len(wire[d]) + 1
  OBVIOUS
<1>2. /\ \A c \in Children : c # d => wire'[c] = wire[c]
      /\ DOMAIN wire'[d] = DOMAIN wire[d] \cup {n}
      /\ \A i \in DOMAIN wire[d] : wire'[d][i] = wire[d][i] /\ i < n
      /\ wire'[d][n] = m
  <2>1. /\ \A c \in Children : c # d => wire'[c] = wire[c]
        /\ DOMAIN wire'[d] = DOMAIN wire[d] \cup {Len(wire[d]) + 1}
        /\ \A i \in DOMAIN wire[d] : wire'[d][i] = wire[d][i] /\ i < Len(wire[d]) + 1
        /\ wire'[d][Len(wire[d]) + 1] = m
    BY LineAppended
  <2> QED BY <1>1, <2>1
<1>3. ASSUME NEW r \in DOMAIN asks
      PROVE  r \in Told' <=> r \in Told \/ r \in Hits(d, m)
  <2>1. PICK c \in Children : c = asks[r].child
    BY DEF AsksTypeOK
  <2>2. CASE c # d
    <3>1. r \in Told' <=> r \in Told
      BY <1>2, <2>1, <2>2, ToldOld
    <3> QED BY <2>1, <2>2, <3>1 DEF Hits
  <2>3. CASE c = d
    <3>1. PICK s, id : s = asks[r].seen /\ id = asks[r].id
      OBVIOUS
    <3>2. s \in DOMAIN wire[d]
      BY <2>1, <2>3, <3>1 DEF MatchInv, IdsAsked
    <3>3. s \in Nat /\ n \in Nat /\ s < n
      <4>1. wire[d] \in Seq(Messages)
        BY DEF TypeOK, ProcTypeOK, Children
      <4>2. s \in Nat /\ n \in Nat
        BY <1>1, <3>2, <4>1
      <4> QED BY <1>2, <3>2, <4>2
    <3>4. Heard(d, s, id)' <=> Heard(d, s, id) \/ (m.kind = "response" /\ m.id = id)
      BY <1>2, <3>3 DEF Heard
    <3>5. r \in Told <=> asks[r].kind \in ApprovalKinds /\ Heard(d, s, id)
      BY <2>1, <2>3, <3>1, ToldIs
    <3>6. r \in Told' <=> asks[r].kind \in ApprovalKinds /\ Heard(d, s, id)'
      BY <2>1, <2>3, <3>1, ToldIsPrimed
    <3>7. r \in Hits(d, m) <=> asks[r].kind \in ApprovalKinds /\ m.kind = "response" /\ m.id = id
      BY <2>1, <2>3, <3>1 DEF Hits
    <3> QED BY <3>4, <3>5, <3>6, <3>7
  <2> QED BY <2>2, <2>3
<1>4. Told \subseteq DOMAIN asks /\ Told' \subseteq DOMAIN asks' /\ Hits(d, m) \subseteq DOMAIN asks
  BY DEF Told, Hits
<1>5. \A r \in Told' : asks'[r].kind \in ApprovalKinds
  BY DEF Told
<1>6. Told' = Told \cup Hits(d, m)
  BY <1>3, <1>4, <1>5
<1>7. Len(wire') = Len(wire)
  BY DEF TypeOK, ProcTypeOK
<1> QED BY <1>6, <1>7

(* Where nothing is written and nothing asked, nobody is told.              *)
LEMMA SilenceTold ==
  ASSUME UNCHANGED <<wire, asks>>
  PROVE  Told' = Told
BY DEF Told, Answers

(* A spawned child was told nothing.                                        *)
LEMMA SpawnTold ==
  ASSUME TypeOK, AsksTypeOK, \A r \in DOMAIN asks : r \in DOMAIN asks' /\ asks'[r] = asks[r],
         \A r \in DOMAIN asks' \ DOMAIN asks : asks'[r].kind \notin ApprovalKinds,
         NEW m \in Messages, SpawnFor(m)
  PROVE  /\ Told' = Told
         /\ Len(wire') = Len(wire) + 1 /\ alive' = alive \cup {Len(wire) + 1}
<1>1. \A c \in Children : wire'[c] = wire[c]
  BY DEF SpawnFor, TypeOK, ProcTypeOK, Children
<1>2. Told' = Told
  BY <1>1, ToldKept
<1>3. Len(wire') = Len(wire) + 1
  BY DEF SpawnFor, TypeOK, ProcTypeOK
<1> QED BY <1>2, <1>3 DEF SpawnFor

(* The child a line is written to.                                          *)
LEMMA LineTo ==
  ASSUME TypeOK, ApprovalsInv, NEW m, child # 0, wire' = [wire EXCEPT ![child] = Append(@, m)]
  PROVE  \E d \in Children : /\ d = child /\ d \in alive
                             /\ wire' = [wire EXCEPT ![d] = Append(@, m)]
<1>1. PICK d : d = child
  OBVIOUS
<1>2. d \in Children /\ d \in alive
  BY <1>1 DEF TypeOK, ProcTypeOK, Children, ApprovalsInv, ChildLives
<1>3. wire' = [wire EXCEPT ![d] = Append(@, m)]
  BY <1>1
<1> QED BY <1>1, <1>2, <1>3

LEMMA NoHits ==
  ASSUME NEW d, NEW m, m.kind # "response"
  PROVE  Hits(d, m) = {}
BY DEF Hits

LEMMA ClientStepDesk ==
  ASSUME TypeOK, OneProcess, ApprovalsInv, MatchInv, ClientStep
  PROVE  [Desk!DeskNext]_(Desk!deskVars)
<1>a. UNCHANGED <<asks, approvals>> /\ AsksTypeOK
  BY DEF ClientStep, ApprovalsInv
<1>1. CASE UNCHANGED procVars
  <2>1. UNCHANGED <<wire, alive>>
    BY <1>1 DEF procVars
  <2> QED BY <1>a, <2>1, SilenceTold, DeskStutters
<1>2. ASSUME NEW m \in Messages, m.kind # "response", SendMessage(m)
      PROVE  [Desk!DeskNext]_(Desk!deskVars)
  <2>1. CASE WriteNow(m)
    <3>1. PICK d \in Children : d = child /\ wire' = [wire EXCEPT ![d] = Append(@, m)]
      BY <2>1, LineTo DEF WriteNow
    <3>2. Hits(d, m) = {}
      BY <1>2, NoHits
    <3>3. Told' = Told /\ Len(wire') = Len(wire)
      BY <1>a, <3>1, <3>2, LineTold
    <3> QED BY <1>a, <2>1, <3>3, DeskStutters DEF WriteNow
  <2>2. CASE SpawnFor(m)
    BY <1>a, <2>2, SpawnTold, DeskStarts
  <2> QED BY <1>2, <2>1, <2>2 DEF SendMessage
<1>3. ASSUME NEW c \in Children, held[c] # NoMessage, held[c].kind # "response", StartElapsed(c)
      PROVE  [Desk!DeskNext]_(Desk!deskVars)
  <2>1. PICK m : m = held[c]
    OBVIOUS
  <2>2. /\ m \in Messages /\ UNCHANGED <<child, alive>>
        /\ wire' = IF child = 0 THEN wire ELSE [wire EXCEPT ![child] = Append(@, m)]
    BY <1>3, <2>1, TimerShape
  <2>3. Told' = Told /\ Len(wire') = Len(wire)
    <3>1. CASE child = 0
      BY <1>a, <2>2, <3>1, SilenceTold
    <3>2. CASE child # 0
      <4>1. PICK d \in Children : d = child /\ wire' = [wire EXCEPT ![d] = Append(@, m)]
        BY <2>2, <3>2, LineTo
      <4>2. Hits(d, m) = {}
        BY <1>3, <2>1, NoHits
      <4>3. Told' = Told \cup Hits(d, m) /\ Len(wire') = Len(wire)
        BY <1>a, <2>2, <4>1, LineTold
      <4> QED BY <4>2, <4>3
    <3> QED BY <3>1, <3>2
  <2> QED BY <1>a, <2>2, <2>3, DeskStutters
<1>4. ASSUME NEW c \in Children, ProcExit(c)
      PROVE  [Desk!DeskNext]_(Desk!deskVars)
  <2>1. c \in alive /\ alive' = alive \ {c} /\ UNCHANGED wire
    BY <1>4 DEF ProcExit
  <2> QED BY <1>a, <2>1, SilenceTold, DeskExits
<1>5. CASE ProcStop
  BY <1>5, <1>a, SilenceTold, DeskStutters DEF ProcStop
<1> QED BY <1>1, <1>2, <1>3, <1>4, <1>5, ClientStepShape DEF ClientShape

(* A decision that slept ends with its entry, its codex gone, and hits at   *)
(* most what another codex asks.                                            *)
LEMMA RespondElapsedDesk ==
  ASSUME TypeOK, OneProcess, ApprovalsInv, MatchInv, NEW c \in Children, RespondElapsed(c)
  PROVE  [Desk!DeskNext]_(Desk!deskVars)
<1>1. PICK m : m = held[c]
  OBVIOUS
<1>2. PICK r : r = m.owner
  OBVIOUS
<1>3. /\ held[c] # NoMessage /\ m.kind = "response" /\ StartElapsed(c) /\ UNCHANGED asks
      /\ approvals' = approvals \ {r}
      /\ IsAnswer(m, r) /\ AsksTypeOK
  BY <1>1, <1>2 DEF RespondElapsed, StartTimer, IsAnswer, ApprovalsInv
<1>4. /\ m \in Messages /\ UNCHANGED <<child, alive>>
      /\ wire' = IF child = 0 THEN wire ELSE [wire EXCEPT ![child] = Append(@, m)]
  BY <1>1, <1>3, TimerShape
<1>5. HeldBy(c, r)
  BY <1>1, <1>3 DEF HeldBy
<1>6. r \in DOMAIN asks /\ m.id = asks[r].id
  BY <1>1, <1>2, <1>3, HeldId
<1>7. asks[r].kind \in ApprovalKinds => asks[r].child \notin alive
  BY <1>5, <1>6 DEF ApprovalsInv, SleepersInv
<1>8. PICK id : id = m.id
  OBVIOUS
<1>9. Len(wire') = Len(wire) /\ (Told' = Told \/ ReachesCodex(id))
  <2>1. CASE child = 0
    BY <1>3, <1>4, <2>1, SilenceTold
  <2>2. CASE child # 0
    <3>1. PICK d \in Children : /\ d = child /\ d \in alive
                                /\ wire' = [wire EXCEPT ![d] = Append(@, m)]
      BY <1>4, <2>2, LineTo
    <3>2. Told' = Told \cup Hits(d, m) /\ Len(wire') = Len(wire)
      BY <1>3, <1>4, <3>1, LineTold
    <3> QED BY <1>3, <1>8, <3>1, <3>2, DeskReaches
  <2> QED BY <2>1, <2>2
<1>10. CASE r \in approvals
  <2>1. asks[r].child \notin alive
    BY <1>3, <1>7, <1>10 DEF AsksTypeOK
  <2> QED BY <1>3, <1>4, <1>6, <1>8, <1>9, <1>10, <2>1, DeskDecides
<1>11. CASE r \notin approvals
  <2>1. approvals' = approvals
    BY <1>3, <1>11
  <2>2. CASE Told' = Told
    BY <1>3, <1>4, <1>9, <2>1, <2>2, DeskStutters
  <2>3. CASE ReachesCodex(id)
    BY <1>3, <1>4, <1>6, <1>7, <1>8, <1>9, <1>11, <2>1, <2>3, DeskRepeats
  <2> QED BY <1>9, <2>2, <2>3
<1> QED BY <1>10, <1>11

(* A decision: for a codex that lives it is written to it, and is the       *)
(* answer to that request alone.                                            *)
LEMMA ApproveDesk ==
  ASSUME TypeOK, OneProcess, ApprovalsInv, MatchInv,
         NEW kind \in ApprovalKinds, NEW r \in DOMAIN asks, Approve(kind, r)
  PROVE  Desk!DeskNext
<1>1. PICK m : m = Response(r)
  OBVIOUS
<1>2. PICK id : id = asks[r].id
  OBVIOUS
<1>3. /\ r \in approvals /\ asks[r].kind \in ApprovalKinds /\ SendMessage(m)
      /\ approvals' = IF child # 0 THEN approvals \ {r} ELSE approvals
      /\ UNCHANGED asks /\ AsksTypeOK
      /\ alive = (IF child = 0 THEN {} ELSE {child})
      /\ m.kind = "response" /\ m.id = id
  BY <1>1, <1>2 DEF Approve, OneProcess, ApprovalsInv, Response
<1>4. m \in Messages
  <2>1. asks \in Seq(AskRecords)
    BY <1>3 DEF AsksTypeOK
  <2>2. asks[r] \in AskRecords /\ r \in Nat
    BY <2>1
  <2> QED BY <1>1, <2>2 DEF AskRecords, Messages, Response
<1>5. CASE WriteNow(m)
  <2>1. PICK d \in Children : /\ d = child /\ d \in alive
                              /\ wire' = [wire EXCEPT ![d] = Append(@, m)]
    BY <1>5, LineTo DEF WriteNow
  <2>2. alive' = alive /\ approvals' = approvals \ {r} /\ alive = {d}
    BY <1>3, <1>5, <2>1 DEF WriteNow
  <2>3. Told' = Told \cup Hits(d, m) /\ Len(wire') = Len(wire)
    BY <1>3, <1>4, <2>1, LineTold
  <2>4. CASE asks[r].child = d
    <3>1. Hits(d, m) = {r}
      BY <1>2, <1>3, <2>4 DEF Hits, MatchInv, IdsAsked
    <3> QED BY <1>2, <1>3, <2>2, <2>3, <2>4, <3>1, DeskDecides
  <2>5. CASE asks[r].child # d
    <3>1. ReachesCodex(id)
      BY <1>3, <2>1, <2>3, DeskReaches
    <3> QED BY <1>2, <1>3, <2>2, <2>3, <2>5, <3>1, DeskDecides
  <2> QED BY <2>4, <2>5
<1>6. CASE SpawnFor(m)
  <2>1. approvals' = approvals
    BY <1>3, <1>6 DEF SpawnFor
  <2> QED BY <1>3, <1>4, <1>6, <2>1, SpawnTold, DeskStarts
<1> QED BY <1>3, <1>5, <1>6 DEF SendMessage

LEMMA AppendIs ==
  ASSUME NEW S, NEW s \in Seq(S), NEW e \in S
  PROVE  Append(s, e) = [q \in 1..(Len(s) + 1) |-> IF q = Len(s) + 1 THEN e ELSE s[q]]
<1>1. /\ Append(s, e) \in Seq(S) /\ Len(Append(s, e)) = Len(s) + 1
      /\ \A q \in 1..(Len(s) + 1) : Append(s, e)[q] = IF q = Len(s) + 1 THEN e ELSE s[q]
  OBVIOUS
<1>2. Append(s, e) \in [1..(Len(s) + 1) -> S]
  BY <1>1, LenProperties
<1> QED BY <1>1, <1>2

(* What codex asks is one more entry of the desk.                           *)
LEMMA CodexAsksDesk ==
  ASSUME TypeOK, OneProcess, ApprovalsInv, MatchInv, NEW c \in Children,
         NEW kind \in ApprovalKinds \cup {"other"}, CodexAsks(c, kind)
  PROVE  Desk!DeskNext
<1>1. PICK r : r = Len(asks) + 1
  OBVIOUS
<1>2. PICK id \in Nat, seen \in DOMAIN wire[c] :
         /\ id = Cardinality(Mine(c))
         /\ r \in Nat /\ r \notin DOMAIN asks /\ DOMAIN asks' = DOMAIN asks \cup {r}
         /\ \A q \in DOMAIN asks : asks'[q] = asks[q]
         /\ asks'[r] = [child |-> c, id |-> id, kind |-> kind, seen |-> seen]
         /\ HandleServerRequest(kind, id, r)
  BY <1>1, AskShape DEF Mine
<1>3. PICK m : m = [kind |-> "response", id |-> id, owner |-> r]
  OBVIOUS
<1>4. /\ m \in Messages /\ AsksTypeOK /\ c \in alive
      /\ asks'[r].kind = kind /\ asks'[r].id = id /\ asks'[r].child = c /\ asks'[r].seen = seen
  BY <1>2, <1>3 DEF Messages, ApprovalsInv, CodexAsks
<1>5. PICK e : e = [codex |-> c, id |-> id, kind |-> kind]
  OBVIOUS
<1>6. DeskAsks' = Append(DeskAsks, e) /\ Len(DeskAsks) + 1 = r
  <2>1. DOMAIN asks = 1..Len(asks) /\ Len(asks) \in Nat
    BY <1>4 DEF AsksTypeOK
  <2>2. DOMAIN DeskAsks = 1..Len(asks)
    BY <2>1 DEF DeskAsks
  <2>3. DeskAsks \in Seq({DeskAsks[q] : q \in 1..Len(asks)}) /\ Len(DeskAsks) = Len(asks)
    <3>1. DeskAsks = [q \in 1..Len(asks) |-> DeskAsks[q]]
      BY <2>1, <2>2 DEF DeskAsks
    <3>2. DeskAsks \in [1..Len(asks) -> {DeskAsks[q] : q \in 1..Len(asks)}]
      BY <3>1
    <3> QED BY <2>1, <2>2, <3>2
  <2>4. Append(DeskAsks, e) = [q \in 1..(Len(asks) + 1) |->
                                 IF q = Len(asks) + 1 THEN e ELSE DeskAsks[q]]
    <3>1. DeskAsks \in Seq({DeskAsks[q] : q \in 1..Len(asks)} \cup {e})
      BY <2>3
    <3> QED BY <2>1, <2>3, <3>1, AppendIs
  <2>5. DeskAsks' = [q \in 1..(Len(asks) + 1) |-> DeskAsks'[q]]
    <3>1. DOMAIN asks' = 1..(Len(asks) + 1)
      BY <1>1, <1>2, <2>1
    <3> QED BY <3>1 DEF DeskAsks
  <2>6. \A q \in 1..(Len(asks) + 1) :
          DeskAsks'[q] = IF q = Len(asks) + 1 THEN e ELSE DeskAsks[q]
    <3>1. \A q \in 1..Len(asks) : DeskAsks'[q] = DeskAsks[q]
      BY <1>2, <2>1 DEF DeskAsks
    <3>2. DeskAsks'[r] = e
      BY <1>2, <1>4, <1>5 DEF DeskAsks
    <3>3. \A q \in 1..(Len(asks) + 1) : q \in 1..Len(asks) \/ q = Len(asks) + 1
      BY <2>1
    <3> QED BY <1>1, <3>1, <3>2, <3>3
  <2>7. DeskAsks' = Append(DeskAsks, e)
    BY <2>4, <2>5, <2>6
  <2> QED BY <1>1, <2>3, <2>7
<1>7. {q \in DOMAIN DeskAsks : DeskAsks[q].codex = c} = Mine(c)
  BY DEF DeskAsks, Mine
<1>8. Desk!NextId(c) = id
  <2>1. \A S, T : S = T => Desk!Cardinality(S) = Cardinality(T)
    BY DEF Desk!Cardinality, Cardinality
  <2>2. Desk!NextId(c) = Desk!Cardinality({q \in DOMAIN DeskAsks : DeskAsks[q].codex = c})
    BY DEF Desk!NextId, DeskAsks
  <2> QED BY <1>2, <1>7, <2>1, <2>2
<1>9. Desk!Ask(c, kind)
  BY <1>5, <1>6, <1>8 DEF Desk!Ask, DeskAsks
<1>10. CASE kind \in ApprovalKinds /\ approvals' = approvals \cup {r} /\ UNCHANGED procVars
  <2>1. UNCHANGED <<wire, alive>>
    BY <1>10 DEF procVars
  <2>2. \A q \in DOMAIN asks : q \in Told' <=> q \in Told
    BY <1>2, <1>4, <2>1, ToldOld DEF AsksTypeOK
  <2>3. Told \subseteq DOMAIN asks /\ Told' \subseteq DOMAIN asks \cup {r}
    BY <1>2 DEF Told
  <2>4. Told' = Told \/ (r \in Told' /\ Told' = Told \cup {r})
    BY <2>2, <2>3
  <2>5. ASSUME r \in Told'
        PROVE  \E q \in DOMAIN DeskAsks \ approvals : /\ DeskAsks[q].codex # c
                                                      /\ DeskAsks[q].id = id
    <3>1. Heard(c, seen, id)
      BY <1>2, <1>4, <2>1, <2>5, ToldIsPrimed DEF Heard
    <3>2. PICK i \in DOMAIN wire[c] : wire[c][i].kind = "response" /\ wire[c][i].id = id
      BY <3>1 DEF Heard
    <3>3. PICK q : q = wire[c][i].owner
      OBVIOUS
    <3>4. i \in AnswersOn(c, q)
      BY <3>2, <3>3 DEF AnswersOn, IsAnswer
    <3>5. IsWritten(q)
      BY <3>4 DEF IsWritten
    <3>6. q \in DOMAIN asks /\ q \notin approvals
      BY <3>5 DEF ApprovalsInv, OwnersAsked
    <3>7. asks[q].id = id
      BY <3>2, <3>3 DEF MatchInv, IdsAnswered
    <3>8. asks[q].child # c
      <4> SUFFICES ASSUME asks[q].child = c PROVE FALSE
        OBVIOUS
      <4>1. asks[q].id < Cardinality(Mine(c))
        BY <3>6 DEF MatchInv, IdsAsked
      <4> QED BY <1>2, <3>7, <4>1
    <3> QED BY <3>6, <3>7, <3>8 DEF DeskAsks
  <2>6. \/ Told' = Told
        \/ /\ \E q \in DOMAIN DeskAsks \ approvals : /\ DeskAsks[q].codex # c
                                                     /\ DeskAsks[q].id = Desk!NextId(c)
           /\ Told' = Told \cup {Len(DeskAsks) + 1}
    BY <1>6, <1>8, <2>4, <2>5
  <2>7. Desk!Asks(c, kind)
    BY <1>4, <1>6, <1>9, <1>10, <2>1, <2>6 DEF Desk!Asks, DeskAsks, Told
  <2> QED BY <1>4, <2>7 DEF Desk!DeskNext
<1>11. CASE kind \notin ApprovalKinds /\ SendMessage(m) /\ UNCHANGED approvals
  <2>1. \A q \in DOMAIN asks' \ DOMAIN asks : asks'[q].kind \notin ApprovalKinds
    BY <1>2, <1>4, <1>11
  <2>2. \/ Desk!Starts /\ Told' = Told
        \/ ReachesCodex(id) /\ Len(wire') = Len(wire) /\ alive' = alive
    <3>1. CASE WriteNow(m)
      <4>1. PICK d \in Children : /\ d = child /\ d \in alive
                                  /\ wire' = [wire EXCEPT ![d] = Append(@, m)]
        BY <3>1, LineTo DEF WriteNow
      <4>2. Told' = Told \cup Hits(d, m) /\ Len(wire') = Len(wire)
        BY <1>2, <1>4, <2>1, <4>1, LineTold
      <4>3. m.kind = "response" /\ m.id = id
        BY <1>3
      <4> QED BY <3>1, <4>1, <4>2, <4>3, DeskReaches DEF WriteNow
    <3>2. CASE SpawnFor(m)
      <4>1. /\ Told' = Told
            /\ Len(wire') = Len(wire) + 1 /\ alive' = alive \cup {Len(wire) + 1}
        BY <1>2, <1>4, <2>1, <3>2, SpawnTold
      <4> QED BY <4>1 DEF Desk!Starts
    <3> QED BY <1>11, <3>1, <3>2 DEF SendMessage
  <2>3. \/ Desk!Starts /\ Told' = Told
        \/ Desk!Reaches(Desk!NextId(c)) /\ Len(wire') = Len(wire) /\ alive' = alive
    BY <1>8, <2>2, ReachedDesk
  <2>4. Desk!Refused(c, kind)
    BY <1>4, <1>9, <1>11, <2>3 DEF Desk!Refused, Told
  <2> QED BY <1>4, <1>11, <2>4 DEF Desk!DeskNext
<1> QED BY <1>2, <1>3, <1>10, <1>11 DEF HandleServerRequest

(* The service implements ApprovalDesk: a request waits until somebody      *)
(* decides it; the decision reaches the codex that asked, once, or, if that *)
(* codex is gone, nobody or the open request of the same id of a codex that *)
(* lives.                                                                   *)
THEOREM ImplementsTheDesk == ApprovalsSpec => KeepsTheDesk
<1>1. ApprovalsInit => Desk!DeskInit
  <2> SUFFICES ASSUME ApprovalsInit PROVE Desk!DeskInit
    OBVIOUS
  <2>1. asks = <<>> /\ DOMAIN asks = {} /\ approvals = {} /\ wire = <<>> /\ alive = {}
    BY DEF ApprovalsInit, Init, ProcInit
  <2>2. DeskAsks = <<>>
    BY <2>1 DEF DeskAsks
  <2>3. Told = {} /\ Len(wire) = 0
    BY <2>1 DEF Told
  <2> QED BY <2>1, <2>2, <2>3 DEF Desk!DeskInit, DeskAsks, Told
<1>2. TypeOK /\ OneProcess /\ ApprovalsInv /\ MatchInv /\ [ApprovalsNext]_allVars
        => [Desk!DeskNext]_(Desk!deskVars)
  <2> SUFFICES ASSUME TypeOK, OneProcess, ApprovalsInv, MatchInv, [ApprovalsNext]_allVars
               PROVE  [Desk!DeskNext]_(Desk!deskVars)
    OBVIOUS
  <2>1. CASE ClientStep
    BY <2>1, ClientStepDesk
  <2>2. ASSUME NEW c \in Children, RespondElapsed(c) PROVE [Desk!DeskNext]_(Desk!deskVars)
    BY <2>2, RespondElapsedDesk
  <2>3. ASSUME NEW c \in Children, NEW kind \in ApprovalKinds \cup {"other"}, CodexAsks(c, kind)
        PROVE  [Desk!DeskNext]_(Desk!deskVars)
    BY <2>3, CodexAsksDesk
  <2>4. ASSUME NEW kind \in ApprovalKinds, NEW r \in DOMAIN asks, Approve(kind, r)
        PROVE  [Desk!DeskNext]_(Desk!deskVars)
    BY <2>4, ApproveDesk
  <2>5. CASE UNCHANGED allVars
    <3>1. UNCHANGED <<asks, approvals, alive, wire>>
      BY <2>5 DEF allVars, vars, procVars
    <3> QED BY <3>1, SilenceTold, DeskStutters
  <2> QED BY <2>1, <2>2, <2>3, <2>4, <2>5 DEF ApprovalsNext
<1> QED BY <1>1, <1>2, ApprovalsAlways, MatchAlways, PTL DEF ApprovalsSpec, KeepsTheDesk, Desk!DeskSpec
=============================================================================
