--------------------------- MODULE JsonRpcClient ----------------------------
(***************************************************************************)
(* The JSON-RPC client of the BFF (class JsonRpcClient) over the process    *)
(* manager, with the codex process as the environment: the initialize       *)
(* handshake, request ids, the pending map, timeouts, the overload retry,   *)
(* and what the exit of the child does to all of them.                      *)
(*                                                                         *)
(* An action is one turn of the JavaScript event loop.  Where a turn        *)
(* resumes several awaiting calls, each resumes in an action of its own,    *)
(* and Turn keeps every other event out until all of them have run: the     *)
(* microtask queue drains before the next event.                            *)
(***************************************************************************)
EXTENDS CodexProcess, Integers, FiniteSets

CONSTANTS
  Calls,        \* the calls of JsonRpcClient.request
  Nobody,       \* owner of the messages that belong to no call
  MaxRetries,   \* attempts per call (maxRetries in the code)
  MaxCrashes    \* bound: exits of the child nobody asked for

ASSUME ClientAssumption ==
  /\ Nobody \notin Calls
  /\ MaxRetries \in Nat \ {0}
  /\ MaxCrashes \in Nat

(* What is written on the wire is the kind and the id, by which codex tells *)
(* an answer's question.  The owner is not: it is the call, or the request  *)
(* of codex (a number, Approvals), whose continuation sent the message, and *)
(* that continuation and the properties alone speak of it.                  *)
Messages == [kind : {"initialize", "initialized", "request", "response"},
             id : Nat, owner : Calls \cup {Nobody} \cup Nat]

(* Where a call can be: not begun; awaiting ensureInitialized; about to     *)
(* send; awaiting the answer; sleeping between attempts; settled.           *)
Places == {"idle", "ensure", "resumed", "flight", "backoff", "ok", "failed"}

ASSUME NoMessageAssumption == NoMessage \notin Messages

VARIABLES
  nextId,        \* this.nextId
  pending,       \* the keys of this.pending
  initialized,   \* this.initialized
  initializing,  \* the id of the initialize request this.initializing awaits, or 0
  pc,            \* pc[k]: where call k is in request / rawRequest
  attempt,       \* attempt[k]: the loop variable of request
  callId,        \* callId[k]: the id of its latest rawRequest, or 0
  answered,      \* ids codex has answered, whoever listened
  welcomed,      \* ids of the initialize requests it has accepted
  served,        \* the requests codex has carried out
  crashes,       \* unasked exits so far
  phase          \* "up", "closing" (rpc.close() awaits the exit) or "down"

clientVars == <<nextId, pending, initialized, initializing, pc, attempt, callId>>
codexVars == <<answered, welcomed, served>>
vars == <<procVars, clientVars, codexVars, crashes, phase>>

Initialize(id) == [kind |-> "initialize", id |-> id, owner |-> Nobody]
Initialized == [kind |-> "initialized", id |-> 0, owner |-> Nobody]
Request(id, k) == [kind |-> "request", id |-> id, owner |-> k]

Init ==
  /\ ProcInit
  /\ nextId = 1
  /\ pending = {}
  /\ initialized = FALSE
  /\ initializing = 0
  /\ pc = [k \in Calls |-> "idle"]
  /\ attempt = [k \in Calls |-> 0]
  /\ callId = [k \in Calls |-> 0]
  /\ answered = {}
  /\ welcomed = {}
  /\ served = {}
  /\ crashes = 0
  /\ phase = "up"

(* No call is about to resume: the next event may be taken.                 *)
Turn ==
  /\ phase # "down"
  /\ \A k \in Calls : pc[k] # "resumed"

(* Mutants, here and below: altered forms of the definition that follows,   *)
(* each of which breaks a property (README, "Mutants").                     *)
FailNoneInFlight(s) ==
  [k \in Calls |-> IF pc[k] \in s \ {"flight"} THEN "failed" ELSE pc[k]]
FailNoneWaiting(s) ==
  [k \in Calls |-> IF pc[k] \in s \ {"ensure"} THEN "failed" ELSE pc[k]]

(* The calls whose await rejects, by where they are.                        *)
FailWaiters(s) == [k \in Calls |-> IF pc[k] \in s THEN "failed" ELSE pc[k]]

-----------------------------------------------------------------------------
(* ensureInitialized, called by k (which resumes in SendRequest).           *)
EnsureInitialized(k) ==
  \/ /\ initialized
     /\ pc' = [pc EXCEPT ![k] = "resumed"]
     /\ UNCHANGED <<procVars, nextId, pending, initializing>>
  \/ /\ ~initialized /\ initializing # 0
     /\ pc' = [pc EXCEPT ![k] = "ensure"]
     /\ UNCHANGED <<procVars, nextId, pending, initializing>>
  \/ /\ ~initialized /\ initializing = 0
     /\ pc' = [pc EXCEPT ![k] = "ensure"]
     /\ nextId' = nextId + 1
     /\ pending' = pending \cup {nextId}
     /\ initializing' = nextId
     /\ SendMessage(Initialize(nextId))

(* A route handler calls request.                                           *)
Begin(k) ==
  /\ Turn /\ phase = "up"
  /\ pc[k] = "idle"
  /\ EnsureInitialized(k)
  /\ UNCHANGED <<initialized, attempt, callId, codexVars, crashes, phase>>

(* The backoff timer of k fires: the next attempt enters rawRequest.        *)
Retry(k) ==
  /\ Turn
  /\ pc[k] = "backoff"
  /\ EnsureInitialized(k)
  /\ UNCHANGED <<initialized, attempt, callId, codexVars, crashes, phase>>

(* rawRequest past ensureInitialized: allocate an id, register it, send.    *)
SendRequest(k) ==
  /\ phase # "down"
  /\ pc[k] = "resumed"
  /\ pc' = [pc EXCEPT ![k] = "flight"]
  /\ callId' = [callId EXCEPT ![k] = nextId]
  /\ nextId' = nextId + 1
  /\ pending' = pending \cup {nextId}
  /\ SendMessage(Request(nextId, k))
  /\ UNCHANGED <<initialized, initializing, attempt, codexVars, crashes, phase>>

(* The handshake is over: the calls that wait for it resume.                *)
Shake ==
  /\ initialized' = TRUE
  /\ initializing' = 0
  /\ pc' = [k \in Calls |-> IF pc[k] = "ensure" THEN "resumed" ELSE pc[k]]

(* The start timer of incarnation c, and what awaited it: nothing but a     *)
(* handshake whose "initialized" had to spawn a child.                      *)
StartTimer(c) ==
  /\ Turn
  /\ StartElapsed(c)
  /\ IF held[c] = Initialized THEN Shake ELSE UNCHANGED <<initialized, initializing, pc>>
  /\ UNCHANGED <<nextId, pending, attempt, callId, codexVars, crashes, phase>>

-----------------------------------------------------------------------------
(* Answers of codex.  Message i on the wire of c is answered at any time    *)
(* while c lives.  A connection accepts one initialize at most; requests    *)
(* before it are refused.                                                   *)

Unanswered(c, i) ==
  /\ c \in alive
  /\ wire[c][i].kind \in {"initialize", "request"}
  /\ wire[c][i].id \notin answered

Accepted(c, j) == wire[c][j].kind = "initialize" /\ wire[c][j].id \in welcomed
Handshaken(c, i) == \E j \in 1..(i - 1) : Accepted(c, j)

(* A response line for an initialize this client still waits for makes it   *)
(* send "initialized", which ends the handshake in the same turn if there   *)
(* is a child to write to (there is none only while rpc.close() waits).     *)
CodexWelcomes(c, i) ==
  /\ Turn
  /\ Unanswered(c, i)
  /\ wire[c][i].kind = "initialize"
  /\ \A j \in DOMAIN wire[c] : ~Accepted(c, j)
  /\ answered' = answered \cup {wire[c][i].id}
  /\ welcomed' = welcomed \cup {wire[c][i].id}
  /\ pending' = pending \ {wire[c][i].id}
  /\ IF wire[c][i].id \in pending
     THEN /\ SendMessage(Initialized)
          /\ IF child # 0 THEN Shake ELSE UNCHANGED <<initialized, initializing, pc>>
     ELSE UNCHANGED <<procVars, initialized, initializing, pc>>
  /\ UNCHANGED <<nextId, attempt, callId, served, crashes, phase>>

(* "Already initialized", or any other error, of a first initialize too.    *)
CodexRejectsInitialize(c, i) ==
  /\ Turn
  /\ Unanswered(c, i)
  /\ wire[c][i].kind = "initialize"
  /\ answered' = answered \cup {wire[c][i].id}
  /\ pending' = pending \ {wire[c][i].id}
  /\ IF wire[c][i].id \in pending
     THEN /\ initializing' = 0
          /\ pc' = FailWaiters({"ensure"})
     ELSE UNCHANGED <<initializing, pc>>
  /\ UNCHANGED <<procVars, nextId, initialized, attempt, callId, welcomed, served,
                 crashes, phase>>

(* codex carries a request out; handleLine resolves or rejects (502) the    *)
(* entry of pending, or drops the line when there is none.                  *)
CodexServes(c, i) ==
  /\ Turn
  /\ Unanswered(c, i)
  /\ wire[c][i].kind = "request"
  /\ Handshaken(c, i)
  /\ answered' = answered \cup {wire[c][i].id}
  /\ served' = served \cup {wire[c][i]}
  /\ pending' = pending \ {wire[c][i].id}
  /\ IF wire[c][i].id \in pending
     THEN \E outcome \in {"ok", "failed"}, k \in Calls :
            /\ callId[k] = wire[c][i].id
            /\ pc' = [pc EXCEPT ![k] = outcome]
     ELSE UNCHANGED pc
  /\ UNCHANGED <<procVars, nextId, initialized, initializing, attempt, callId, welcomed,
                 crashes, phase>>

RetriesLeftOneMore(k) == attempt[k] < MaxRetries

(* shouldRetryOnOverload && attempt < maxRetries - 1                        *)
RetriesLeft(k) == attempt[k] < MaxRetries - 1

(* codex refuses a request: "Not initialized", which fails the call, or     *)
(* "Server overloaded; retry later.", which is worth another attempt.       *)
CodexRefuses(c, i) ==
  /\ Turn
  /\ Unanswered(c, i)
  /\ wire[c][i].kind = "request"
  /\ answered' = answered \cup {wire[c][i].id}
  /\ pending' = pending \ {wire[c][i].id}
  /\ IF wire[c][i].id \in pending
     THEN \E k \in Calls :
            /\ callId[k] = wire[c][i].id
            /\ IF Handshaken(c, i) /\ RetriesLeft(k)
               THEN /\ pc' = [pc EXCEPT ![k] = "backoff"]
                    /\ attempt' = [attempt EXCEPT ![k] = @ + 1]
               ELSE /\ pc' = [pc EXCEPT ![k] = "failed"]
                    /\ UNCHANGED attempt
     ELSE UNCHANGED <<pc, attempt>>
  /\ UNCHANGED <<procVars, nextId, initialized, initializing, callId, welcomed, served,
                 crashes, phase>>

-----------------------------------------------------------------------------
(* Timeouts of rawRequest.  They are 15 s and 30 s, so the 100 ms timer of  *)
(* start() that holds the message back has fired before.                    *)
Sent(id) == id \notin {held[c].id : c \in {c \in Children : held[c] # NoMessage}}

InitializeTimeout ==
  /\ Turn
  /\ initializing \in pending
  /\ Sent(initializing)
  /\ pending' = pending \ {initializing}
  /\ initializing' = 0
  /\ pc' = FailWaiters({"ensure"})
  /\ UNCHANGED <<procVars, nextId, initialized, attempt, callId, codexVars, crashes, phase>>

TimeoutKeepsEntry(k) ==
  /\ Turn
  /\ pc[k] = "flight"
  /\ callId[k] \in pending
  /\ Sent(callId[k])
  /\ pc' = [pc EXCEPT ![k] = "failed"]
  /\ UNCHANGED <<procVars, nextId, pending, initialized, initializing, attempt, callId,
                 codexVars, crashes, phase>>

TimeoutIsRetried(k) ==
  /\ Turn
  /\ pc[k] = "flight"
  /\ callId[k] \in pending
  /\ Sent(callId[k])
  /\ pending' = pending \ {callId[k]}
  /\ IF RetriesLeft(k)
     THEN /\ pc' = [pc EXCEPT ![k] = "backoff"]
          /\ attempt' = [attempt EXCEPT ![k] = @ + 1]
     ELSE pc' = [pc EXCEPT ![k] = "failed"] /\ UNCHANGED attempt
  /\ UNCHANGED <<procVars, nextId, initialized, initializing, callId, codexVars,
                 crashes, phase>>

RequestTimeout(k) ==
  /\ Turn
  /\ pc[k] = "flight"
  /\ callId[k] \in pending
  /\ Sent(callId[k])
  /\ pending' = pending \ {callId[k]}
  /\ pc' = [pc EXCEPT ![k] = "failed"]
  /\ UNCHANGED <<procVars, nextId, initialized, initializing, attempt, callId,
                 codexVars, crashes, phase>>

ExitKeepsInitialized(c) ==
  /\ ProcExit(c)
  /\ initializing' = 0
  /\ pending' = {}
  /\ pc' = FailWaiters({"ensure", "flight"})
  /\ UNCHANGED <<nextId, initialized, attempt, callId, codexVars>>

(* The "exit" handlers of the client and of the manager, for incarnation c. *)
ExitHandlers(c) ==
  /\ ProcExit(c)
  /\ initialized' = FALSE
  /\ initializing' = 0
  /\ pending' = {}
  /\ pc' = FailWaiters({"ensure", "flight"})
  /\ UNCHANGED <<nextId, attempt, callId, codexVars>>

(* An exit nobody asked for.  While closing, the signalled child exits by   *)
(* Stopped; and, a bound, no other does while "initialized" waits for its.  *)
Crash(c) ==
  /\ Turn
  /\ phase = "closing" => \E d \in alive : d < c
  /\ \A d \in Children : held[d] # Initialized
  /\ crashes < MaxCrashes
  /\ crashes' = crashes + 1
  /\ ExitHandlers(c)
  /\ UNCHANGED phase

(* rpc.close() out of the onClose hook.  Without a child there is nothing   *)
(* to await and main.ts exits the process; otherwise it exits with the      *)
(* "exit" event of the child that was signalled (the oldest one alive).     *)
Stop ==
  /\ Turn /\ phase = "up"
  /\ phase' = IF child = 0 THEN "down" ELSE "closing"
  /\ ProcStop
  /\ UNCHANGED <<clientVars, codexVars, crashes>>

(* The signalled child exits.                                               *)
Stopped(c) ==
  /\ Turn /\ phase = "closing"
  /\ \A d \in alive : c <= d
  /\ ExitHandlers(c)
  /\ phase' = "down"
  /\ UNCHANGED crashes

Next ==
  \/ \E k \in Calls : Begin(k) \/ Retry(k) \/ SendRequest(k) \/ RequestTimeout(k)
  \/ \E c \in Children : StartTimer(c) \/ Crash(c) \/ Stopped(c)
  \/ \E c \in Children : \E i \in DOMAIN wire[c] :
       \/ CodexWelcomes(c, i) \/ CodexRejectsInitialize(c, i)
       \/ CodexServes(c, i) \/ CodexRefuses(c, i)
  \/ InitializeTimeout
  \/ Stop

Spec == Init /\ [][Next]_vars

(* Timers fire and microtasks run; nothing is assumed of codex, except that *)
(* it exits once it has been told to.                                       *)
Fairness ==
  /\ \A k \in Calls : WF_vars(SendRequest(k)) /\ WF_vars(Retry(k)) /\ WF_vars(RequestTimeout(k))
  /\ WF_vars(\E c \in Children : StartTimer(c))
  /\ WF_vars(InitializeTimeout)
  /\ WF_vars(\E c \in Children : Stopped(c))

FairSpec == Spec /\ Fairness

-----------------------------------------------------------------------------
(* Properties                                                               *)

ProcTypeOK ==
  /\ wire \in Seq(Seq(Messages))
  /\ held \in Seq(Messages \cup {NoMessage})
  /\ Len(held) = Len(wire)
  /\ child \in 0..Len(wire)
  /\ starting \in 0..Len(wire)
  /\ alive \subseteq 1..Len(wire)

ClientTypeOK ==
  /\ nextId \in Nat \ {0}
  /\ pending \subseteq 1..(nextId - 1)
  /\ initialized \in BOOLEAN
  /\ initializing \in 0..(nextId - 1)
  /\ pc \in [Calls -> Places]
  /\ attempt \in [Calls -> 0..(MaxRetries - 1)]
  /\ callId \in [Calls -> 0..(nextId - 1)]
  /\ answered \subseteq Nat
  /\ welcomed \subseteq Nat
  /\ served \subseteq Messages
  /\ crashes \in 0..MaxCrashes
  /\ phase \in {"up", "closing", "down"}

(* The types of the manager's and the client's fields; every incarnation    *)
(* and every id in use is one that was spawned, or handed out by nextId.    *)
TypeOK == ProcTypeOK /\ ClientTypeOK

(* Until shutdown the child the client writes to is the only codex process  *)
(* there is, and ensureStarted never meets a start() without its child.     *)
OneProcess ==
  /\ starting # 0 => child = starting
  /\ phase = "up" => alive = (IF child = 0 THEN {} ELSE {child})

(* Before its i-th message, c accepted an initialize and was then told      *)
(* "initialized".                                                           *)
Greeted(c, i) ==
  \E h, a \in 1..(i - 1) :
    /\ h < a
    /\ Accepted(c, h)
    /\ wire[c][a].kind = "initialized"

(* Until shutdown a request reaches an incarnation only after that very     *)
(* incarnation has accepted an initialize and been told "initialized",      *)
(* whatever exits and restarts happened while the call was waiting.         *)
HandshakeFirst ==
  phase = "up" =>
    \A c \in Children : \A i \in DOMAIN wire[c] :
      wire[c][i].kind = "request" => Greeted(c, i)

(* The inductive strengthening of HandshakeFirst: a call resumes only when  *)
(* the handshake is done; the flag speaks of the current child; and only an *)
(* initialize waits for the start of a child.                               *)
HandshakeInv ==
  /\ HandshakeFirst
  /\ \A k \in Calls : pc[k] = "resumed" => initialized
  /\ phase = "up" =>
       /\ initialized => child # 0 /\ Greeted(child, Len(wire[child]) + 1)
       /\ \A c \in Children : held[c] # NoMessage => held[c].kind = "initialize"

(* A call in flight is registered in pending and can still be answered: its *)
(* request waits for a start timer or lies, unanswered, with a live child.  *)
NoStrandedCall ==
  phase # "down" =>
    \A k \in Calls : pc[k] = "flight" =>
      /\ callId[k] \in pending \ answered
      /\ \/ ~Sent(callId[k])
         \/ \E c \in alive : \E i \in DOMAIN wire[c] :
              wire[c][i] = Request(callId[k], k)

(* Nothing is left in pending that no caller waits for: an entry belongs to *)
(* the initialize under way or to the latest request of one call in flight. *)
NoLeakedEntry ==
  /\ pending \subseteq {initializing} \cup {callId[k] : k \in {k \in Calls : pc[k] = "flight"}}
  /\ \A j, k \in Calls : pc[j] = "flight" /\ pc[k] = "flight" /\ callId[j] = callId[k] => j = k

(* The calls, seen from the services: no process, no handshake, no ids.     *)
CallStage(k) == IF pc[k] \in {"idle", "ok", "failed"} THEN pc[k] ELSE "waiting"

Service == INSTANCE CallService WITH
  stage <- [k \in Calls |-> CallStage(k)],
  executed <- [k \in Calls |-> Cardinality({m \in served : m.owner = k})]

(* The client implements CallService: a call is executed at most once       *)
(* across retries and restarts, and succeeds only by its own execution.     *)
CallsOnce == Service!Spec

(* Every call is resolved or rejected, whatever codex does or fails to do,  *)
(* unless the BFF itself exits first; and a shutdown ends when codex obeys  *)
(* SIGTERM, calls still retrying or not.                                    *)
EverythingEnds ==
  /\ \A k \in Calls :
       CallStage(k) = "waiting" ~> (CallStage(k) # "waiting" \/ phase = "down")
  /\ phase = "closing" ~> phase = "down"
=============================================================================
