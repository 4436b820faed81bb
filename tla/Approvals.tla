----------------------------- MODULE Approvals ------------------------------
(***************************************************************************)
(* ApprovalService over JsonRpcClient: codex asks for permission with a     *)
(* JSON-RPC request of its own, the service keeps it until the user's       *)
(* decision arrives over HTTP, and answers codex with rpc.respond, which    *)
(* neither initializes nor asks which incarnation it is talking to.         *)
(*                                                                         *)
(* The n-th request of codex gets the requestId n (a fresh UUID in the      *)
(* code); its JSON-RPC id counts the requests of its own incarnation, so    *)
(* the ids of two incarnations coincide, and codex takes any answer with    *)
(* the id of an open request of its own for the answer to that request.     *)
(***************************************************************************)
EXTENDS JsonRpcClient

CONSTANT MaxAsks      \* bound: requests codex makes in all

ASSUME AsksAssumption == MaxAsks \in Nat

VARIABLES
  asks,       \* asks[r]: the incarnation that made request r, its id and kind,
              \* and how many lines of its stdin it had seen by then
  approvals   \* the keys of this.pending

allVars == <<vars, asks, approvals>>

ApprovalKinds == {"command", "file"}

(* rpc.respond(rpcId, ...): of request r, only the id goes to codex.        *)
Response(r) == [kind |-> "response", id |-> asks[r].id, owner |-> r]

ApprovalsInit ==
  /\ Init
  /\ asks = <<>>
  /\ approvals = {}

(* handleServerRequest: an approval is stored under a new requestId; any    *)
(* other request is refused at once by respondError.                        *)
HandleServerRequest(kind, id, r) ==
  \/ /\ kind \in ApprovalKinds
     /\ approvals' = approvals \cup {r}
     /\ UNCHANGED procVars
  \/ /\ kind \notin ApprovalKinds
     /\ SendMessage([kind |-> "response", id |-> id, owner |-> r])
     /\ UNCHANGED approvals

(* codex asks while it works on a request this client made; the lines it    *)
(* has not read by then it reads with the request open.                     *)
CodexAsks(c, kind) ==
  LET id == Cardinality({r \in DOMAIN asks : asks[r].child = c}) IN
  /\ Turn
  /\ c \in alive
  /\ Len(asks) < MaxAsks
  /\ \E i \in DOMAIN wire[c] : wire[c][i] \in served
  /\ \E seen \in DOMAIN wire[c] :
       /\ \A i \in DOMAIN wire[c] : wire[c][i] \in served => i <= seen
       /\ \A r \in DOMAIN asks : asks[r].child = c => asks[r].seen <= seen
       /\ asks' = Append(asks, [child |-> c, id |-> id, kind |-> kind, seen |-> seen])
  /\ HandleServerRequest(kind, id, Len(asks) + 1)
  /\ UNCHANGED <<clientVars, codexVars, crashes, phase>>

(* Mutants, here and below: altered forms of the definition that follows,   *)
(* each of which breaks a property (README, "Mutants").                     *)
ApproveKeepsEntry(kind, r) ==
  /\ Turn /\ phase = "up"
  /\ r \in approvals /\ asks[r].kind = kind
  /\ SendMessage(Response(r))
  /\ UNCHANGED <<clientVars, codexVars, crashes, phase, asks, approvals>>

(* approveCommand / approveFileChange on a pending request of that type.    *)
(* With a child the answer is written and the entry deleted in one turn;    *)
(* without one, respond spawns a child and the entry stays until            *)
(* RespondElapsed.  A requestId that is not pending, or of the other type,  *)
(* is a 404 that changes nothing.                                           *)
Approve(kind, r) ==
  /\ Turn /\ phase = "up"
  /\ r \in approvals /\ asks[r].kind = kind
  /\ SendMessage(Response(r))
  /\ approvals' = IF child # 0 THEN approvals \ {r} ELSE approvals
  /\ UNCHANGED <<clientVars, codexVars, crashes, phase, asks>>

RespondKeepsEntry(c) ==
  /\ held[c] # NoMessage /\ held[c].kind = "response"
  /\ StartTimer(c)
  /\ UNCHANGED <<asks, approvals>>

(* The start timer, where a response slept on it: the decision is over.     *)
RespondElapsed(c) ==
  /\ held[c] # NoMessage /\ held[c].kind = "response"
  /\ StartTimer(c)
  /\ approvals' = approvals \ {held[c].owner}
  /\ UNCHANGED asks

(* The steps of the client: none of them, exits included, looks at this     *)
(* service.                                                                 *)
ClientStep ==
  /\ \/ \E k \in Calls : Begin(k) \/ Retry(k) \/ SendRequest(k) \/ RequestTimeout(k)
     \/ \E c \in Children :
          \/ held[c] # NoMessage /\ held[c].kind # "response" /\ StartTimer(c)
          \/ Crash(c) \/ Stopped(c)
     \/ \E c \in Children : \E i \in DOMAIN wire[c] :
          \/ CodexWelcomes(c, i) \/ CodexRejectsInitialize(c, i)
          \/ CodexServes(c, i) \/ CodexRefuses(c, i)
     \/ InitializeTimeout
     \/ Stop
  /\ UNCHANGED <<asks, approvals>>

ApprovalsNext ==
  \/ ClientStep
  \/ \E c \in Children :
       RespondElapsed(c) \/ \E kind \in ApprovalKinds \cup {"other"} : CodexAsks(c, kind)
  \/ \E kind \in ApprovalKinds, r \in DOMAIN asks : Approve(kind, r)

ApprovalsSpec == ApprovalsInit /\ [][ApprovalsNext]_allVars

-----------------------------------------------------------------------------
(* Properties                                                               *)

(* What codex takes for the answer to its request r: the responses with its *)
(* id among the lines it reads after it asked.                              *)
Answers(r) ==
  {i \in DOMAIN wire[asks[r].child] :
     LET m == wire[asks[r].child][i] IN
     i > asks[r].seen /\ m.kind = "response" /\ m.id = asks[r].id}

(* Those among them that were made for a request of another incarnation.    *)
Strays(r) ==
  {i \in Answers(r) : asks[wire[asks[r].child][i].owner].child # asks[r].child}

(* A codex that asked is told exactly once, whoever decides and however     *)
(* often: an entry leaves pending with its answer written, and while that   *)
(* codex lives it leaves in no other way.  The exception is the one the     *)
(* code has: an answer meant for another incarnation, with the same id.     *)
AnsweredOnce ==
  \A r \in DOMAIN asks :
    /\ Cardinality(Answers(r) \ Strays(r)) <= 1
    /\ asks[r].kind \in ApprovalKinds /\ asks[r].child \in alive
         => (r \in approvals <=> Answers(r) \ Strays(r) = {})

(* What the user is still asked has not been answered to any incarnation,   *)
(* decisions that had to start one included; and until shutdown, if its own *)
(* codex lives and took another answer for it, then one to a request of a   *)
(* codex that had exited.                                                   *)
PendingIsUnanswered ==
  /\ \A c \in Children : \A i \in DOMAIN wire[c] :
       wire[c][i].kind = "response" => wire[c][i].owner \notin approvals
  /\ phase = "up" =>
       \A r \in approvals : \A i \in Answers(r) :
         LET q == wire[asks[r].child][i].owner IN
         asks[r].child \in alive => asks[q].child \notin alive

Desk == INSTANCE ApprovalDesk WITH
  asks <- [r \in DOMAIN asks |->
             [codex |-> asks[r].child, id |-> asks[r].id, kind |-> asks[r].kind]],
  answered <- {r \in DOMAIN asks : asks[r].kind \in ApprovalKinds /\ Answers(r) # {}},
  started <- Len(wire),
  living <- alive

(* The service implements ApprovalDesk, on which the pages of              *)
(* ApprovalBanner are built: with a codex that may exit and start at every  *)
(* moment, a request leaves pending by its one answer, or after the end of  *)
(* the codex that made it, and only then may its decision answer what       *)
(* another codex asks.                                                      *)
KeepsTheDesk == Desk!DeskSpec
=============================================================================
