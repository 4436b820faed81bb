------------------------- MODULE NotificationRouter -------------------------
(***************************************************************************)
(* NotificationRouter: the notifications of codex, in the order they come   *)
(* over its stdout, become UI events.  Every UI event names its thread; a   *)
(* notification need not, so the router remembers which thread each turn    *)
(* and each item belongs to.                                                *)
(*                                                                         *)
(* codex is external: turns and items run their course, several threads at  *)
(* a time, and what a notification says is true; which ids it says is       *)
(* chosen anew each time, within the sets of hints given below.             *)
(***************************************************************************)
CONSTANTS
  Threads, Turns, Items,
  ThreadOf,     \* ThreadOf[u]: the thread turn u runs in
  TurnOf,       \* TurnOf[i]: the turn item i belongs to
  TypeOf,       \* TypeOf[i]: item.type
  NoThread,     \* undefined
  TurnHints,    \* the ids a turn/* notification may carry besides its own
  ItemHints,    \* those item/started and item/completed may carry
  DeltaHints    \* those a delta may carry

ItemTypes == {"agentMessage", "commandExecution", "mcpToolCall", "webSearch"}
Hints == SUBSET {"thread", "turn"}

ASSUME RouterAssumption ==
  /\ ThreadOf \in [Turns -> Threads]
  /\ TurnOf \in [Items -> Turns]
  /\ TypeOf \in [Items -> ItemTypes]
  /\ NoThread \notin Threads
  /\ TurnHints \subseteq SUBSET {"thread"}
  /\ ItemHints \subseteq Hints /\ DeltaHints \subseteq Hints

VARIABLES
  turnIdToThreadId,  \* a function on the turns the router knows
  itemIdToThreadId,  \* a function on the items it knows
  turnIdToItemIds,   \* a function on the turns whose items it collects
  emitted,           \* what the latest notification published on the bus
  turn,              \* turn[u]: "new", "active", "over" or "lost", at codex
  item,              \* item[i]: "new", "active" or "over", at codex
  told               \* the latest notification: kind and subject

caches == <<turnIdToThreadId, itemIdToThreadId, turnIdToItemIds>>
vars == <<caches, emitted, turn, item, told>>

None == [x \in {} |-> NoThread]     \* an empty Map

(* Map.set, Map.delete and Map.get                                          *)
Set(map, key, value) ==
  [k \in DOMAIN map \cup {key} |-> IF k = key THEN value ELSE map[k]]

Delete(map, keys) == [k \in DOMAIN map \ keys |-> map[k]]

Get(map, key, default) == IF key \in DOMAIN map THEN map[key] ELSE default

Event(kind, thread, subject) == [kind |-> kind, thread |-> thread, subject |-> subject]

Nothing == Event("none", NoThread, NoThread)     \* no event

Init ==
  /\ turnIdToThreadId = None
  /\ itemIdToThreadId = None
  /\ turnIdToItemIds = None
  /\ emitted = Nothing
  /\ turn = [u \in Turns |-> "new"]
  /\ item = [i \in Items |-> "new"]
  /\ told = [kind |-> "none", subject |-> NoThread]

Emit(kind, thread, subject) == emitted' = Event(kind, thread, subject)

Tell(kind, subject) == told' = [kind |-> kind, subject |-> subject]

-----------------------------------------------------------------------------
(* route: "turn/started".  Without turn.threadId it returns.                *)
TurnStarted(u, hints) ==
  /\ turn[u] = "new"
  /\ turn' = [turn EXCEPT ![u] = "active"]
  /\ Tell("turn.started", u)
  /\ IF "thread" \in hints
     THEN /\ turnIdToThreadId' = Set(turnIdToThreadId, u, ThreadOf[u])
          /\ Emit("turn.started", ThreadOf[u], u)
     ELSE emitted' = Nothing /\ UNCHANGED turnIdToThreadId
  /\ UNCHANGED <<itemIdToThreadId, turnIdToItemIds, item>>

(* Mutants, here and below: altered forms of the definition that follows,   *)
(* each of which breaks a property (README, "Mutants").                     *)
ItemsStay(u, hints) ==
  /\ turn[u] = "active"
  /\ turn' = [turn EXCEPT ![u] = "over"]
  /\ item' = [i \in Items |-> IF TurnOf[i] = u THEN "over" ELSE item[i]]
  /\ Tell("turn.completed", u)
  /\ IF "thread" \in hints
     THEN /\ Emit("turn.completed", ThreadOf[u], u)
          /\ turnIdToThreadId' = Delete(turnIdToThreadId, {u})
          /\ turnIdToItemIds' = Delete(turnIdToItemIds, {u})
          /\ UNCHANGED itemIdToThreadId
     ELSE emitted' = Nothing /\ UNCHANGED caches

(* route: "turn/completed".  The event, and then the end of what the router *)
(* remembers of the turn and of the items collected for it.  A turn that is *)
(* interrupted may leave items without an item/completed.                   *)
TurnCompleted(u, hints) ==
  /\ turn[u] = "active"
  /\ turn' = [turn EXCEPT ![u] = "over"]
  /\ item' = [i \in Items |-> IF TurnOf[i] = u THEN "over" ELSE item[i]]
  /\ Tell("turn.completed", u)
  /\ IF "thread" \in hints
     THEN /\ Emit("turn.completed", ThreadOf[u], u)
          /\ turnIdToThreadId' = Delete(turnIdToThreadId, {u})
          /\ itemIdToThreadId' = Delete(itemIdToThreadId, Get(turnIdToItemIds, u, {}))
          /\ turnIdToItemIds' = Delete(turnIdToItemIds, {u})
     ELSE emitted' = Nothing /\ UNCHANGED caches

(* The event an item notification is turned into, by item.type; "none" for  *)
(* messages, and for a search that only begins.                             *)
ItemEvent(i, kind) ==
  CASE TypeOf[i] \in {"commandExecution", "mcpToolCall"} -> "tool.status"
    [] TypeOf[i] = "webSearch" /\ kind = "item/completed" -> "sources.updated"
    [] OTHER -> "none"

ThreadNamed(i, hints) == IF "thread" \in hints THEN ThreadOf[TurnOf[i]] ELSE NoThread

(* The thread of an item notification: the one it names, else that of its   *)
(* turn, if the router knows it.                                            *)
ItemThread(i, hints) ==
  CASE "thread" \in hints -> ThreadOf[TurnOf[i]]
    [] "thread" \notin hints /\ "turn" \in hints -> Get(turnIdToThreadId, TurnOf[i], NoThread)
    [] OTHER -> NoThread

(* route: "item/started" and "item/completed".                              *)
RouteItem(i, kind, hints) ==
  LET u == TurnOf[i]
      thread == ItemThread(i, hints)
      known == thread # NoThread
  IN /\ turnIdToThreadId' = IF "turn" \in hints /\ known
                            THEN Set(turnIdToThreadId, u, thread) ELSE turnIdToThreadId
     /\ itemIdToThreadId' = IF known THEN Set(itemIdToThreadId, i, thread) ELSE itemIdToThreadId
     /\ turnIdToItemIds' = IF "turn" \in hints
                           THEN Set(turnIdToItemIds, u, Get(turnIdToItemIds, u, {}) \cup {i})
                           ELSE turnIdToItemIds
     /\ IF known /\ ItemEvent(i, kind) # "none"
        THEN Emit(ItemEvent(i, kind), thread, i)
        ELSE emitted' = Nothing

ItemStarted(i, hints) ==
  /\ turn[TurnOf[i]] = "active"
  /\ item[i] = "new"
  /\ item' = [item EXCEPT ![i] = "active"]
  /\ Tell("item/started", i)
  /\ RouteItem(i, "item/started", hints)
  /\ UNCHANGED turn

ItemCompleted(i, hints) ==
  /\ item[i] = "active"
  /\ item' = [item EXCEPT ![i] = "over"]
  /\ Tell("item/completed", i)
  /\ RouteItem(i, "item/completed", hints)
  /\ UNCHANGED turn

(* resolveThreadId: the params, the item cache, the turn cache.             *)
ResolveThreadId(i, hints) ==
  CASE "thread" \in hints -> ThreadOf[TurnOf[i]]
    [] "thread" \notin hints /\ i \in DOMAIN itemIdToThreadId -> itemIdToThreadId[i]
    [] "thread" \notin hints /\ i \notin DOMAIN itemIdToThreadId /\ "turn" \in hints ->
         Get(turnIdToThreadId, TurnOf[i], NoThread)
    [] OTHER -> NoThread

(* route: a delta of an agent message (or of reasoning, which differs in    *)
(* the event's name only).  The thread found is cached with the item.       *)
Delta(i, hints) ==
  /\ TypeOf[i] = "agentMessage"
  /\ item[i] = "active"
  /\ Tell("delta", i)
  /\ IF ResolveThreadId(i, hints) # NoThread
     THEN /\ itemIdToThreadId' = Set(itemIdToThreadId, i, ResolveThreadId(i, hints))
          /\ Emit("agent.delta", ResolveThreadId(i, hints), i)
     ELSE emitted' = Nothing /\ UNCHANGED itemIdToThreadId
  /\ UNCHANGED <<turnIdToThreadId, turnIdToItemIds, turn, item>>

(* codex exits: its turns end without a notification, and nobody tells the  *)
(* router.                                                                  *)
CodexExits ==
  /\ \E u \in Turns : turn[u] = "active"
  /\ turn' = [u \in Turns |-> IF turn[u] = "active" THEN "lost" ELSE turn[u]]
  /\ item' = [i \in Items |-> IF item[i] = "active" THEN "over" ELSE item[i]]
  /\ UNCHANGED <<caches, emitted, told>>

Next ==
  \/ \E u \in Turns, hints \in TurnHints : TurnStarted(u, hints) \/ TurnCompleted(u, hints)
  \/ \E i \in Items, hints \in ItemHints : ItemStarted(i, hints) \/ ItemCompleted(i, hints)
  \/ \E i \in Items, hints \in DeltaHints : Delta(i, hints)
  \/ CodexExits

Spec == Init /\ [][Next]_vars

-----------------------------------------------------------------------------
(* Properties                                                               *)

(* The UI event the latest notification calls for.                          *)
EventDue ==
  LET kind == told.kind
      s == told.subject
  IN CASE kind \in {"turn.started", "turn.completed"} -> Event(kind, ThreadOf[s], s)
       [] kind = "delta" -> Event("agent.delta", ThreadOf[TurnOf[s]], s)
       [] kind \in {"item/started", "item/completed"} /\ ItemEvent(s, kind) # "none" ->
            Event(ItemEvent(s, kind), ThreadOf[TurnOf[s]], s)
       [] OTHER -> Nothing

(* With several threads under way and exits of codex in between, every      *)
(* notification that calls for an event becomes that event, for its own     *)
(* thread, whichever of the hints given it names: what it leaves out the    *)
(* caches know.  The hints have to suffice for that: of a turn notification *)
(* that names no thread there is no event.                                  *)
NothingLost == emitted = EventDue

(* A completed turn leaves nothing behind in the three maps, whichever of   *)
(* its notifications put the entries there.  One that was lost with codex   *)
(* is never completed: its entries stay for as long as the router lives.    *)
CachesDrain ==
  \A u \in Turns : turn[u] = "over" =>
    /\ u \notin DOMAIN turnIdToThreadId \cup DOMAIN turnIdToItemIds
    /\ \A i \in DOMAIN itemIdToThreadId : TurnOf[i] # u
=============================================================================
