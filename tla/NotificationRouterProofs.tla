---------------------- MODULE NotificationRouterProofs ----------------------
(***************************************************************************)
(* For every set of threads, turns and items: if turn/* notifications name  *)
(* their thread, and item/started and item/completed the thread or the      *)
(* turn, the router loses no event and sends none to a wrong thread; and if *)
(* the latter always name the turn, completed turns leave nothing behind.   *)
(* And since it publishes the events of an item for its own thread and in   *)
(* order, what the page of ItemViews shows of an item is what codex said of *)
(* it last, in that thread alone.                                           *)
(***************************************************************************)
EXTENDS ItemViews, SequenceTheorems, TLAPS

(* A map that tells of every key it has what f tells of it.                 *)
Agrees(map, f, S) == DOMAIN map \subseteq S /\ \A k \in DOMAIN map : map[k] = f[k]

ThreadOfItem == [i \in Items |-> ThreadOf[TurnOf[i]]]

CachesTrue ==
  /\ Agrees(turnIdToThreadId, ThreadOf, Turns)
  /\ Agrees(itemIdToThreadId, ThreadOfItem, Items)
  /\ \A u \in DOMAIN turnIdToItemIds : \A i \in turnIdToItemIds[u] : i \in Items /\ TurnOf[i] = u

(* What is under way is in the caches.                                      *)
CachesKnow ==
  /\ \A u \in Turns : turn[u] = "active" => u \in DOMAIN turnIdToThreadId
  /\ \A i \in Items : item[i] = "active" =>
       turn[TurnOf[i]] = "active" /\ i \in DOMAIN itemIdToThreadId

StateTypes ==
  /\ turn \in [Turns -> {"new", "active", "over", "lost"}]
  /\ item \in [Items -> {"new", "active", "over"}]

(* The invariant that makes NothingLost inductive.                          *)
RouterInv == StateTypes /\ CachesTrue /\ CachesKnow /\ NothingLost

(* The hints NothingLost needs.                                             *)
HintsSuffice == TurnHints \subseteq {{"thread"}} /\ {} \notin ItemHints

(* Map.set with the right value keeps a map right, and adds the key.        *)
LEMMA SetAgrees ==
  ASSUME NEW map, NEW f, NEW S, Agrees(map, f, S), NEW key \in S
  PROVE  /\ Agrees(Set(map, key, f[key]), f, S)
         /\ DOMAIN Set(map, key, f[key]) = DOMAIN map \cup {key}
  BY DEF Set, Agrees

(* Map.delete keeps a map right.                                            *)
LEMMA DeleteAgrees ==
  ASSUME NEW map, NEW f, NEW S, Agrees(map, f, S), NEW keys
  PROVE  /\ Agrees(Delete(map, keys), f, S)
         /\ DOMAIN Delete(map, keys) = DOMAIN map \ keys
  BY DEF Delete, Agrees

(* An item notification of an active turn is routed to the item's thread.   *)
LEMMA ItemThreadIs ==
  ASSUME RouterInv, HintsSuffice, RouterAssumption,
         NEW i \in Items, turn[TurnOf[i]] = "active", NEW hints \in ItemHints
  PROVE  ItemThread(i, hints) = ThreadOf[TurnOf[i]]
<1>1. "thread" \in hints \/ "turn" \in hints
  <2>1. hints \subseteq {"thread", "turn"} /\ hints # {}
    BY DEF RouterAssumption, HintsSuffice, Hints
  <2>2. PICK h \in hints : TRUE
    BY <2>1
  <2>3. h = "thread" \/ h = "turn"
    BY <2>1, <2>2
  <2> QED BY <2>2, <2>3
<1>2. TurnOf[i] \in Turns
  BY DEF RouterAssumption
<1>3. Get(turnIdToThreadId, TurnOf[i], NoThread) = ThreadOf[TurnOf[i]]
  BY <1>2 DEF RouterInv, CachesKnow, CachesTrue, Agrees, Get
<1> QED BY <1>1, <1>3 DEF ItemThread

(* The same for a delta of an active item.                                  *)
LEMMA DeltaThreadIs ==
  ASSUME RouterInv, NEW i \in Items, item[i] = "active", NEW hints
  PROVE  ResolveThreadId(i, hints) = ThreadOf[TurnOf[i]]
<1>1. i \in DOMAIN itemIdToThreadId /\ itemIdToThreadId[i] = ThreadOf[TurnOf[i]]
  BY DEF RouterInv, CachesKnow, CachesTrue, Agrees, ThreadOfItem
<1> QED BY <1>1 DEF ResolveThreadId

(* The initial state: empty maps, and nothing told.                         *)
LEMMA InitRouterInv ==
  ASSUME RouterAssumption, Init
  PROVE  RouterInv
<1>1. StateTypes
  BY DEF Init, StateTypes
<1>2. CachesTrue
  BY DEF Init, None, CachesTrue, Agrees
<1>3. CachesKnow
  BY DEF Init, CachesKnow
<1>4. NothingLost
  BY DEF Init, NothingLost, EventDue
<1> QED BY <1>1, <1>2, <1>3, <1>4 DEF RouterInv

(* turn/started: the router learns the turn.                                *)
LEMMA TurnStartedStep ==
  ASSUME RouterAssumption, HintsSuffice, RouterInv,
         NEW u \in Turns, NEW hints \in TurnHints, TurnStarted(u, hints)
  PROVE  RouterInv'
<1>1. "thread" \in hints
  BY DEF HintsSuffice
<1>2. /\ turnIdToThreadId' = Set(turnIdToThreadId, u, ThreadOf[u])
      /\ emitted' = Event("turn.started", ThreadOf[u], u)
      /\ told' = [kind |-> "turn.started", subject |-> u]
      /\ turn' = [turn EXCEPT ![u] = "active"]
      /\ UNCHANGED <<itemIdToThreadId, turnIdToItemIds, item>>
  BY <1>1 DEF TurnStarted, Tell, Emit
<1>3. StateTypes'
  BY <1>2 DEF RouterInv, StateTypes
<1>4. /\ Agrees(turnIdToThreadId', ThreadOf, Turns)
      /\ DOMAIN turnIdToThreadId' = DOMAIN turnIdToThreadId \cup {u}
  BY <1>2, SetAgrees, ZenonT(30) DEF RouterInv, CachesTrue
<1>5. CachesTrue'
  BY <1>2, <1>4 DEF RouterInv, CachesTrue
<1>6. CachesKnow'
  BY <1>2, <1>4 DEF RouterInv, CachesKnow, StateTypes, RouterAssumption
<1>7. NothingLost'
  BY <1>2 DEF NothingLost, EventDue
<1> QED BY <1>3, <1>5, <1>6, <1>7 DEF RouterInv

(* turn/completed: what is deleted belongs to the turn that is over.        *)
LEMMA TurnCompletedStep ==
  ASSUME RouterAssumption, HintsSuffice, RouterInv,
         NEW u \in Turns, NEW hints \in TurnHints, TurnCompleted(u, hints)
  PROVE  RouterInv'
<1> DEFINE gone == Get(turnIdToItemIds, u, {})
<1>1. "thread" \in hints
  BY DEF HintsSuffice
<1>2. /\ turnIdToThreadId' = Delete(turnIdToThreadId, {u})
      /\ itemIdToThreadId' = Delete(itemIdToThreadId, gone)
      /\ turnIdToItemIds' = Delete(turnIdToItemIds, {u})
      /\ emitted' = Event("turn.completed", ThreadOf[u], u)
      /\ told' = [kind |-> "turn.completed", subject |-> u]
      /\ turn' = [turn EXCEPT ![u] = "over"]
      /\ item' = [i \in Items |-> IF TurnOf[i] = u THEN "over" ELSE item[i]]
  BY <1>1 DEF TurnCompleted, Tell, Emit
<1>3. StateTypes'
  BY <1>2 DEF RouterInv, StateTypes
<1>4. /\ Agrees(turnIdToThreadId', ThreadOf, Turns)
      /\ DOMAIN turnIdToThreadId' = DOMAIN turnIdToThreadId \ {u}
  BY <1>2, DeleteAgrees DEF RouterInv, CachesTrue
<1>5. /\ Agrees(itemIdToThreadId', ThreadOfItem, Items)
      /\ DOMAIN itemIdToThreadId' = DOMAIN itemIdToThreadId \ gone
  BY <1>2, DeleteAgrees DEF RouterInv, CachesTrue
<1>6. \A i \in gone : TurnOf[i] = u
  BY DEF RouterInv, CachesTrue, Get
<1>7. CachesTrue'
  <2>1. \A v \in DOMAIN turnIdToItemIds' : \A i \in turnIdToItemIds'[v] : i \in Items /\ TurnOf[i] = v
    BY <1>2 DEF RouterInv, CachesTrue, Delete
  <2> QED BY <1>4, <1>5, <2>1 DEF CachesTrue, ThreadOfItem
<1>8. CachesKnow'
  <2>1. \A v \in Turns : turn'[v] = "active" => v \in DOMAIN turnIdToThreadId'
    BY <1>2, <1>4 DEF RouterInv, CachesKnow, StateTypes
  <2>2. ASSUME NEW i \in Items, item'[i] = "active"
        PROVE  turn'[TurnOf[i]] = "active" /\ i \in DOMAIN itemIdToThreadId'
    <3>1. TurnOf[i] # u /\ item[i] = "active"
      BY <1>2, <2>2
    <3>2. TurnOf[i] \in Turns
      BY DEF RouterAssumption
    <3> QED BY <3>1, <3>2, <1>2, <1>5, <1>6 DEF RouterInv, CachesKnow, StateTypes
  <2> QED BY <2>1, <2>2 DEF CachesKnow
<1>9. NothingLost'
  BY <1>2 DEF NothingLost, EventDue
<1> QED BY <1>3, <1>7, <1>8, <1>9 DEF RouterInv

(* item/started and item/completed: the item's thread is set, and its event *)
(* sent there.                                                              *)
LEMMA RouteItemStep ==
  ASSUME RouterAssumption, HintsSuffice, RouterInv,
         NEW i \in Items, turn[TurnOf[i]] = "active", NEW hints \in ItemHints,
         NEW kind \in {"item/started", "item/completed"},
         RouteItem(i, kind, hints), Tell(kind, i)
  PROVE  /\ CachesTrue' /\ NothingLost'
         /\ DOMAIN turnIdToThreadId \subseteq DOMAIN turnIdToThreadId'
         /\ DOMAIN itemIdToThreadId' = DOMAIN itemIdToThreadId \cup {i}
<1> DEFINE u == TurnOf[i]
<1>1. ItemThread(i, hints) = ThreadOf[u]
  BY ItemThreadIs
<1>2. u \in Turns /\ ThreadOf[u] \in Threads /\ ThreadOf[u] # NoThread
  BY DEF RouterAssumption
<1>3. /\ turnIdToThreadId' \in {turnIdToThreadId, Set(turnIdToThreadId, u, ThreadOf[u])}
      /\ itemIdToThreadId' = Set(itemIdToThreadId, i, ThreadOf[u])
      /\ turnIdToItemIds' \in {turnIdToItemIds,
             Set(turnIdToItemIds, u, Get(turnIdToItemIds, u, {}) \cup {i})}
  BY <1>1, <1>2 DEF RouteItem
<1>4. emitted' = IF ItemEvent(i, kind) # "none"
                 THEN Event(ItemEvent(i, kind), ThreadOf[u], i) ELSE Nothing
  BY <1>1, <1>2 DEF RouteItem, Emit
<1>5. /\ Agrees(turnIdToThreadId', ThreadOf, Turns)
      /\ DOMAIN turnIdToThreadId \subseteq DOMAIN turnIdToThreadId'
  <2>1. Agrees(turnIdToThreadId, ThreadOf, Turns)
    BY DEF RouterInv, CachesTrue
  <2>2. /\ Agrees(Set(turnIdToThreadId, u, ThreadOf[u]), ThreadOf, Turns)
        /\ DOMAIN Set(turnIdToThreadId, u, ThreadOf[u]) = DOMAIN turnIdToThreadId \cup {u}
    BY <1>2, <2>1, SetAgrees
  <2>3. CASE turnIdToThreadId' = turnIdToThreadId
    BY <2>1, <2>3
  <2>4. CASE turnIdToThreadId' = Set(turnIdToThreadId, u, ThreadOf[u])
    BY <2>2, <2>4
  <2> QED BY <1>3, <2>3, <2>4
<1>6. /\ Agrees(itemIdToThreadId', ThreadOfItem, Items)
      /\ DOMAIN itemIdToThreadId' = DOMAIN itemIdToThreadId \cup {i}
  <2>1. Agrees(itemIdToThreadId, ThreadOfItem, Items) /\ ThreadOfItem[i] = ThreadOf[u]
    BY DEF RouterInv, CachesTrue, ThreadOfItem
  <2>2. /\ Agrees(Set(itemIdToThreadId, i, ThreadOfItem[i]), ThreadOfItem, Items)
        /\ DOMAIN Set(itemIdToThreadId, i, ThreadOfItem[i]) = DOMAIN itemIdToThreadId \cup {i}
    BY <2>1, SetAgrees
  <2> QED BY <1>3, <2>1, <2>2
<1>7. \A v \in DOMAIN turnIdToItemIds' : \A j \in turnIdToItemIds'[v] : j \in Items /\ TurnOf[j] = v
  <2>1. CASE turnIdToItemIds' = turnIdToItemIds
    BY <2>1 DEF RouterInv, CachesTrue
  <2>2. CASE turnIdToItemIds' = Set(turnIdToItemIds, u, Get(turnIdToItemIds, u, {}) \cup {i})
    BY <2>2 DEF RouterInv, CachesTrue, Set, Get
  <2> QED BY <1>3, <2>1, <2>2
<1>8. CachesTrue'
  BY <1>5, <1>6, <1>7 DEF CachesTrue, ThreadOfItem
<1>9. NothingLost'
  <2>1. told' = [kind |-> kind, subject |-> i]
    BY DEF Tell
  <2>2. EventDue' = IF ItemEvent(i, kind) # "none"
                    THEN Event(ItemEvent(i, kind), ThreadOf[u], i) ELSE Nothing
    BY <2>1 DEF EventDue
  <2> QED BY <1>4, <2>2 DEF NothingLost
<1> QED BY <1>5, <1>6, <1>8, <1>9

(* item/started                                                             *)
LEMMA ItemStartedStep ==
  ASSUME RouterAssumption, HintsSuffice, RouterInv,
         NEW i \in Items, NEW hints \in ItemHints, ItemStarted(i, hints)
  PROVE  RouterInv'
<1>1. /\ CachesTrue' /\ NothingLost'
      /\ DOMAIN turnIdToThreadId \subseteq DOMAIN turnIdToThreadId'
      /\ DOMAIN itemIdToThreadId' = DOMAIN itemIdToThreadId \cup {i}
  BY RouteItemStep DEF ItemStarted
<1>2. StateTypes'
  BY DEF ItemStarted, RouterInv, StateTypes
<1>3. CachesKnow'
  BY <1>1 DEF ItemStarted, RouterInv, StateTypes, CachesKnow
<1> QED BY <1>1, <1>2, <1>3 DEF RouterInv

(* item/completed                                                           *)
LEMMA ItemCompletedStep ==
  ASSUME RouterAssumption, HintsSuffice, RouterInv,
         NEW i \in Items, NEW hints \in ItemHints, ItemCompleted(i, hints)
  PROVE  RouterInv'
<1>1. turn[TurnOf[i]] = "active"
  BY DEF ItemCompleted, RouterInv, CachesKnow
<1>2. /\ CachesTrue' /\ NothingLost'
      /\ DOMAIN turnIdToThreadId \subseteq DOMAIN turnIdToThreadId'
      /\ DOMAIN itemIdToThreadId' = DOMAIN itemIdToThreadId \cup {i}
  BY <1>1, RouteItemStep DEF ItemCompleted
<1>3. StateTypes'
  BY DEF ItemCompleted, RouterInv, StateTypes
<1>4. CachesKnow'
  BY <1>2 DEF ItemCompleted, RouterInv, StateTypes, CachesKnow
<1> QED BY <1>2, <1>3, <1>4 DEF RouterInv

(* A delta, whatever ids it carries.                                        *)
LEMMA DeltaStep ==
  ASSUME RouterAssumption, RouterInv,
         NEW i \in Items, NEW hints \in DeltaHints, Delta(i, hints)
  PROVE  RouterInv'
<1>1. ResolveThreadId(i, hints) = ThreadOf[TurnOf[i]]
  BY DeltaThreadIs DEF Delta
<1>2. ThreadOf[TurnOf[i]] \in Threads /\ ThreadOf[TurnOf[i]] # NoThread
  BY DEF RouterAssumption
<1>3. /\ itemIdToThreadId' = Set(itemIdToThreadId, i, ThreadOf[TurnOf[i]])
      /\ emitted' = Event("agent.delta", ThreadOf[TurnOf[i]], i)
      /\ told' = [kind |-> "delta", subject |-> i]
      /\ UNCHANGED <<turnIdToThreadId, turnIdToItemIds, turn, item>>
  BY <1>1, <1>2 DEF Delta, Emit, Tell
<1>4. /\ Agrees(itemIdToThreadId', ThreadOfItem, Items)
      /\ DOMAIN itemIdToThreadId' = DOMAIN itemIdToThreadId \cup {i}
  <2>1. Agrees(itemIdToThreadId, ThreadOfItem, Items) /\ ThreadOfItem[i] = ThreadOf[TurnOf[i]]
    BY DEF RouterInv, CachesTrue, ThreadOfItem
  <2>2. /\ Agrees(Set(itemIdToThreadId, i, ThreadOfItem[i]), ThreadOfItem, Items)
        /\ DOMAIN Set(itemIdToThreadId, i, ThreadOfItem[i]) = DOMAIN itemIdToThreadId \cup {i}
    BY <2>1, SetAgrees, ZenonT(30)
  <2> QED BY <1>3, <2>1, <2>2
<1>5. CachesTrue'
  BY <1>3, <1>4 DEF RouterInv, CachesTrue, ThreadOfItem
<1>6. CachesKnow'
  BY <1>3, <1>4 DEF RouterInv, CachesKnow
<1>7. NothingLost'
  BY <1>3 DEF NothingLost, EventDue
<1>8. StateTypes'
  BY <1>3 DEF RouterInv, StateTypes
<1> QED BY <1>5, <1>6, <1>7, <1>8 DEF RouterInv

(* An exit of codex leaves the caches as they are.                          *)
LEMMA CodexExitsStep ==
  ASSUME RouterAssumption, RouterInv, CodexExits
  PROVE  RouterInv'
<1>1. StateTypes'
  BY DEF CodexExits, RouterInv, StateTypes
<1>2. CachesTrue' /\ NothingLost'
  BY DEF CodexExits, caches, RouterInv, CachesTrue, Agrees, ThreadOfItem, NothingLost, EventDue
<1>3. CachesKnow'
  BY DEF CodexExits, caches, RouterInv, CachesKnow, RouterAssumption, StateTypes
<1> QED BY <1>1, <1>2, <1>3 DEF RouterInv

(* Every step of the router keeps it knowing.                               *)
LEMMA RouterStep ==
  ASSUME HintsSuffice, RouterInv, [Next]_vars
  PROVE  RouterInv'
<1>1. CASE UNCHANGED vars
  BY <1>1 DEF vars, caches, RouterInv, StateTypes, CachesTrue, Agrees, ThreadOfItem,
              CachesKnow, NothingLost, EventDue
<1>2. ASSUME NEW u \in Turns, NEW hints \in TurnHints, TurnStarted(u, hints) PROVE RouterInv'
  BY <1>2, TurnStartedStep, RouterAssumption
<1>3. ASSUME NEW u \in Turns, NEW hints \in TurnHints, TurnCompleted(u, hints) PROVE RouterInv'
  BY <1>3, TurnCompletedStep, RouterAssumption
<1>4. ASSUME NEW i \in Items, NEW hints \in ItemHints, ItemStarted(i, hints) PROVE RouterInv'
  BY <1>4, ItemStartedStep, RouterAssumption
<1>5. ASSUME NEW i \in Items, NEW hints \in ItemHints, ItemCompleted(i, hints) PROVE RouterInv'
  BY <1>5, ItemCompletedStep, RouterAssumption
<1>6. ASSUME NEW i \in Items, NEW hints \in DeltaHints, Delta(i, hints) PROVE RouterInv'
  BY <1>6, DeltaStep, RouterAssumption
<1>7. CASE CodexExits
  BY <1>7, CodexExitsStep, RouterAssumption
<1> QED BY <1>1, <1>2, <1>3, <1>4, <1>5, <1>6, <1>7 DEF Next

(* Every notification that calls for an event becomes that event, for the   *)
(* thread it is about (notification-router.ts: route, resolveThreadId).     *)
THEOREM RoutesEverything == HintsSuffice => (Spec => []NothingLost)
<1> SUFFICES ASSUME HintsSuffice PROVE Spec => []NothingLost
  OBVIOUS
<1>1. Init => RouterInv
  BY InitRouterInv, RouterAssumption
<1>2. RouterInv /\ [Next]_vars => RouterInv'
  BY RouterStep
<1>3. RouterInv => NothingLost
  BY DEF RouterInv
<1> QED BY <1>1, <1>2, <1>3, PTL DEF Spec

-----------------------------------------------------------------------------
(* What CachesDrain needs of the ids the notifications carry.               *)
ItemsNameTurn == TurnHints \subseteq {{"thread"}} /\ \A hints \in ItemHints : "turn" \in hints

Open(u) == turn[u] \in {"active", "lost"}     \* begun, and never completed

Collected(i) == TurnOf[i] \in DOMAIN turnIdToItemIds /\ i \in turnIdToItemIds[TurnOf[i]]

(* No entry is older or younger than its turn.                              *)
EntriesOpen ==
  /\ \A u \in DOMAIN turnIdToThreadId \cup DOMAIN turnIdToItemIds : u \in Turns /\ Open(u)
  /\ \A i \in DOMAIN itemIdToThreadId : i \in Items /\ Open(TurnOf[i]) /\ Collected(i)

(* Items under way belong to turns under way, which have collected them:    *)
(* a delta, which collects nothing, adds no entry the turn will not delete. *)
ItemsCollected == \A i \in Items : item[i] = "active" => turn[TurnOf[i]] = "active" /\ Collected(i)

(* The invariant that makes CachesDrain inductive.                          *)
DrainInv == StateTypes /\ EntriesOpen /\ ItemsCollected

(* turn/started: the turn was new, so it is open from here on.              *)
LEMMA DrainTurnStarted ==
  ASSUME RouterAssumption, DrainInv,
         NEW u \in Turns, NEW hints \in TurnHints, TurnStarted(u, hints)
  PROVE  DrainInv'
<1>1. /\ DOMAIN turnIdToThreadId' \subseteq DOMAIN turnIdToThreadId \cup {u}
      /\ turn' = [turn EXCEPT ![u] = "active"]
      /\ turn[u] = "new"
      /\ UNCHANGED <<itemIdToThreadId, turnIdToItemIds, item>>
  BY DEF TurnStarted, Set
<1>2. turn \in [Turns -> {"new", "active", "over", "lost"}] /\ \A i \in Items : TurnOf[i] \in Turns
  BY DEF RouterAssumption, DrainInv, StateTypes
<1>3. StateTypes'
  BY <1>1 DEF DrainInv, StateTypes
<1>4. EntriesOpen'
  BY <1>1, <1>2 DEF DrainInv, EntriesOpen, Open, Collected
<1>5. ItemsCollected'
  BY <1>1, <1>2 DEF DrainInv, ItemsCollected, Collected
<1> QED BY <1>3, <1>4, <1>5 DEF DrainInv

(* turn/completed: everything the turn has in the maps goes.                *)
LEMMA DrainTurnCompleted ==
  ASSUME RouterAssumption, ItemsNameTurn, DrainInv,
         NEW u \in Turns, NEW hints \in TurnHints, TurnCompleted(u, hints)
  PROVE  DrainInv'
<1> DEFINE gone == Get(turnIdToItemIds, u, {})
<1>1. /\ turnIdToThreadId' = Delete(turnIdToThreadId, {u})
      /\ itemIdToThreadId' = Delete(itemIdToThreadId, gone)
      /\ turnIdToItemIds' = Delete(turnIdToItemIds, {u})
      /\ turn' = [turn EXCEPT ![u] = "over"]
      /\ item' = [i \in Items |-> IF TurnOf[i] = u THEN "over" ELSE item[i]]
  BY DEF TurnCompleted, ItemsNameTurn
<1>2. turn \in [Turns -> {"new", "active", "over", "lost"}] /\ \A i \in Items : TurnOf[i] \in Turns
  BY DEF RouterAssumption, DrainInv, StateTypes
<1>3. /\ DOMAIN turnIdToThreadId' = DOMAIN turnIdToThreadId \ {u}
      /\ DOMAIN itemIdToThreadId' = DOMAIN itemIdToThreadId \ gone
      /\ DOMAIN turnIdToItemIds' = DOMAIN turnIdToItemIds \ {u}
      /\ \A v \in DOMAIN turnIdToItemIds' : turnIdToItemIds'[v] = turnIdToItemIds[v]
  BY <1>1 DEF Delete
<1>4. \A i \in DOMAIN itemIdToThreadId' : TurnOf[i] # u
  BY <1>3 DEF DrainInv, EntriesOpen, Collected, Get
<1>5. StateTypes'
  BY <1>1 DEF DrainInv, StateTypes
<1>6. EntriesOpen'
  <2>1. \A v \in DOMAIN turnIdToThreadId' \cup DOMAIN turnIdToItemIds' : v \in Turns /\ Open(v)'
    BY <1>1, <1>2, <1>3 DEF DrainInv, EntriesOpen, Open
  <2>2. ASSUME NEW i \in DOMAIN itemIdToThreadId'
        PROVE  i \in Items /\ Open(TurnOf[i])' /\ Collected(i)'
    <3>1. i \in Items /\ Open(TurnOf[i]) /\ Collected(i) /\ TurnOf[i] # u
      BY <1>3, <1>4 DEF DrainInv, EntriesOpen
    <3> QED BY <1>1, <1>2, <1>3, <3>1 DEF Open, Collected
  <2> QED BY <2>1, <2>2 DEF EntriesOpen
<1>7. ItemsCollected'
  <2>1. ASSUME NEW i \in Items, item'[i] = "active"
        PROVE  turn'[TurnOf[i]] = "active" /\ Collected(i)'
    <3>1. TurnOf[i] # u /\ item[i] = "active"
      BY <1>1, <2>1
    <3>2. turn[TurnOf[i]] = "active" /\ Collected(i)
      BY <3>1 DEF DrainInv, ItemsCollected
    <3> QED BY <1>1, <1>2, <1>3, <3>1, <3>2 DEF Collected
  <2> QED BY <2>1 DEF ItemsCollected
<1> QED BY <1>5, <1>6, <1>7 DEF DrainInv

(* An item notification of an active turn puts the item on the turn's list. *)
LEMMA DrainRouteItem ==
  ASSUME RouterAssumption, ItemsNameTurn, DrainInv,
         NEW i \in Items, turn[TurnOf[i]] = "active", NEW hints \in ItemHints, NEW kind,
         RouteItem(i, kind, hints), UNCHANGED turn
  PROVE  EntriesOpen' /\ Collected(i)' /\ \A j \in Items : Collected(j) => Collected(j)'
<1> DEFINE u == TurnOf[i]
           list == Get(turnIdToItemIds, u, {}) \cup {i}
<1>1. u \in Turns /\ "turn" \in hints
  BY DEF RouterAssumption, ItemsNameTurn
<1>2. /\ DOMAIN turnIdToThreadId' \subseteq DOMAIN turnIdToThreadId \cup {u}
      /\ DOMAIN itemIdToThreadId' \subseteq DOMAIN itemIdToThreadId \cup {i}
      /\ turnIdToItemIds' = Set(turnIdToItemIds, u, list)
  BY <1>1 DEF RouteItem, Set
<1>3. /\ DOMAIN turnIdToItemIds' = DOMAIN turnIdToItemIds \cup {u}
      /\ turnIdToItemIds'[u] = list
      /\ \A v \in DOMAIN turnIdToItemIds \ {u} : turnIdToItemIds'[v] = turnIdToItemIds[v]
  BY <1>2 DEF Set
<1>4. Collected(i)'
  BY <1>3 DEF Collected
<1>5. \A j \in Items : Collected(j) => Collected(j)'
  BY <1>3 DEF Collected, Get
<1>6. EntriesOpen'
  BY <1>1, <1>2, <1>3, <1>4, <1>5 DEF DrainInv, EntriesOpen, Open
<1> QED BY <1>4, <1>5, <1>6

(* item/started                                                             *)
LEMMA DrainItemStarted ==
  ASSUME RouterAssumption, ItemsNameTurn, DrainInv,
         NEW i \in Items, NEW hints \in ItemHints, ItemStarted(i, hints)
  PROVE  DrainInv'
<1>1. EntriesOpen' /\ Collected(i)' /\ \A j \in Items : Collected(j) => Collected(j)'
  BY DrainRouteItem DEF ItemStarted
<1>2. StateTypes'
  BY DEF ItemStarted, DrainInv, StateTypes
<1>3. ItemsCollected'
  BY <1>1 DEF ItemStarted, DrainInv, StateTypes, ItemsCollected
<1> QED BY <1>1, <1>2, <1>3 DEF DrainInv

(* item/completed                                                           *)
LEMMA DrainItemCompleted ==
  ASSUME RouterAssumption, ItemsNameTurn, DrainInv,
         NEW i \in Items, NEW hints \in ItemHints, ItemCompleted(i, hints)
  PROVE  DrainInv'
<1>1. turn[TurnOf[i]] = "active"
  BY DEF ItemCompleted, DrainInv, ItemsCollected
<1>2. EntriesOpen' /\ Collected(i)' /\ \A j \in Items : Collected(j) => Collected(j)'
  BY <1>1, DrainRouteItem DEF ItemCompleted
<1>3. StateTypes'
  BY DEF ItemCompleted, DrainInv, StateTypes
<1>4. ItemsCollected'
  BY <1>2 DEF ItemCompleted, DrainInv, StateTypes, ItemsCollected
<1> QED BY <1>2, <1>3, <1>4 DEF DrainInv

(* A delta caches its item's thread, and the item is already collected.     *)
LEMMA DrainDelta ==
  ASSUME RouterAssumption, DrainInv,
         NEW i \in Items, NEW hints \in DeltaHints, Delta(i, hints)
  PROVE  DrainInv'
<1>1. /\ DOMAIN itemIdToThreadId' \subseteq DOMAIN itemIdToThreadId \cup {i}
      /\ UNCHANGED <<turnIdToThreadId, turnIdToItemIds, turn, item>>
  BY DEF Delta, Set
<1>2. Open(TurnOf[i]) /\ Collected(i)
  BY DEF Delta, DrainInv, ItemsCollected, Open
<1>3. StateTypes' /\ ItemsCollected'
  BY <1>1 DEF DrainInv, StateTypes, ItemsCollected, Collected
<1>4. EntriesOpen'
  BY <1>1, <1>2 DEF DrainInv, EntriesOpen, Open, Collected
<1> QED BY <1>3, <1>4 DEF DrainInv

(* An exit of codex: its turns never complete, their entries stay.          *)
LEMMA DrainCodexExits ==
  ASSUME RouterAssumption, DrainInv, CodexExits
  PROVE  DrainInv'
<1>1. /\ turn' = [u \in Turns |-> IF turn[u] = "active" THEN "lost" ELSE turn[u]]
      /\ \A i \in Items : item'[i] # "active"
      /\ UNCHANGED <<turnIdToThreadId, itemIdToThreadId, turnIdToItemIds>>
  BY DEF CodexExits, caches
<1>2. \A i \in Items : TurnOf[i] \in Turns
  BY DEF RouterAssumption
<1>3. StateTypes'
  BY DEF CodexExits, DrainInv, StateTypes
<1>4. EntriesOpen'
  BY <1>1, <1>2 DEF DrainInv, StateTypes, EntriesOpen, Open, Collected
<1>5. ItemsCollected'
  BY <1>1 DEF ItemsCollected
<1> QED BY <1>3, <1>4, <1>5 DEF DrainInv

(* A completed turn leaves no entry in the three maps, whichever of its     *)
(* notifications put one there (notification-router.ts: turn/completed).    *)
THEOREM DrainsCaches == ItemsNameTurn => (Spec => []CachesDrain)
<1> SUFFICES ASSUME ItemsNameTurn PROVE Spec => []CachesDrain
  OBVIOUS
<1>1. Init => DrainInv
  BY DEF Init, None, DrainInv, StateTypes, EntriesOpen, ItemsCollected
<1>2. DrainInv /\ [Next]_vars => DrainInv'
  <2> SUFFICES ASSUME DrainInv, [Next]_vars PROVE DrainInv'
    OBVIOUS
  <2>1. CASE UNCHANGED vars
    BY <2>1 DEF vars, caches, DrainInv, StateTypes, EntriesOpen, ItemsCollected, Open, Collected
  <2>2. ASSUME NEW u \in Turns, NEW hints \in TurnHints, TurnStarted(u, hints) PROVE DrainInv'
    BY <2>2, DrainTurnStarted, RouterAssumption
  <2>3. ASSUME NEW u \in Turns, NEW hints \in TurnHints, TurnCompleted(u, hints) PROVE DrainInv'
    BY <2>3, DrainTurnCompleted, RouterAssumption
  <2>4. ASSUME NEW i \in Items, NEW hints \in ItemHints, ItemStarted(i, hints) PROVE DrainInv'
    BY <2>4, DrainItemStarted, RouterAssumption
  <2>5. ASSUME NEW i \in Items, NEW hints \in ItemHints, ItemCompleted(i, hints) PROVE DrainInv'
    BY <2>5, DrainItemCompleted, RouterAssumption
  <2>6. ASSUME NEW i \in Items, NEW hints \in DeltaHints, Delta(i, hints) PROVE DrainInv'
    BY <2>6, DrainDelta, RouterAssumption
  <2>7. CASE CodexExits
    BY <2>7, DrainCodexExits, RouterAssumption
  <2> QED BY <2>1, <2>2, <2>3, <2>4, <2>5, <2>6, <2>7 DEF Next
<1>3. DrainInv => CachesDrain
  BY DEF DrainInv, EntriesOpen, Open, CachesDrain
<1> QED BY <1>1, <1>2, <1>3, PTL DEF Spec

-----------------------------------------------------------------------------
(* The views of items.                                                      *)

Own(i) == ThreadOf[TurnOf[i]]

Views == {"message", "sources", "inProgress", "completed", "failed"}

PageTypeOK ==
  /\ feed \in Seq([thread : Threads, item : Items, content : Views])
  /\ said \in [Items -> Views \cup {"nothing"}]

(* No event and no view of an item in a thread that is not its own.         *)
OwnThread ==
  /\ \A n \in DOMAIN feed : feed[n].thread = Own(feed[n].item)
  /\ \A key \in DOMAIN views : \E i \in Items : key = <<Own(i), i>>

Waits(i) == \E n \in DOMAIN feed : feed[n].item = i

LastOf(i, n) == feed[n].item = i /\ \A m \in DOMAIN feed : m > n => feed[m].item # i

(* What was said last of an item is the last event on its way, or what is   *)
(* shown if there is none.                                                  *)
LastSaid ==
  \A i \in Items :
    /\ ~Waits(i) => Get(views, <<Own(i), i>>, "nothing") = said[i]
    /\ \A n \in DOMAIN feed : LastOf(i, n) => feed[n].content = said[i]

(* The strengthening of ViewsTrue, on top of RouterInv.                     *)
ViewsInv == PageTypeOK /\ OwnThread /\ LastSaid

-----------------------------------------------------------------------------
(* Which notification was routed, and that the router did its part.         *)
LEMMA ToldOf ==
  ASSUME NEW i \in Items, ItemRouted(i)
  PROVE  /\ told'.subject = i
         /\ told'.kind \in {"item/started", "item/completed", "delta"}
         /\ Next
<1> DEFINE Told(kind) == told' = [kind |-> kind, subject |-> i]
<1>1. ASSUME NEW hints \in ItemHints, ItemStarted(i, hints)
      PROVE  Told("item/started") /\ Next
  BY <1>1 DEF ItemStarted, Tell, Next
<1>2. ASSUME NEW hints \in ItemHints, ItemCompleted(i, hints)
      PROVE  Told("item/completed") /\ Next
  BY <1>2 DEF ItemCompleted, Tell, Next
<1>3. ASSUME NEW hints \in DeltaHints, Delta(i, hints)
      PROVE  Told("delta") /\ Next
  BY <1>3 DEF Delta, Tell, Next
<1>4. Next /\ (Told("item/started") \/ Told("item/completed") \/ Told("delta"))
  <2> HIDE DEF Told
  <2> QED BY <1>1, <1>2, <1>3 DEF ItemRouted
<1> QED BY <1>4

(* A notification of which no event is published changes nothing a page     *)
(* could show; of the others the event is due.                              *)
LEMMA ContentWithEvent ==
  ASSUME NEW i, NEW kind \in {"item/started", "item/completed", "delta"}
  PROVE  \/ /\ kind # "delta"
            /\ ItemEvent(i, kind) = "none"
            /\ Content(i, kind) = {"nothing"}
         \/ /\ kind = "delta" \/ ItemEvent(i, kind) # "none"
            /\ Content(i, kind) \subseteq Views
<1>1. CASE kind = "delta"
  BY <1>1 DEF Content, Views
<1>2. CASE kind # "delta" /\ TypeOf[i] \in {"commandExecution", "mcpToolCall"}
  <2>1. ItemEvent(i, kind) = "tool.status"
    BY <1>2 DEF ItemEvent
  <2>2. CASE kind = "item/started"
    <3>1. Content(i, kind) = {"inProgress"}
      BY <2>1, <2>2 DEF Content
    <3> QED BY <2>1, <3>1 DEF Views
  <2>3. CASE kind = "item/completed"
    <3>1. Content(i, kind) = {"completed", "failed"}
      BY <2>1, <2>3 DEF Content
    <3> QED BY <2>1, <3>1 DEF Views
  <2> QED BY <1>2, <2>2, <2>3
<1>3. CASE kind = "item/completed" /\ TypeOf[i] = "webSearch"
  <2>1. ItemEvent(i, kind) = "sources.updated"
    BY <1>3 DEF ItemEvent
  <2>2. Content(i, kind) = {"sources"}
    BY <1>3, <2>1 DEF Content
  <2> QED BY <2>1, <2>2 DEF Views
<1>4. CASE /\ kind # "delta"
           /\ TypeOf[i] \notin {"commandExecution", "mcpToolCall"}
           /\ ~(kind = "item/completed" /\ TypeOf[i] = "webSearch")
  <2>1. ItemEvent(i, kind) = "none"
    BY <1>4 DEF ItemEvent
  <2>2. Content(i, kind) = {"nothing"}
    BY <1>4, <2>1 DEF Content
  <2> QED BY <1>4, <2>1, <2>2
<1> QED BY <1>1, <1>2, <1>3, <1>4

(* So what is said of an item goes to the page as an event for its thread.  *)
LEMMA Published ==
  ASSUME NothingLost', PageTypeOK, NEW i \in Items, ItemRouted(i)
  PROVE  \/ UNCHANGED pageVars
         \/ \E c \in Views :
              /\ feed' = Append(feed, [thread |-> Own(i), item |-> i, content |-> c])
              /\ said' = [said EXCEPT ![i] = c]
              /\ UNCHANGED <<views, reloads>>
<1>1. /\ told'.subject = i
      /\ told'.kind \in {"item/started", "item/completed", "delta"}
  BY ToldOf
<1>2. PICK content \in Content(i, told'.kind) :
        /\ feed' = IF emitted' = Nothing THEN feed
                   ELSE Append(feed, [thread |-> emitted'.thread, item |-> i, content |-> content])
        /\ said' = IF content = "nothing" THEN said ELSE [said EXCEPT ![i] = content]
        /\ UNCHANGED <<views, reloads>>
  BY DEF ItemRouted
<1>3. CASE /\ told'.kind # "delta"
           /\ ItemEvent(i, told'.kind) = "none"
           /\ Content(i, told'.kind) = {"nothing"}
  <2>1. emitted' = Nothing
    BY <1>1, <1>3 DEF NothingLost, EventDue
  <2>2. content = "nothing"
    BY <1>2, <1>3
  <2> QED BY <1>2, <2>1, <2>2 DEF pageVars
<1>4. CASE /\ told'.kind = "delta" \/ ItemEvent(i, told'.kind) # "none"
           /\ Content(i, told'.kind) \subseteq Views
  <2>1. emitted'.thread = Own(i) /\ emitted'.kind # "none"
    <3>1. CASE told'.kind = "delta"
      <4>1. emitted' = Event("agent.delta", Own(i), i)
        BY <1>1, <3>1 DEF NothingLost, EventDue, Own
      <4> QED BY <4>1 DEF Event
    <3>2. CASE told'.kind # "delta"
      <4>1. emitted' = Event(ItemEvent(i, told'.kind), Own(i), i)
        BY <1>1, <1>4, <3>2 DEF NothingLost, EventDue, Own
      <4> QED BY <4>1, <1>4, <3>2 DEF Event
    <3> QED BY <3>1, <3>2
  <2>2. emitted' # Nothing
    BY <2>1 DEF Nothing, Event
  <2>3. content \in Views /\ content # "nothing"
    BY <1>2, <1>4 DEF Views
  <2> QED BY <1>2, <2>1, <2>2, <2>3
<1> QED BY <1>1, <1>3, <1>4, ContentWithEvent

-----------------------------------------------------------------------------
LEMMA InitViewsInv ==
  ASSUME ViewsInit
  PROVE  ViewsInv
<1>1. feed = <<>> /\ DOMAIN views = {} /\ said = [i \in Items |-> "nothing"]
  BY DEF ViewsInit, None
<1>2. PageTypeOK
  <2>1. feed \in Seq([thread : Threads, item : Items, content : Views])
    BY <1>1
  <2> QED BY <1>1, <2>1 DEF PageTypeOK
<1>3. DOMAIN feed = {}
  BY <1>1
<1>4. OwnThread
  BY <1>1, <1>3 DEF OwnThread
<1>5. LastSaid
  BY <1>1, <1>3 DEF LastSaid, Get
<1> QED BY <1>2, <1>4, <1>5 DEF ViewsInv

(* A new event at the end of the feed is the last of its item, and leaves   *)
(* the last events of the others what they were.                            *)
LEMMA ItemRoutedStep ==
  ASSUME RouterAssumption, NothingLost', ViewsInv, NEW i \in Items, ItemRouted(i)
  PROVE  ViewsInv'
<1> DEFINE Events == [thread : Threads, item : Items, content : Views]
<1>1. CASE UNCHANGED pageVars
  BY <1>1 DEF ViewsInv, PageTypeOK, OwnThread, LastSaid, Waits, LastOf, pageVars
<1>2. ASSUME NEW c \in Views,
             feed' = Append(feed, [thread |-> Own(i), item |-> i, content |-> c]),
             said' = [said EXCEPT ![i] = c], UNCHANGED views
      PROVE  ViewsInv'
  <2> DEFINE e == [thread |-> Own(i), item |-> i, content |-> c]
  <2>1. feed \in Seq(Events) /\ said \in [Items -> Views \cup {"nothing"}]
    BY DEF ViewsInv, PageTypeOK
  <2>2. e \in Events
    BY DEF Own, RouterAssumption
  <2>3. Len(feed) \in Nat /\ DOMAIN feed = 1..Len(feed)
    BY <2>1
  <2>4. /\ feed' \in Seq(Events)
        /\ DOMAIN feed' = DOMAIN feed \cup {Len(feed) + 1}
        /\ Len(feed) + 1 \notin DOMAIN feed
        /\ \A n \in DOMAIN feed : feed'[n] = feed[n] /\ n < Len(feed) + 1
        /\ feed'[Len(feed) + 1] = e
    <3> HIDE DEF e, Events
    <3>1. feed' = Append(feed, e)
      BY <1>2 DEF e
    <3> QED BY <2>1, <2>2, <2>3, <3>1
  <2>5. PageTypeOK'
    BY <1>2, <2>1, <2>4 DEF PageTypeOK
  <2>6. OwnThread'
    <3>1. \A n \in DOMAIN feed' : feed'[n].thread = Own(feed'[n].item)
      BY <2>4 DEF ViewsInv, OwnThread
    <3> QED BY <1>2, <3>1 DEF ViewsInv, OwnThread
  <2>7. ASSUME NEW j \in Items, ~Waits(j)'
        PROVE  Get(views', <<Own(j), j>>, "nothing") = said'[j]
    <3>1. j # i /\ ~Waits(j)
      BY <2>4, <2>7 DEF Waits
    <3> QED BY <1>2, <2>1, <3>1 DEF ViewsInv, LastSaid
  <2>8. ASSUME NEW j \in Items, NEW n \in DOMAIN feed', LastOf(j, n)'
        PROVE  feed'[n].content = said'[j]
    <3>1. CASE j = i
      <4>1. n = Len(feed) + 1
        BY <2>4, <2>8, <3>1 DEF LastOf
      <4> QED BY <1>2, <2>1, <2>4, <3>1, <4>1
    <3>2. CASE j # i
      <4>1. n \in DOMAIN feed
        BY <2>4, <2>8, <3>2 DEF LastOf
      <4>2. LastOf(j, n)
        BY <2>4, <2>8, <4>1 DEF LastOf
      <4>3. feed[n].content = said[j]
        BY <4>1, <4>2 DEF ViewsInv, LastSaid
      <4>4. feed'[n] = feed[n]
        BY <2>4, <4>1
      <4>5. said'[j] = said[j]
        BY <1>2, <2>1, <3>2
      <4> QED BY <4>3, <4>4, <4>5
    <3> QED BY <3>1, <3>2
  <2>9. LastSaid'
    BY <2>7, <2>8 DEF LastSaid
  <2> QED BY <2>5, <2>6, <2>9 DEF ViewsInv
<1> QED BY <1>1, <1>2, Published DEF ViewsInv

(* The event at the head of the feed is shown: if no other of its item      *)
(* follows, it is what was said last.                                       *)
LEMMA OnItemEventStep ==
  ASSUME ViewsInv, OnItemEvent
  PROVE  ViewsInv'
<1> DEFINE Events == [thread : Threads, item : Items, content : Views]
           i == feed[1].item
<1>1. feed \in Seq(Events) /\ feed # <<>> /\ said' = said
  BY DEF ViewsInv, PageTypeOK, OnItemEvent
<1>2. feed' = Tail(feed) /\ views' = Set(views, <<feed[1].thread, i>>, feed[1].content)
  <2>1. Head(feed) = feed[1]
    BY <1>1
  <2> QED BY <2>1 DEF OnItemEvent
<1>3. Len(feed) \in Nat \ {0} /\ DOMAIN feed = 1..Len(feed)
  BY <1>1
<1>4. /\ feed' \in Seq(Events)
      /\ DOMAIN feed' = 1..(Len(feed) - 1)
      /\ \A n \in DOMAIN feed' : feed'[n] = feed[n + 1]
  <2> HIDE DEF Events
  <2> QED BY <1>1, <1>2, <1>3, HeadTailProperties
<1>5. /\ \A n \in DOMAIN feed' : n + 1 \in DOMAIN feed
      /\ \A n \in DOMAIN feed : n = 1 \/ (n - 1 \in DOMAIN feed' /\ feed'[n - 1] = feed[n])
      /\ 1 \in DOMAIN feed
  BY <1>3, <1>4
<1>6. i \in Items /\ feed[1].thread = Own(i)
  <2>1. feed[1] \in Events
    <3> HIDE DEF Events
    <3> QED BY <1>1, <1>5
  <2> QED BY <1>5, <2>1 DEF ViewsInv, OwnThread
<1>7. PageTypeOK'
  BY <1>1, <1>4 DEF ViewsInv, PageTypeOK
<1>8. OwnThread'
  <2>1. \A n \in DOMAIN feed' : feed'[n].thread = Own(feed'[n].item)
    BY <1>4, <1>5 DEF ViewsInv, OwnThread
  <2>2. \A key \in DOMAIN views' : \E j \in Items : key = <<Own(j), j>>
    BY <1>2, <1>6 DEF ViewsInv, OwnThread, Set
  <2> QED BY <2>1, <2>2 DEF OwnThread
<1>9. ASSUME NEW j \in Items, ~Waits(j)'
      PROVE  Get(views', <<Own(j), j>>, "nothing") = said'[j]
  <2>1. CASE j = i
    <3>1. LastOf(j, 1)
      BY <1>5, <1>9, <2>1 DEF Waits, LastOf
    <3>2. feed[1].content = said[j]
      BY <1>5, <3>1 DEF ViewsInv, LastSaid
    <3> QED BY <1>1, <1>2, <1>6, <2>1, <3>2 DEF Get, Set
  <2>2. CASE j # i
    <3>1. ~Waits(j)
      BY <1>5, <1>9, <2>2 DEF Waits
    <3>2. Get(views, <<Own(j), j>>, "nothing") = said[j]
      BY <3>1 DEF ViewsInv, LastSaid
    <3>3. <<Own(j), j>> # <<feed[1].thread, i>>
      BY <2>2
    <3> QED BY <1>1, <1>2, <3>2, <3>3 DEF Get, Set
  <2> QED BY <2>1, <2>2
<1>10. ASSUME NEW j \in Items, NEW n \in DOMAIN feed', LastOf(j, n)'
       PROVE  feed'[n].content = said'[j]
  <2>1. n \in Nat /\ n + 1 \in DOMAIN feed /\ feed'[n] = feed[n + 1]
    BY <1>3, <1>4, <1>5
  <2>2. ASSUME NEW m \in DOMAIN feed, m > n + 1
        PROVE  feed[m].item # j
    <3>1. m - 1 \in DOMAIN feed' /\ feed'[m - 1] = feed[m] /\ m - 1 > n
      BY <1>3, <1>5, <2>1, <2>2
    <3> QED BY <1>10, <3>1 DEF LastOf
  <2>3. LastOf(j, n + 1)
    BY <1>10, <2>1, <2>2 DEF LastOf
  <2> QED BY <1>1, <2>1, <2>3 DEF ViewsInv, LastSaid
<1>11. LastSaid'
  BY <1>9, <1>10 DEF LastSaid
<1> QED BY <1>7, <1>8, <1>11 DEF ViewsInv

(* A page that is loaded anew knows nothing, and nothing was said to it.    *)
LEMMA ReloadStep ==
  ASSUME ViewsInv, Reload
  PROVE  ViewsInv'
<1>1. feed' = <<>> /\ DOMAIN views' = {} /\ said' = [i \in Items |-> "nothing"]
  BY DEF Reload, None
<1>2. PageTypeOK'
  <2>1. feed' \in Seq([thread : Threads, item : Items, content : Views])
    BY <1>1
  <2> QED BY <1>1, <2>1 DEF PageTypeOK
<1>3. DOMAIN feed' = {}
  BY <1>1
<1>4. OwnThread'
  BY <1>1, <1>3 DEF OwnThread
<1>5. LastSaid'
  BY <1>1, <1>3 DEF LastSaid, Get
<1> QED BY <1>2, <1>4, <1>5 DEF ViewsInv

(* A step of the page or of the router keeps both invariants.               *)
LEMMA ViewsStep ==
  ASSUME RouterAssumption, HintsSuffice, RouterInv, ViewsInv, [ViewsNext]_<<vars, pageVars>>
  PROVE  RouterInv' /\ ViewsInv'
<1>1. [Next]_vars
  <2>1. ASSUME NEW i \in Items, ItemRouted(i)
        PROVE  Next
    BY <2>1, ToldOf
  <2>2. CASE TurnRouted
    BY <2>2 DEF TurnRouted, Next
  <2>3. CASE OnItemEvent \/ Reload \/ UNCHANGED <<vars, pageVars>>
    BY <2>3 DEF OnItemEvent, Reload
  <2> QED BY <2>1, <2>2, <2>3 DEF ViewsNext
<1>2. RouterInv'
  BY <1>1, RouterStep
<1>3. ASSUME UNCHANGED pageVars
      PROVE  ViewsInv'
  BY <1>3 DEF ViewsInv, PageTypeOK, OwnThread, LastSaid, Waits, LastOf, pageVars
<1>4. ASSUME NEW i \in Items, ItemRouted(i)
      PROVE  ViewsInv'
  <2>1. NothingLost'
    BY <1>2 DEF RouterInv
  <2> QED BY <1>4, <2>1, ItemRoutedStep
<1>5. CASE TurnRouted
  BY <1>2, <1>3, <1>5 DEF TurnRouted
<1>6. CASE OnItemEvent
  BY <1>2, <1>6, OnItemEventStep
<1>7. CASE Reload
  BY <1>2, <1>7, ReloadStep
<1>8. CASE UNCHANGED <<vars, pageVars>>
  BY <1>2, <1>3, <1>8
<1> QED BY <1>2, <1>4, <1>5, <1>6, <1>7, <1>8 DEF ViewsNext

(* What the invariant says of an empty feed.                                *)
LEMMA ViewsInvGivesViewsTrue ==
  ASSUME ViewsInv
  PROVE  ViewsTrue
<1> SUFFICES ASSUME feed = <<>>, NEW t \in Threads, NEW i \in Items
             PROVE  Get(views, <<t, i>>, "nothing") = (IF t = Own(i) THEN said[i] ELSE "nothing")
  BY DEF ViewsTrue, Own
<1>1. ~Waits(i)
  BY DEF Waits
<1>2. CASE t = Own(i)
  BY <1>1, <1>2 DEF ViewsInv, LastSaid
<1>3. CASE t # Own(i)
  <2>1. <<t, i>> \notin DOMAIN views
    <3>1. \A j \in Items : <<t, i>> = <<Own(j), j>> => i = j
      OBVIOUS
    <3> QED BY <1>3, <3>1 DEF ViewsInv, OwnThread
  <2> QED BY <1>3, <2>1 DEF Get
<1> QED BY <1>2, <1>3

(* With enough hints for the router, and everything delivered, the page     *)
(* shows of every item what codex said of it last, in the item's own thread *)
(* and in no other.                                                         *)
THEOREM ViewsAreTrue == HintsSuffice => (ViewsSpec => []ViewsTrue)
<1> SUFFICES ASSUME HintsSuffice
             PROVE  ViewsSpec => []ViewsTrue
  OBVIOUS
<1>1. ViewsInit => RouterInv /\ ViewsInv
  BY InitRouterInv, InitViewsInv, RouterAssumption DEF ViewsInit
<1>2. RouterInv /\ ViewsInv /\ [ViewsNext]_<<vars, pageVars>> => (RouterInv /\ ViewsInv)'
  BY ViewsStep, RouterAssumption
<1>3. RouterInv /\ ViewsInv => ViewsTrue
  BY ViewsInvGivesViewsTrue
<1> QED BY <1>1, <1>2, <1>3, PTL DEF ViewsSpec
=============================================================================
