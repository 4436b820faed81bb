----------------------------- MODULE ItemViews ------------------------------
(***************************************************************************)
(* What a page keeps of the items of a turn: applyUiEvent puts the events   *)
(* the router publishes of them into maps keyed by thread and item, out of  *)
(* which the chips of the current thread's tools, the sources and the       *)
(* messages are shown.                                                      *)
(*                                                                         *)
(* The feed keeps its order (UiEventStream); the events of turns are        *)
(* ChatTurns' and pass by.  The text of a message is ThreadHistory's.       *)
(***************************************************************************)
EXTENDS NotificationRouter, Naturals, Sequences

CONSTANTS
  MaxFeed,     \* bound: events on their way to the page
  MaxReloads   \* bound: reloads of the page

ASSUME ViewsAssumption == {MaxFeed, MaxReloads} \subseteq Nat

VARIABLES
  feed,     \* the events of items on their way to the page
  views,    \* toolStatusesByItemId, sourcesByItemId, assistantMessageIdByItemId:
            \* one map, since the type of an item decides which of them it is in
  reloads,
  said      \* history: what codex said last of each item since the page was
            \* loaded, if there is a view of it

pageVars == <<feed, views, reloads, said>>

ViewsInit ==
  /\ Init
  /\ feed = <<>>
  /\ views = None
  /\ reloads = 0
  /\ said = [i \in Items |-> "nothing"]

(* What a notification makes of the item it is about: the status of a tool, *)
(* the sources of a search, or a message.                                   *)
Content(i, kind) ==
  CASE kind = "delta" -> {"message"}
    [] ItemEvent(i, kind) = "sources.updated" -> {"sources"}
    [] ItemEvent(i, kind) = "tool.status" /\ kind = "item/started" -> {"inProgress"}
    [] ItemEvent(i, kind) = "tool.status" /\ kind = "item/completed" -> {"completed", "failed"}
    [] OTHER -> {"nothing"}

-----------------------------------------------------------------------------
(* A notification of an item is routed, and its event published.            *)
ItemRouted(i) ==
  /\ Len(feed) < MaxFeed
  /\ \/ \E hints \in ItemHints : ItemStarted(i, hints) \/ ItemCompleted(i, hints)
     \/ \E hints \in DeltaHints : Delta(i, hints)
  /\ \E content \in Content(i, told'.kind) :
       /\ feed' = IF emitted' = Nothing THEN feed
                  ELSE Append(feed, [thread |-> emitted'.thread, item |-> i, content |-> content])
       /\ said' = IF content = "nothing" THEN said ELSE [said EXCEPT ![i] = content]
  /\ UNCHANGED <<views, reloads>>

(* One of a turn, or the exit of codex, of which nothing is published.      *)
TurnRouted ==
  /\ \/ \E u \in Turns, hints \in TurnHints : TurnStarted(u, hints) \/ TurnCompleted(u, hints)
     \/ CodexExits
  /\ UNCHANGED pageVars

(* Mutants, here and below: altered forms of the definition that follows,   *)
(* each of which breaks a property (README, "Mutants").                     *)
OnlyFirstIsKept ==
  /\ feed # <<>>
  /\ feed' = Tail(feed)
  /\ LET key == <<Head(feed).thread, Head(feed).item>>
     IN views' = Set(views, key, Get(views, key, Head(feed).content))
  /\ UNCHANGED <<vars, reloads, said>>

(* applyUiEvent: tool.status, sources.updated, agent.delta.  The key is     *)
(* toItemThreadKey.                                                         *)
OnItemEvent ==
  /\ feed # <<>>
  /\ feed' = Tail(feed)
  /\ views' = Set(views, <<Head(feed).thread, Head(feed).item>>, Head(feed).content)
  /\ UNCHANGED <<vars, reloads, said>>

(* The page is loaded anew, with initialChatState.                          *)
Reload ==
  /\ reloads < MaxReloads
  /\ reloads' = reloads + 1
  /\ feed' = <<>>
  /\ views' = None
  /\ said' = [i \in Items |-> "nothing"]
  /\ UNCHANGED vars

ViewsNext == (\E i \in Items : ItemRouted(i)) \/ TurnRouted \/ OnItemEvent \/ Reload

ViewsSpec == ViewsInit /\ [][ViewsNext]_<<vars, pageVars>>

-----------------------------------------------------------------------------
(* Properties                                                               *)

(* With everything delivered the page shows of every item what codex said   *)
(* of it last, in the thread it belongs to and in no other, though most     *)
(* notifications do not name that thread, turns of two threads overlap and  *)
(* codex exits in between.                                                  *)
ViewsTrue ==
  feed = <<>> =>
    \A t \in Threads, i \in Items :
      Get(views, <<t, i>>, "nothing") = (IF t = ThreadOf[TurnOf[i]] THEN said[i] ELSE "nothing")
=============================================================================
