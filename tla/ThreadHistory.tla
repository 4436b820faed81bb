--------------------------- MODULE ThreadHistory ---------------------------
(***************************************************************************)
(* The messages of one thread in the chat UI: pages of history, read by     *)
(* ThreadService.listThreadMessages from what codex has stored and put into *)
(* the list by chatReducer, and the live messages, appended on Send and     *)
(* from agent.delta events.                                                 *)
(*                                                                         *)
(* Turn j has two messages: the user's, number 2j - 1, and the agent's      *)
(* answer, 2j.  codex (external) stores them in the order in which they     *)
(* begin and end, an answer when it is complete or as far as it came; the   *)
(* text of a message is the number of its chunks.  Turns may be started     *)
(* from another tab, fail, be interrupted, or be lost with codex.  Other    *)
(* threads are here only as far as they share loadingMoreHistoryThreadId    *)
(* with this one.                                                           *)
(***************************************************************************)
EXTENDS Naturals, FiniteSets, SequencesExt

CONSTANTS
  PageSize,     \* THREAD_MESSAGES_PAGE_SIZE
  Chunks,       \* bound: deltas of an agent's message
  Opened,       \* how many turns the thread may have when the page is opened
  MaxTurns,     \* bound: turns of the thread
  MaxLoads,     \* bound: pages asked for
  MaxElsewhere  \* bound: older pages asked for in other threads

ASSUME HistoryAssumption ==
  /\ PageSize \in 1..100
  /\ Chunks \in Nat \ {0}
  /\ {MaxTurns, MaxLoads, MaxElsewhere} \subseteq Nat
  /\ Opened \subseteq 0..MaxTurns

VARIABLES
  store,        \* the messages codex has stored, in order: number and text
  turns,        \* turns begun or asked for so far
  turn,         \* the turn that runs, or 0
  spoken,       \* deltas sent of its answer
  posts,        \* turns whose startTurn codex may still execute
  asking,       \* the one handleSend waits for, or 0
  stream,       \* deltas on their way to the tab: numbers of messages
  list,         \* messagesByThreadId: number, id and text of each message
  idOf,         \* assistantMessageIdByItemId: the id of message n, or "none"
  cursor,       \* historyNextCursorByThreadId, 0 for null
  loaded,       \* historyLoadedByThreadId
  loadingMore,  \* loadingMoreHistoryThreadId: "none", "this" or "other"
  elsewhere,    \* the older pages asked for in other threads: under way, over
  pages,        \* the page requests under way: what each asks and got
  asked,        \* page requests so far
  crossed,      \* history: the list is not what codex stores any more (see NoGap)
  overtaken     \* history: a first page began behind an answer whose first
                \* delta had not come

serverVars == <<store, turns, turn, spoken, posts, asking>>
listVars == <<list, idOf, cursor, loaded>>
lockVars == <<loadingMore, elsewhere>>
pageVars == <<pages, asked>>
historyVars == <<crossed, overtaken>>
vars == <<serverVars, stream, listVars, lockVars, pageVars, historyVars>>

Question(j) == 2 * j - 1
Answer(j) == 2 * j
IsUser(n) == n % 2 = 1

Stored(n, text) == [item |-> n, text |-> text]

(* A message from history has the id of its item; a live one `user-<time>`  *)
(* or `assistant-<item>`.                                                   *)
Message(n, id, text) == [item |-> n, id |-> id, text |-> text]

(* The page may be opened while a turn runs.                                *)
Init ==
  /\ turns \in Opened
  /\ turn \in {0, turns}
  /\ spoken \in IF turn = 0 THEN {0} ELSE 0..Chunks
  /\ store = [n \in 1..(IF turn = 0 THEN 2 * turns ELSE 2 * turns - 1) |->
                Stored(n, IF IsUser(n) THEN 1 ELSE Chunks)]
  /\ posts = {}
  /\ asking = 0
  /\ stream = <<>>
  /\ list = <<>>
  /\ idOf = [n \in 1..(2 * MaxTurns) |-> "none"]
  /\ cursor = 0
  /\ loaded = FALSE
  /\ loadingMore = "none"
  /\ elsewhere = [loading |-> 0, over |-> 0]
  /\ pages = <<>>
  /\ asked = 0
  /\ crossed = FALSE
  /\ overtaken = FALSE

-----------------------------------------------------------------------------
(* Turns                                                                    *)

(* handleSend: append-user-message, and startTurn.  One at a time; whether  *)
(* the turn before is over on this tab is not certain: Stop's answer, a     *)
(* failure and a turn of another tab leave the composer unlocked (ChatTurns *)
(* has the lock).                                                           *)
Send ==
  /\ asking = 0
  /\ turns < MaxTurns
  /\ turns' = turns + 1
  /\ asking' = turns + 1
  /\ posts' = posts \cup {turns + 1}
  /\ list' = Append(list, Message(Question(turns + 1), "live", 1))
  /\ crossed' = (crossed \/ turn # 0 \/ stream # <<>>)
  /\ UNCHANGED <<store, turn, spoken, stream, idOf, cursor, loaded, lockVars, pageVars,
                 overtaken>>

(* startTurn rejects.  The bubble stays; and where the page gave up, the    *)
(* request may still be executed.                                           *)
SendFails ==
  /\ asking # 0
  /\ asking' = 0
  /\ crossed' = TRUE
  /\ UNCHANGED <<store, turns, turn, spoken, posts, stream, listVars, lockVars, pageVars,
                 overtaken>>

Starts(j) ==
  /\ turn = 0
  /\ turn' = j
  /\ store' = Append(store, Stored(Question(j), 1))
  /\ UNCHANGED <<spoken, stream, listVars, lockVars, pageVars, overtaken>>

CodexStarts(j) ==
  /\ j \in posts
  /\ Starts(j)
  /\ posts' = posts \ {j}
  /\ asking' = (IF asking = j THEN 0 ELSE asking)
  /\ crossed' = (crossed \/ asking # j)
  /\ UNCHANGED turns

(* A turn of another tab: its question does not come over the stream.       *)
StartsElsewhere ==
  /\ turns < MaxTurns
  /\ turns' = turns + 1
  /\ Starts(turns + 1)
  /\ crossed' = TRUE
  /\ UNCHANGED <<posts, asking>>

CodexSpeaks ==
  /\ turn # 0 /\ spoken < Chunks
  /\ spoken' = spoken + 1
  /\ stream' = Append(stream, Answer(turn))
  /\ UNCHANGED <<store, turns, turn, posts, asking, listVars, lockVars, pageVars, historyVars>>

(* The turn ends: the answer is complete, or was interrupted and is kept as *)
(* far as it came.                                                          *)
CodexStores ==
  /\ turn # 0 /\ spoken > 0
  /\ turn' = 0
  /\ spoken' = 0
  /\ store' = Append(store, Stored(Answer(turn), spoken))
  /\ UNCHANGED <<turns, posts, asking, stream, listVars, lockVars, pageVars, historyVars>>

(* It ends without one: it failed, or was interrupted, or codex exited.     *)
CodexDrops ==
  /\ turn # 0
  /\ turn' = 0
  /\ spoken' = 0
  /\ crossed' = (crossed \/ spoken > 0)
  /\ UNCHANGED <<store, turns, posts, asking, stream, listVars, lockVars, pageVars, overtaken>>

(* applyUiEvent: agent.delta.  An item with an id is looked for under that  *)
(* id; another one starts a message.                                        *)
OnDelta ==
  LET n == Head(stream) IN
  /\ stream # <<>>
  /\ stream' = Tail(stream)
  /\ IF idOf[n] # "none"
     THEN /\ list' = [m \in DOMAIN list |->
                        IF list[m].item = n /\ list[m].id = idOf[n]
                        THEN [list[m] EXCEPT !.text = @ + 1] ELSE list[m]]
          /\ UNCHANGED idOf
     ELSE /\ list' = Append(list, Message(n, "live", 1))
          /\ idOf' = [idOf EXCEPT ![n] = "live"]
  /\ UNCHANGED <<serverVars, cursor, loaded, lockVars, pageVars, historyVars>>

-----------------------------------------------------------------------------
(* Pages                                                                    *)

Ask(kind, c) ==
  /\ asked < MaxLoads
  /\ asked' = asked + 1
  /\ pages' = Append(pages, [kind |-> kind, at |-> "asked", cursor |-> c,
                             data |-> <<>>, next |-> 0])

(* bootstrap or handleSelectThread, while no first page has come.           *)
AskFirst ==
  /\ ~loaded
  /\ Ask("first", 0)
  /\ UNCHANGED <<serverVars, stream, listVars, lockVars, historyVars>>

(* handleLoadMoreHistory.                                                   *)
AskMore ==
  /\ cursor # 0
  /\ loadingMore # "this"
  /\ loadingMore' = "this"
  /\ Ask("more", cursor)
  /\ UNCHANGED <<serverVars, stream, listVars, elsewhere, historyVars>>

(* The same in another thread, which the user may turn to and come back     *)
(* from at any time: the id of the thread that loads is one for all.        *)
AskMoreElsewhere ==
  /\ loadingMore # "other"
  /\ elsewhere.loading + elsewhere.over < MaxElsewhere
  /\ loadingMore' = "other"
  /\ elsewhere' = [elsewhere EXCEPT !.loading = @ + 1]
  /\ UNCHANGED <<serverVars, stream, listVars, pageVars, historyVars>>

(* Its page is there, or failed; `finally` clears the id, whosever it is.   *)
MoreElsewhereOver ==
  /\ elsewhere.loading > 0
  /\ loadingMore' = "none"
  /\ elsewhere' = [loading |-> elsewhere.loading - 1, over |-> elsewhere.over + 1]
  /\ UNCHANGED <<serverVars, stream, listVars, pageVars, historyVars>>

(* Mutants, here and below: altered forms of the definition that follows,   *)
(* each of which breaks a property (README, "Mutants").                     *)
PageEndSkipsOne(c) == IF c = 0 \/ c > Len(store) THEN Len(store) ELSE c - 1

(* listThreadMessages: the page that ends at the cursor, or at the end.     *)
PageEnd(c) == IF c = 0 \/ c > Len(store) THEN Len(store) ELSE c
PageStart(c) == IF PageEnd(c) > PageSize THEN PageEnd(c) - PageSize ELSE 0

PageData(c) ==
  [m \in 1..(PageEnd(c) - PageStart(c)) |->
     LET stored == store[PageStart(c) + m] IN
     Message(stored.item, "history", stored.text)]

ListThreadMessages(p) ==
  /\ pages[p].at = "asked"
  /\ pages' = [pages EXCEPT ![p] =
                 [@ EXCEPT !.at = "answered", !.data = PageData(pages[p].cursor),
                           !.next = PageStart(pages[p].cursor)]]
  /\ UNCHANGED <<serverVars, stream, listVars, lockVars, asked, historyVars>>

Concatenate(older, now) == older \o now

(* What s has at the positions K, in order.                                 *)
Rank(i, K) == Cardinality({j \in K : j <= i})

Subsequence(s, K) ==
  [k \in 1..Cardinality(K) |-> s[CHOOSE i \in K : Rank(i, K) = k]]

(* mergeUniqueMessages, of a page and the list, neither of which repeats an *)
(* id.                                                                      *)
Unseen(older, now) ==
  {m \in DOMAIN now : \A n \in DOMAIN older :
     <<older[n].item, older[n].id>> # <<now[m].item, now[m].id>>}

MergeUnique(older, now) == older \o Subsequence(now, Unseen(older, now))

IdsReplaced(data) ==
  [n \in DOMAIN idOf |->
     IF \E m \in DOMAIN data : data[m].item = n /\ ~IsUser(n) THEN "history" ELSE "none"]

(* buildAssistantMap, merged into the ids there are.                        *)
WithIds(data) ==
  [n \in DOMAIN idOf |->
     IF \E m \in DOMAIN data : data[m].item = n /\ ~IsUser(n) THEN "history" ELSE idOf[n]]

Finish(p) == pages' = RemoveAt(pages, p) /\ UNCHANGED asked

(* The page ends with the newest message, and no other is being added.      *)
UpToDate(data) ==
  /\ turn = 0 /\ asking = 0 /\ stream = <<>>
  /\ data # <<>> => store # <<>> /\ Last(data).item = Last(store).item
  /\ data = <<>> => store = <<>>

(* The messages before a cursor.                                            *)
Before(c) == {store[n].item : n \in 1..c}

Overtakes(data, next) ==
  \E i \in DOMAIN stream : WithIds(data)[stream[i]] = "none" /\ stream[i] \in Before(next)

(* replace-thread-history-page.                                             *)
OnFirstPage(p) ==
  /\ pages[p].at = "answered" /\ pages[p].kind = "first"
  /\ list' = pages[p].data
  /\ idOf' = WithIds(pages[p].data)
  /\ cursor' = pages[p].next
  /\ loaded' = TRUE
  /\ Finish(p)
  /\ crossed' = ~UpToDate(pages[p].data)
  /\ overtaken' = (overtaken \/ Overtakes(pages[p].data, pages[p].next))
  /\ UNCHANGED <<serverVars, stream, lockVars>>

(* The page ends where the list begins, or the list begins with it.         *)
Fits(p) == cursor \in {pages[p].cursor, pages[p].next}

(* prepend-thread-history-page.                                             *)
OnMorePage(p) ==
  /\ pages[p].at = "answered" /\ pages[p].kind = "more"
  /\ list' = MergeUnique(pages[p].data, list)
  /\ idOf' = WithIds(pages[p].data)
  /\ cursor' = pages[p].next
  /\ loadingMore' = "none"
  /\ Finish(p)
  /\ crossed' = (crossed \/ ~Fits(p))
  /\ UNCHANGED <<serverVars, stream, loaded, elsewhere, overtaken>>

OnPageFailed(p) ==
  /\ loadingMore' = (IF pages[p].kind = "more" THEN "none" ELSE loadingMore)
  /\ Finish(p)
  /\ UNCHANGED <<serverVars, stream, listVars, elsewhere, historyVars>>

Next ==
  \/ Send \/ SendFails \/ \E j \in posts : CodexStarts(j)
  \/ StartsElsewhere \/ CodexSpeaks \/ CodexStores \/ CodexDrops \/ OnDelta
  \/ AskFirst \/ AskMore \/ AskMoreElsewhere \/ MoreElsewhereOver
  \/ \E p \in DOMAIN pages :
       ListThreadMessages(p) \/ OnFirstPage(p) \/ OnMorePage(p) \/ OnPageFailed(p)

Spec == Init /\ [][Next]_vars

-----------------------------------------------------------------------------
(* Properties                                                               *)

(* No message is shown twice, whatever pages and deltas cross, turns end    *)
(* early and sends fail: history and live ids of one message never meet in  *)
(* the list.  It takes a first page that begins behind an answer whose first *)
(* delta is still to come.                                                  *)
ShownOnce ==
  ~overtaken => \A m, n \in DOMAIN list : list[m].item = list[n].item => m = n

(* Once a first page is there the list has no gap and no disorder, and      *)
(* "Load more" continues exactly where it begins, pages of history loading  *)
(* while turns add messages at the end.  The list and what codex stores     *)
(* part when a first page is not up to date as it arrives (or a turn runs), *)
(* an older page was asked for twice and comes after the one before it, a   *)
(* send fails, codex starts a turn this tab did not ask for or has given up, *)
(* drops what an answer has said so far, or the user sends before the turn  *)
(* before is over on this tab; until a first page is up to date again.      *)
NoGap ==
  loaded /\ ~crossed =>
    \A m \in DOMAIN list :
      IF cursor + m <= Len(store)
      THEN list[m].item = store[cursor + m].item
      ELSE m = Len(list) /\ list[m].item \notin Before(Len(store))

(* With everything delivered the text of every message shown is complete,   *)
(* and the newest one is shown; with the same exceptions.                   *)
TextComplete ==
  loaded /\ ~crossed /\ turn = 0 /\ asking = 0 /\ stream = <<>> =>
    /\ cursor + Len(list) = Len(store)
    /\ \A m \in DOMAIN list : list[m].text = store[cursor + m].text
=============================================================================
