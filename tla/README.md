# A TLA+ model of codex-app-server-example

The repository is a chat interface for `codex app-server`. Four programs take
part:

    browser (web-ui)  <-- HTTP, SSE -->  codex-app-server, the BFF  <-- JSON lines -->  codex app-server
                                              |
                                              +-- ngrok (optional tunnel, behind an nginx gate)

This directory models the parts whose behaviour depends on the order of things:
which process is alive, which message overtakes which, what was read before an
`await` and is used after it. The modules follow the code under `src/`; `codex`,
`ngrok`, the browser's `EventSource` and `fetch`, and the network are
environment, modelled from how the code uses them.

To run everything: `tlc -config X.cfg MCY.tla` for each line of the table in
"Runs", `tlapm M.tla` for each of the eight `...Proofs` modules. Names in the modules are those
of the code where TLA+ allows it.


## 1. Inventory

| component | state | operations | talks to |
|---|---|---|---|
| `rpc/codex-process-manager.ts` | `child`, `starting` | `ensureStarted`, `sendMessage`, `start` (100 ms wait), `stop`, exit handler | codex over stdin; events to the client |
| `rpc/jsonrpc-client.ts` | `nextId`, `pending`, `initialized`, `initializing` | `request` (3 attempts on overload), `ensureInitialized`, `rawRequest` (timeouts 15 s, 30 s), `respond`, `close`, exit and line handlers | process manager; every service |
| `services/approval-service.ts` | `pending` | server request handler, `approveCommand`, `approveFileChange` | client, event bus, routes |
| `rpc/notification-router.ts` | three maps: turn to thread, item to thread, turn to items | one case per notification | client, event bus |
| `utils/ui-event-bus.ts`, `routes/events.ts` | `sequence`, `buffer` of 500, `clients` | `publish`, `attach` (replay), heartbeat, `close` | browsers over SSE |
| `web-ui/lib/sse-client.ts` | `lastEventId`, two timers, the `EventSource` | open, ui, heartbeat, error, reconnect, disconnect | the bus; chat shell |
| `services/tunnel-service.ts` | `status`, `publicUrl`, `passwordHash`, `sessions`, `process`, `shuttingDownProcess`; the external address, its age and lookup | `enable`, `disable`, `login`, `logout`, `isSessionValid`, `readAdminState`, child output and exit | ngrok, settings page, nginx |
| `services/thread-service.ts`, `turn-service.ts`, `auth-service.ts` | none | one or two codex requests each; history pages | client, routes |
| `web-ui/components/chat-shell.tsx`, `lib/event-reducer.ts` | threads, current thread, flags of each thread (`sending`, `awaiting`, active turn), messages, cursors | Send, Stop, select, create, load more, one case per UI event | API client, SSE client |
| `web-ui/components/prompt-composer.tsx` | draft, picked images, `preparingAttachments` | type, attach, remove, submit (prepare images, `handleSend`, empty) | chat shell |
| `web-ui/components/approval-banner.tsx`, with the reducer's `commandApprovals`, `fileApprovals` | the requests shown | one button each, `consume-...-approval` | approval routes, SSE client |
| `web-ui/components/message-list.tsx` | `firstItemIndex`, refs of the commit before | an effect per commit | virtual list |
| `toolStatusesByItemId`, `sourcesByItemId`, `reasoningByItemId` of the reducer, with chips and panels | what codex said of each item | one case per UI event | SSE client |
| `web-ui/lib/api-client.ts` | none beyond a call | `request`: attempts, timeout, backoff, login gate | BFF over HTTP |
| `web-ui/components/code-block.tsx` | cache of 200, jobs in flight, task queue, one ref per block | effect and cleanup of a block, queue step per frame, end of a job | Shiki |
| `web-ui/app/settings/page.tsx` | last state read, `loading`, `busy` | read, poll each 3 s, Refresh, ON, OFF, log out | tunnel routes |
| login page, log panel, message bubbles | form and view state | rendering, one request each | API client |
| `app.ts`, `main.ts`, `config/env.ts`, `packages/shared-contracts`, nginx, Docker | configuration, types | wiring, error mapping, shutdown hook | all |

What is hard in this code, and hardly reached by a test:

* **exits and restarts of codex** while calls wait in any stage; a spawned child
  is written to only after 100 ms, and the client's flags speak of whichever
  child is current;
* **decisions for a codex that is gone**: approvals outlive their process, and
  the ids of two codex coincide;
* **connections**: SSE breaks, stalls and is resumed by number, with two parties
  (the browser and the client code) able to reconnect; the numbering starts over
  with the BFF;
* **two sources of truth in the page**: a turn is announced by the answer to an
  HTTP request and by events, in any order; history pages cross live deltas;
  turns are begun by other tabs, by requests this page has given up, and before
  it was loaded; a request for approval is decided in one page and shown in
  others;
* **`await` between test and use** in the tunnel service, with requests, timers
  and the events of several children interleaved;
* **retries and timeouts** at two levels (page and BFF), neither of which can
  take back what was sent;
* **guesses from what was there before**: the router guesses the thread of an
  item, the message list guesses from two renderings that a page was prepended;
* **shared queues, caches and locks** in the page, with effects that outlive
  their data, and one lock for the history of all threads.

Properties that make each component right are stated in the modules and listed
under "Runs"; `PROJECT.json` lists the hazards with their lines.


## 2. Modules

| module | models | composed of |
|---|---|---|
| `CodexProcess` | the process manager: incarnations of the child, what each was written, messages held back by `start()` | |
| `JsonRpcClient` | the client, its calls, and codex as environment | extends `CodexProcess` |
| `CallService` | abstract: a call is executed at most once and succeeds only by its own execution | implemented by `JsonRpcClient` |
| `Approvals` | the approval service | extends `JsonRpcClient` |
| `ApprovalDesk` | abstract: a request waits until it is decided, and its codex gets the decision once | implemented by `Approvals` |
| `ApprovalBanner` | several pages that show and decide requests | extends `ApprovalDesk` |
| `NotificationRouter` | the router, for any ids a notification may leave out | |
| `ItemViews` | what a page keeps and shows of the items of turns | extends `NotificationRouter` |
| `UiEventStream` | bus, route, connection, `EventSource`, SSE client | |
| `UiEventFeed` | abstract: events in order, once, gaps only where the window overflowed | implemented by `UiEventStream` |
| `TunnelService` | the tunnel service and its children | |
| `TunnelGate` | abstract: opens under a password just brought, forgets it with its sessions when it closes | implemented by `TunnelService` |
| `ChatTurns` | turn state of the chat page, its handlers and events | |
| `ThreadHistory` | the messages of one thread: history pages and live deltas | |
| `MessageList` | the rows of the virtual list | extends `ThreadHistory` |
| `ApiClient` | `request()` of the page, the network and the handler | |
| `PromptComposer` | draft, images and submit | extends `ApiClient` |
| `CodeHighlight` | code blocks: queue, jobs, cache | |
| `SettingsPage` | the settings page's view of the tunnel, and the external-address cache | |
| `ApprovalBannerProofs`, `NotificationRouterProofs`, `UiEventStreamProofs`, `TunnelServiceProofs`, `ChatTurnsProofs`, `PromptComposerProofs` | theorems about the module named and the one composed of it or with it | each extends these modules |
| `JsonRpcClientProofs` | theorems about `JsonRpcClient`, then about `Approvals` | extends `Approvals` |
| `MessagePaneProofs` | theorems about `ThreadHistory`, `MessageList` and `CodeHighlight` | extends the last two |
| `MC...` | the instances for TLC | |

### Processes, calls and approvals: CodexProcess, JsonRpcClient, Approvals, ApprovalBanner

The n-th spawn is incarnation n. `wire[c]` is all that was written to the stdin
of c, so "what codex saw, and in which order" is state and can be constrained.
`sendMessage` is one of two things: a write in the same turn of the event loop,
or a spawn that holds the message for 100 ms (`held`) and then writes it to the
child of *that* moment. The second test in `ensureStarted` can never succeed;
`OneProcess` says why.

An action is one turn of the JavaScript event loop. When a turn resumes several
calls, each resumes in an action of its own and the guard `Turn` keeps every
other event out until all have run, as the microtask queue does. A call is at one
of seven places (`Places`); `attempt` is the loop variable of `request`.

codex answers, refuses (overload), rejects an initialize, or is silent; it may
exit at any moment. `Crash` has one bound besides its count: no further exit
while `initialized` is held back by a start timer.

`Approvals` adds the requests codex makes. A request has the id it has in its own
incarnation, so ids of two incarnations coincide, as they do on the wire; the
service's own `requestId` is the request's number. codex matches an answer by
that id alone and only among the lines it reads after it asked (`seen`):
`Answers` are the lines it takes for the answer to a request, `Strays` those
among them that were meant for another incarnation. Which request a line was
written for (`owner`) is used by the second to tell them apart, and by nothing
codex does.

`ApprovalDesk` is the contract of the service seen from outside: `Decide` takes a
request off the desk and tells its codex, `Discard` takes one off whose codex is
gone, and its answer may then reach a codex that lives and has asked something
under the same id (`Reaches`). `Approvals` implements it (`KeepsTheDesk`), with
`alive` for the codex that live and the lines codex takes for answers (`Answers`)
for the decisions that arrived. `ApprovalBanner` is built on the contract, so that pages, posts and late answers can be explored
without the process underneath: each page has a feed of requests on their way and
the entries of its banner; a post is a click on its way through route and service
and back. `awaited` is false once the page has given it up, while the handler
goes on.

### Events: NotificationRouter, ItemViews, UiEventStream

The router is driven by an environment in which turns and items run their course
and every notification tells the truth but may leave ids out (`TurnHints`,
`ItemHints`, `DeltaHints`). `emitted` is the event the latest notification
caused; `NothingLost` compares it with the event that was due. `ItemViews` sends
those events on to a page that may be some events behind and files each under the
key `thread:item`; `said` remembers what codex said last of each item, and
`ViewsTrue` compares the two.

`UiEventStream` has one tab, since the bus treats its clients alike. A connection
carries events in order and breaks, stalls or is refused; the `EventSource`
reconnects by itself after a break (its own `Last-Event-ID`, the old URL) and
gives up on a refusal; `openStream` starts over with the closure's `lastEventId`.

### Tunnel: TunnelService, SettingsPage

Each request is `idle`, `polling` (in `waitForStartWindow`), `stopping` (in
`stopTunnelProcess`) or `done`. Children are numbered; `alive` are those whose
exit event has not come, `signalled` those that were sent SIGTERM. What a child
printed may be read after its exit event: the listeners of its output are never
removed, and `tryCapturePublicUrl` asks for the status alone, so `UrlPrinted` is
a step of every child there ever was. Each ON brings a password of its own.
`MaxParallel` bounds how many requests overlap. `crossed`
is a history variable: an enable started a child while a stop was waiting, or a
stop gave up on a child that would not exit. Nothing in the specification reads
it; two invariants name it as the only way for them to fail.

`TunnelGate` is what the service promises to whoever stands before the tunnel: a
password, whether the gate is open, and the sessions. An ON that begins sets a
password, once; the gate opens only under it and closes by forgetting it and all
sessions. `TunnelService` implements it (`KeepsTheGate`) without an exception:
what a start inside a stop's wait drives apart is the status and the child, never
the password and its sessions.

The settings page sees the service as a status with the ways it can change, and
as the cache in front of the external address: a read that finds it stale waits
for the lookup, its own or one under way, and is answered afterwards with the
status of *that* moment. A click is ON, OFF or Refresh; the last is a read that
sets `loading` again and stops the interval meanwhile.

### Chat page: ChatTurns, ThreadHistory, MessageList, ApiClient, PromptComposer, CodeHighlight

`ChatTurns` reduces the server to which turn runs in which thread. `send` is the
`handleSend` under way (the composer allows one), `stops` the Stop requests; each
HTTP answer comes at a moment of its own, events come in order. Turns may run
when the page is loaded or reloaded (`before`); bootstrap tells the page nothing
of them, and all it hears of them are their deltas and their end. Turns begin
also by another tab, or by a POST this page has given up and the server executes
later (`StartsElsewhere`, which a POST given up at `posting` can become at any
time). A turn begins only in an idle thread: codex's document
(`codex-appserver.md:117`, `:214`, `:575`) does not say what `turn/start` does
while a turn runs, and the model takes it for refused. The history variable
`crossed` records that an answer came when the stream had told of the end of its
turn or of another turn, or that an answer was lost when the stream had told of
a turn.

`ThreadHistory` numbers the messages of one thread by its turns, a question and
an answer each; `store` is what codex keeps of them, in the order in which they
begin (the questions) and end (the answers), an answer complete or as far as it
came when the turn was interrupted; pages are cut from it as
`listThreadMessages` does. `Send` needs only that no other `handleSend` is under
way: the answer of Stop, a failure or a turn begun elsewhere unlock the composer
while a turn runs or its deltas are still to come. A send may fail and leave its
bubble (`SendFails`), whether or not codex executes it later; a turn may be
another tab's (`StartsElsewhere`), whose question no event brings here; an answer
may be lost with its turn (`CodexDrops`). `Opened` says how many turns the thread
may have when the page comes, the last of which may still run; 0 is a thread just
created. Other threads appear as far as they share `loadingMoreHistoryThreadId`: the id is
one for all threads and whichever request ends clears it, so the same older page
can be asked for twice. Two history variables record what takes the list away
from what codex stores. `crossed`: a first page was not up to date when it arrived
(`UpToDate`; one that is clears the variable), an older page came again after the
one before it (`Fits`), a send failed, codex began a turn this tab does not wait
for or dropped what an answer had said, or the user sent before the turn before
was over on this tab. `overtaken`: a first page began behind an answer of which
no delta had been handled yet.

`MessageList` adds React: dispatches collect in `batch` until a commit, whose
effect compares the list with the one of the commit before. Commit and effect are
one step, so what the list shows between the two (the effect sets the index, and
React renders once more) is not in the model. `IndexOf` is the
absolute index by which the virtual list knows a row.

`ApiClient` follows each attempt: giving one up takes back neither its request
nor what the handler does. The headers are raced by the timeout; the body that
follows, of a result or of an error, is awaited without one, and may break.
`PromptComposer` runs on it: `job` is what `submit` took
from the composer and `carried` what each POST of a turn carries, so that what
codex executed can be compared with what is left to be sent. The locks of the
thread shown (`sending`, `thinking`) are those of `ChatTurns`; a user who turns to
another thread is not held back by them, so they lock nothing here.
`CodeHighlight` names a code and its highlighted form
alike; the microtasks that hand over a result are part of the step that
produces it. The history variable `outrun` holds the fences that were given a
code while a task or a job for an earlier one was under way, jobs that have
already failed excepted.


## 3. Runs

All configurations switch deadlock checking off: the counters are bounded, and a
BFF that shut down, a page that left or a call that settled really has no next
step.

| run | instance | shows |
|---|---|---|
| `JsonRpcClient` | 2 calls, 3 attempts, 2 exits, shutdown; fair | `OneProcess`, `HandshakeFirst`, `NoStrandedCall`, `NoLeakedEntry`; `CallsOnce`: implements `CallService`; `EverythingEnds` |
| `Approvals` | 2 calls, 1 attempt, 1 exit, 2 requests of codex, whose ids coincide if the second is another incarnation's | `AnsweredOnce` (but for answers meant for another codex), `PendingIsUnanswered`; `KeepsTheDesk`: implements `ApprovalDesk` |
| `ApprovalBanner` | 2 pages, 2 requests, 2 codex, 3 clicks, 1 reload | `ShownWhilePending`, `OneDecisionCounts` |
| `UiEventStream` | buffer 2, 4 events, 1 restart, 2 faults; fair | `OneWayBack`, `MarkerIsLast`; `FeedInOrder`: implements `UiEventFeed`; `CatchesUp` |
| `TunnelService` | 3 ON, 2 OFF, up to 3 at a time, late exits, late output; fair | `SessionsOfPassword`; `KeepsTheGate`: implements `TunnelGate`; `RequestsEnd`; and, unless a start crossed a stop, `OffStopsUncrossed`, `TunnelAtHand` |
| `TunnelServiceOrphan` | the same | violates `OffStopsTunnel` |
| `NotificationRouter` | 2 threads, 2 turns, 4 items (two messages, a command, a search), a page 3 events behind, 1 reload | `NothingLost`, `CachesDrain`, `ViewsTrue` |
| `ChatTurns` | 2 threads, 2 turns, begun before the page was loaded, by it or elsewhere, 1 stop, 1 exit, 3 events under way, any order; fair | `StopsOwnTurn`, `FlagsHaveCause`; and unless an answer crossed the stream `StopMatches` (for turns begun since the page was loaded), `ThinkingEnds` |
| `ThreadHistory` | pages of 2, 2 or 3 turns when opened, the last of which may run, 3 in all (6 messages), 3 loads, 1 in another thread, 2 dispatches per commit | `ShownOnce` unless a first page began behind an answer still unseen; and unless the list parted from what is stored `NoGap`, `TextComplete`, `Anchored` |
| `ApiClient` | a GET with 3 attempts; 2 turns POSTed by a composer with 1 draft and 1 image; fair | `MutationRunsOnce`, `ResolvedMeansExecuted`, `SentOnce`, `SubmitEnds` |
| `CodeHighlight` | 2 fences, 3 codes, cache of 2, 4 renderings, 1 failure; fair | `OneJobPerCode`, `QueueDrains`, `QuietShowsCode` (its second half for fences not outrun) |
| `SettingsPage` | 2 reads at a time, 1 change of status or address from elsewhere, 2 clicks, Refresh among them, lookup or request lost; fair | `PageSettles` |

The runs `NotificationRouter`, `ThreadHistory` and `ApiClient` check the
compositions (`ItemViews`, `MessageList`, `PromptComposer`), which contain the
component's own steps unchanged, so its invariants are checked there too. The
largest run (`ThreadHistory`) has three million states; each run takes a minute or
two at most. `JsonRpcClient` has a type invariant, `TypeOK`,
which its proofs need.

Some properties have an exception. It is always an order of events the code
does not guard against, it is recorded by a history variable at the step where
it happens, and the property then says that this order is the *only* way to lose
what it promises (beside the conditions the property itself names): `TunnelService`
shows for instance that OFF and ON may overlap freely as long as no child is
started inside the wait of a stop and no stop gives up on its child.

**Why the bounds are enough.** Two calls are what it takes for one to begin while
another waits for the handshake, and three attempts are the code's own number.
Two exits give an incarnation that was restarted and exits again. A buffer of two
with four events overflows while the tab is away. Three ON and two OFF let a
request overlap both the stop and the start of others. Two threads and two turns
let events of one arrive while the other is current. Six messages in pages of two
give three pages, the last of them asked for twice, which takes one request in
another thread to happen; two turns at first leave one to be begun while pages
load, three make the longest list. Two dispatches in a commit are every pair of
changes that can meet. The same run passes with other bounds too, which are left
out for their time: with two turns, begun on an empty thread or a short one, and
three dispatches per commit (8.3 million states); with one to three turns at first
and two loads (20 million); with answers of one chunk (14 million). Both kinds
of approval are handled alike, so `ApprovalBanner` has one; three clicks are two
decisions of one request in two pages, and one of another.
Three events under way hold the end of one turn, the start of the next
and a thread created elsewhere. Two turns of the composer are one that failed and
the next; a draft and an image are enough to have one of them changed while the
other is sent. A cache of two and three codes evict. For the safety properties the
proofs do without any of these bounds; liveness is shown within them only.

### Where the code does otherwise than a document says

One run ends in a counterexample, to a sentence of a document that is quoted in
`PROJECT.json` under "findings":

* `TunnelServiceOrphan`: an ON that starts a child while an earlier stop waits
  loses it when the stop ends (`this.process = null`); the next OFF finds
  nothing to stop and ngrok runs on. `README.md:130` says OFF stops ngrok.

The models contain further ones, as behaviour and not as a run; the properties
that meet them state the exception:

* A new BFF numbers its events from 1 while the tab resumes with a number of the
  old one, so `attach` skips every event up to that number (`ui-event-bus.ts:69`);
  `WEB_UI_ENHANCEMENT_CHECKLIST.md:93-94` asks for consistent messages after a
  backend restart. In the model: `Restart`; `FeedInOrder` and `CatchesUp` speak of
  one run of the server.
* After an initialize that timed out, the next request sends initialize to the
  same connection again; codex, which has welcomed the client by then, answers
  `Already initialized`, which the client takes for a failed handshake, each time
  (`jsonrpc-client.ts:54`; `codex-appserver.md:124` asks for a single initialize).
  In the model: `CodexRejectsInitialize`, which may also refuse the first.
* A decision taken after codex exited spawns a codex whose first message is that
  decision, for a request of another incarnation (`approval-service.ts:39`;
  `codex-appserver.md:115`, `:846`). In the model: `Approve` without a child.
* A decision for a request of a codex that is gone is written to the one there is
  now, with the old id (`approval-service.ts:39`, `jsonrpc-client.ts:97-103`). Ids
  count from the start of each codex, so it may answer a request of the new codex
  that the user is still asked about or has decided otherwise; the user's own
  decision of it comes too late, and what codex does was decided for something
  else. In the model: `Strays`, which `AnsweredOnce` excepts, the second half of
  `PendingIsUnanswered`, and `Reaches` in the desk. The banner keeps such
  requests on show (below).
* A page that is reloaded is not told of the requests that wait
  (`ui-event-bus.ts:65` replays only to a client with an id), and no page is told
  that a request was decided elsewhere or lost its codex: it stays in the banner,
  and clicking it there is a 404. In the model: `Reload`, and `told` in
  `ShownWhilePending`.
* Turn notifications that name no thread are dropped (`notification-router.ts:45`),
  and `codex-appserver.md:783` documents them without one. In the model:
  `TurnHints`, which the theorem `RoutesEverything` assumes to hold a thread.
* A page loaded or reloaded during a turn does not learn of it
  (`chat-shell.tsx:250-280`), so Stop is disabled while it runs, against
  `WEB_UI_ENHANCEMENT_CHECKLIST.md`, #08. In the model: `before`, and `Known` in
  `StopMatches`.
* A page that gives up on `startTurn` clears its flags and shows an error, and the
  turn may be started later all the same (`api-client.ts:128-161`); its events
  are handled like those of another tab's turn. In the model: `OnStartFailed`
  and, after it, `StartsElsewhere`; `SendFails` and `posts` in `ThreadHistory`.
* An answer to `startTurn` overtaken by `turn.completed` makes the finished turn
  active for good (`chat-shell.tsx:687`), and no event tells the page of an exit of codex
  (`jsonrpc-client.ts:37`): then Stop is enabled without an active turn, against
  `WEB_UI_ENHANCEMENT_CHECKLIST.md:181`. In the model: `crossed` and `crashes` in
  `StopMatches`.
* A first page that arrives during a turn replaces the list and loses what the
  turn has added (`event-reducer.ts:170`). In the model: `crossed` in `NoGap`. If it
  begins behind an answer whose first delta is still to come, that delta appends
  the answer at the end, and the page before brings it once more: it is shown
  twice, until a first page replaces the list. In the model: `overtaken` in
  `ShownOnce`.
* The answer of Stop unlocks the composer while deltas of the stopped turn are on
  their way (`chat-shell.tsx:721-724`): a question sent then stands before the rest
  of the earlier answer or, if that answer was not shown yet, before all of it. A
  failed send leaves its bubble (`:667`, `:694-712`), which codex does not store
  or stores later. A question sent in another tab is announced by no event, and
  the answer to it appears alone. What an interrupted or lost turn has said stays
  in the list, whether or not codex keeps it. In the model: `Send`, `SendFails`,
  `StartsElsewhere` and `CodexDrops` set `crossed`.
* The URL a child prints last is read when it may have exited and another is being
  started (`tunnel-service.ts:198-205`, `:247`): the service is then on with the
  address of a tunnel that is gone. In the model: `UrlPrinted` of any child, and
  the second half of `TunnelAtHand`.
* What the router keeps of turns lost to an exit of codex stays for good, no
  `turn/completed` coming for it. In the model: `CachesDrain` speaks of turns that
  are over.
* `loadingMoreHistoryThreadId` is cleared by the end of any thread's request
  (`chat-shell.tsx:636`), so an older page can be asked for twice; if the copy
  comes after the page before it, the list is out of order and the cursor goes
  back. In the model: `AskMoreElsewhere`, and `Fits` in `crossed`.
* An older page and a delta that are rendered together are taken for a new
  message, and the view jumps (`message-list.tsx:54-58`);
  `WEB_UI_ENHANCEMENT_CHECKLIST.md`, #04, has "load more" and the virtual list no
  longer in conflict. In the model: the last exception of `Anchored`.
* The composer is emptied when a send ends, of what was typed and picked meanwhile
  too, and also when the send failed before anything was sent
  (`prompt-composer.tsx:185`, `chat-shell.tsx:694`). In the model: `EmptyComposer`,
  `EnsureFails`. It is also why nothing is sent twice.
* The chip of a tool whose turn was interrupted, or whose codex exited, stays "in
  progress"; and the sources of a search are looked up under messages with the
  item's own id, which a search does not have (`message-list.tsx:135-145`). In the
  model: `CodexExits` takes no view back; the panels are left out.
* "Cannot reach API server" is also said of a POST that is carried out
  (`api-client.ts:157`). In the model: `Timeout` with the request in `wire`.
* The highlighting of an earlier code of a fence can replace that of the current
  one for good (`code-block.tsx:162`). In the model: `outrun` in `QuietShowsCode`.

### Fairness

* `JsonRpcClient`: timers fire and microtasks run (`SendRequest`, `Retry`,
  `RequestTimeout`, `StartTimer`, `InitializeTimeout`), because Node's event loop
  runs. Of codex only that it exits once it was sent SIGTERM: `stop()` has no
  other means, since its SIGKILL is guarded by `!child.killed`, which is false
  from the SIGTERM on (`codex-process-manager.ts:56`).
* `UiEventStream`: the server accepts, timers fire, what arrives is handled.
  Faults need no fairness and are finitely many.
* `TunnelService`: timers fire; a child that was sent SIGTERM, and SIGKILL two
  seconds later, exits, though not necessarily while the stop waits for it.
* `ChatTurns`: HTTP answers come or fail, turns end, events are handled.
* `ApiClient`: timers fire, a body that began, of a result or of an error, comes or
  breaks (nothing in the code watches it); nothing is assumed of the network or the server. The
  composer's images are decoded or fail, and `ensureThread` settles, its requests
  having the same timeouts.
* `CodeHighlight`: frames come, jobs end one way or the other.
* `SettingsPage`: the interval ticks, the cached address expires (30 s), lookups end
  (each provider has a timeout) and reads that are not lost are answered.
  `PostAnswered` has strong fairness because the bound `Reads` may be used up by
  polls when it wants to send; the code has no such bound.

### Mutants

Some definitions are preceded by an altered form of themselves
(`ExitKeepsInitialized`, `ReplaySkipsOne`, `MayStartAgain`, ...): what the
definition would be with a plausible mistake in the code, such as a reset that is
forgotten, a guard that is dropped or an off-by-one. No specification uses them.
With the altered form in place of the definition its run reports the property
named for it in `PROJECT.json`, "mutants"; so each property depends on the code
being as it is.


## 4. Proofs

The theorems hold for every value of the constants that satisfies the modules'
assumptions: any number of calls, pages, requests, threads, turns, events,
faults. The assumptions are those named in the modules (`ClientAssumption`,
`NoMessageAssumption`, `RouterAssumption`, `StreamAssumption`, `ChatAssumption`
and so on); they say that bounds are natural numbers and that "none" is none of
the rest, and TLC evaluates each in a run. No theorem assumes fairness. Each
proof module begins with its inductive invariant; then come lemmas on what the
helpers of the model do, one lemma per part of the invariant with one step per
action, and the theorems.

**`JsonRpcClientProofs`**

* `TypeCorrect`: `Spec => []TypeOK`. `TypeOK` is inductive. The steps of the
  process manager have lemmas of their own (`SendMessageType`,
  `StartElapsedType`), cited by every action that sends.
* `OneProcessAlways`: `Spec => []OneProcess`, inductive with `TypeOK`: a spawn
  happens only with `child = 0`, and then, before shutdown, nothing is alive.
* `HandshakeComesFirst`: `Spec => []HandshakeFirst`. Not inductive as it stands:
  it says nothing of calls that are about to send. `HandshakeInv` adds that a
  call resumes only with `initialized` true, that `initialized` speaks of the
  current child, and that only an initialize is ever held back by `start()`.
  `WiresGrow` and `GreetedKept` are the lemmas that make it stable: wires only
  grow at their ends.
* `NothingStranded` and `NothingLeaks`: `Spec => []NoStrandedCall`,
  `Spec => []NoLeakedEntry`. Both speak of ids, so both need `IdsInv`: an id is
  handed out once, and wires and held messages carry it for that one use.
  `PendingInv` says whose each entry of `pending` is, which makes "no entry is left
  behind" inductive; `ReachInv` follows the request of a call in flight from
  the start timer to the wire of a child that lives, since an exit rejects all.
* `ExecutedAtMostOnce`: `Spec => CallsOnce`, the refinement of `CallService`. What
  is needed beyond the above is `ServedInv`: only the latest attempt of a call
  is unanswered, and what codex executed was the last attempt of a call that is
  over; a step of the client that executes, settles or retries then maps to
  the action of that name or to a stutter.

**`JsonRpcClientProofs`, from "The approvals" on** (on top of the theorems above,
as `Approvals` on the client)

* `ToldOnce` and `OnlyOpenQuestions`: `ApprovalsSpec => []AnsweredOnce`,
  `[]PendingIsUnanswered`, with answers matched by id as codex does. Ids of one
  incarnation are distinct (`MatchInv`), so a line codex takes for the answer to a
  request was made for this request or for another codex (`AnswersAre`), and of
  the first kind there is one. `ApprovalsInv` adds where
  an answer may be that has not been written: asleep on a start timer, which is
  only so if its codex is gone (`SleepersInv`); this is why a decision cannot
  reach a codex twice, once by the timer, and why one that reaches a living codex
  for another was made for a codex that had exited. The actions of the client are
  reduced to a few shapes of what they do to the manager's fields
  (`ClientShape`), so that they need no case each.
* `ImplementsTheDesk`: `ApprovalsSpec => KeepsTheDesk`, the refinement of
  `ApprovalDesk`, for an environment of codex that exits and starts at every step;
  a request is answered there when codex has a line it takes for the answer,
  whoever it was meant for.

**`ApprovalBannerProofs`**

* `OneCounts`: `Spec => []OneDecisionCounts`, by `DecisionsInv`: a post that
  succeeded is the one that took its request off the desk. It counts the posts,
  so the lemmas on cardinality of one more and one changed post are needed.
* `StaysShown`: `Spec => []ShownWhilePending`: an entry leaves a banner only by an
  answer, and then the request is off the desk.

**`NotificationRouterProofs`**

* `RoutesEverything`: `HintsSuffice => (Spec => []NothingLost)`, by `RouterInv`:
  the caches hold only true entries (`CachesTrue`), and one for everything under
  way (`CachesKnow`). `HintsSuffice` says what the environment owes: turn
  notifications name their thread, item notifications the thread or the turn.
  Without it a turn is not announced.
* `DrainsCaches`: `ItemsNameTurn => (Spec => []CachesDrain)`, by `DrainInv`: every
  entry belongs to a turn that is open and is collected under it. Without
  `ItemsNameTurn` an item is cached that no turn collects, and stays.
* `ViewsAreTrue`: `HintsSuffice => (ViewsSpec => []ViewsTrue)`, from `RouterInv`
  and `ViewsInv`: the last event on its way about an item says what codex said
  last of it, or else the view does (`LastSaid`), and none is filed in another
  thread (`OwnThread`).

**`UiEventStreamProofs`**, one invariant (`StreamInv`) for all three

* `OneWayBackAlways`: `Spec => []OneWayBack`. A tab that reconnects by a timer must
  have no connection left that could break too (`ConnectionInv`).
* `MarkerIsLastAlways`: `Spec => []MarkerIsLast`. The header and the URL carry two
  numbers; `MarkerInv` says which one counts when.
* `ImplementsTheFeed`: `Spec => FeedInOrder`, the refinement of `UiEventFeed`. The
  connection carries a consecutive piece of what was published (`PipeInv`,
  `LiveInv`), which begins after the marker or, if that has left it, with the
  buffer (`BufferInv`); so what is handled next is the next event, or the gap is
  one the window no longer held. Restarts make it delicate: a number of the old
  run may be larger than any of the new one.

**`TunnelServiceProofs`**

* `SessionsDieWithPassword`: `Spec => []SessionsOfPassword`, by `GateInv`: a change of
  the password empties the session map in the same turn of the event loop.
* `ImplementsTheGate`: `Spec => KeepsTheGate`, the refinement of `TunnelGate`. Every
  step of the service maps to a step of the gate or to a stutter: a stop that
  begins leaves the gate as it is, one that returns closes it, whoever waited and
  whatever was started meanwhile; a URL printed when the password is gone opens
  nothing, whichever child printed it. Only the types are needed beside the step itself.
* `OffStopsNgrok` and `NgrokAtHand`: `Spec => []OffStopsUncrossed`,
  `[]TunnelAtHand`. `UncrossedInv` says that, unless a start crossed a stop,
  everyone who waits for a child waits for the same one and the service has no
  other (`OneStop`), and what each status says of the child (`StatusTrue`): on
  means that the current child lives, though the URL may be one an earlier child,
  which has exited, said late.

**`ChatTurnsProofs`**, one invariant (`ChatInv`) for all three

* `StopsOwnTurnAlways`: `Spec => []StopsOwnTurn`: so does every `turn.started` on its
  way and the answer to `startTurn` (`OwnInv`).
* `FlagsHaveCauseAlways`: `Spec => []FlagsHaveCause`, by `FlagsInv`: once a
  `startTurn` was answered, the turn or the news of its end is the cause.
* `StopMatchesAlways`: `Spec => []StopMatches`. The property speaks of a moment
  when nothing is on its way; `NewsInv` says at every other moment what is on its
  way instead: the end of a turn is the last news of its thread (`EndsLast`), a
  start is announced for the turn that runs unless its end is coming too
  (`NewsOf`), nothing happens in a thread from Submit until codex starts
  (`Silent`), and an answer that is late concerns a turn that runs or whose end
  is still coming (`SendInv`, `StopsInv`). Turns from before the page was loaded
  are never news to it; a send that was given up and a turn of another tab are
  covered by the same invariant, since what the stream tells of them is the truth
  whether or not an answer comes.

**`PromptComposerProofs`**

* `PostRunsOnce` and `ResolvedWasExecuted`: `Spec => []MutationRunsOnce`,
  `[]ResolvedMeansExecuted` for `ApiClient`: a POST has one attempt, not yet made,
  on its way or used up (`MutationInv`), and an answer that could resolve a call
  comes from a handler that ran (`ResolvedInv`).
* `DraftsSentOnce`: `ComposerSpec => [](SentOnce /\ MutationRunsOnce)`, by `FreshInv`:
  except while a POST is awaited, what the composer shows is in no POST, and
  what a POST carries is in no other.

**`MessagePaneProofs`**, one invariant for the history of a thread (`HistoryInv`), one
for the rows on top of it (`RowsInv`) and one for code fences (`CodeInv`)

* `EachShownOnce`: `Spec => []ShownOnce`. Pages of history and the live list
  carry different ids for one message, so comparing ids is not enough by itself.
  `ListInv` says why the two never meet: a live message, and one that a delta on
  its way will add, is none of those that older pages still have to bring
  (`Ahead`), and an answer in the list is found under its id. The one way to lose
  it, by its second half, is a first page that begins behind such a delta. For
  this a page must be what it was asked for (`PageInv`: it ends at its cursor,
  which lies before the last stored message), and codex stores and speaks of a
  turn only once it began (`TurnInv`). All three hold whatever crosses, fails or
  is interrupted.
* `NoGapInList` and `TextIsComplete`: `Spec => []NoGap`, `[]TextComplete`, both by
  `ShownInv`, which is stronger than the two: unless one of the events that set
  `crossed` came, the list is exactly what codex stores after the cursor, then
  the question that was sent or the answer that comes (`Newest`: an answer of
  which no delta has come is not shown yet), and each has its whole text, except
  that the current answer lacks as many chunks as there are deltas in the stream.
  A turn that is interrupted, or that fails before its first word, is no
  exception. The hard step is an older page (`MoreFits`): that it fits means
  either it ends where the list begins or the list begins with it, and only in
  the second case does the merge drop anything, namely all that it repeats.
* `RowsAnchored`: `ListSpec => Anchored`, an action property. `BatchInv` says what the
  dispatches since the last commit have made of the list: tails leave what
  was shown where it is, older pages move it by what they add.
* `OneJobAtATime`: `CodeSpec => []OneJobPerCode`. By itself it is not inductive: that
  no second job starts follows from `JobInv`, by which a running job is in flight
  and what is in flight is not cached.
* `QuietIsHighlighted`: `CodeSpec => []QuietShowsCode`. It speaks of a quiet moment;
  `FenceInv` says at every other moment what a fence without its highlighting
  waits for: its task in the queue, or a job in flight. It needs `requested` to
  be true of every mounted fence with a code (cleanup before effect), and that
  what is under way for a fence that was never outrun is for the code it has,
  but for jobs that were rejected and will show nothing.

Every safety, action and refinement property that a passing run checks has a
theorem.

Only model-checked:

* Liveness (`EverythingEnds`, `CatchesUp`, `RequestsEnd`, `ThinkingEnds`, `SubmitEnds`,
  `QueueDrains`, `PageSettles`): fairness and ENABLED are
  outside the prover's fragment.
* That the bound on all events together is kept (`Total` in `UiEventStream`, a
  recursive function): its value for every argument would need induction; no
  theorem depends on it.


## 5. Not modelled

* The text of messages, formatting, layout, previews of images, model selection,
  workspaces and what localStorage keeps, the log: state of one page without
  another actor, or no state at all.
* Who may manage the tunnel, cookies, hashes: pure functions of a request.
* Fastify waiting for open event streams on shutdown, which is Fastify's.
* `turn/steer`, which the page does not use (it is sent with `turnId` where the
  document asks for `expectedTurnId`).
* Where the user has scrolled to, and following the end of the list: the
  geometry of the virtual list is not in `src/`.
* nginx, Docker, Next.js, Shiki, ngrok and codex themselves.


## 6. Plan

Built so far, in this order: processes and calls, approvals, event stream,
tunnel, router, turns, history, the page's API client, code blocks and settings;
then the compositions and what the parts promise: the desk and the banner, the
router with a page's views, the history with its list, the API client with its
composer, the settings with the external-address cache, the gate of the tunnel.

Proved so far, in this order: the manager and the handshake, the router, the
calls and their refinement, views, tunnel, banner, composer, approvals and their
refinement, the event stream and its refinement, turns, code fences, the
history of a thread, the rows of its list, the gate of the tunnel.

Left to prove: the composition of `ApprovalBanner` with `Approvals`. By
`KeepsTheDesk` the service does what the desk may do, so the theorems of the
banner should hold of the service itself; no module states the two side by side.

Where the model may grow: `ChatTurns` over the stream of `UiEventStream`, with gaps,
so that reconnects and missing events meet the flags of the page.
