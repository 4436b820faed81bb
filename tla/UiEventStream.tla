--------------------------- MODULE UiEventStream ----------------------------
(***************************************************************************)
(* The path of a UI event: UiEventBus and the /v1/events route in the BFF,  *)
(* a connection, and connectUiEventStream in the browser, with restarts of  *)
(* the BFF, connections that break or stall, and the replay after a         *)
(* reconnect.                                                               *)
(*                                                                         *)
(* One browser tab.  The bus writes to its clients independently of one     *)
(* another, so other tabs change nothing for this one.  The EventSource of  *)
(* the browser is external: it reconnects by itself after a network error   *)
(* (Last-Event-ID header, same URL) and gives up on a refusal.              *)
(***************************************************************************)
EXTENDS Naturals, Sequences, FiniteSets

CONSTANTS
  MaxBufferSize,  \* MAX_BUFFER_SIZE
  MaxEvents,      \* bound: events published over all runs of the server
  MaxRestarts,    \* bound: restarts of the server
  MaxFaults       \* bound: breaks, stalls and refusals

ASSUME StreamAssumption ==
  /\ MaxBufferSize \in Nat \ {0}
  /\ MaxEvents \in Nat /\ MaxRestarts \in Nat /\ MaxFaults \in Nat

VARIABLES
  published,    \* published[r]: this.sequence of run r of the server
  buffer,       \* this.buffer of the current run: ids, oldest first
  clients,      \* this.clients of the current run: connection numbers
  conn,         \* the number of the latest connection of the tab
  link,         \* its state: "none", "up", "broken" or "stalled"
  pipe,         \* what it still carries to the tab: "open" and events
  stream,       \* readyState of the EventSource
  url,          \* the lastEventId in its URL, 0 for none
  header,       \* its own Last-Event-ID, 0 for none
  lastEventId,  \* lastEventId of the closure, 0 for null
  heartbeat,    \* heartbeatTimer is set
  reconnect,    \* reconnectTimer is set
  closed,       \* the tab has disconnected for good
  got,          \* the events handed to onEvent so far
  faults        \* faults so far

serverVars == <<published, buffer, clients>>
linkVars == <<conn, link, pipe>>
sourceVars == <<stream, url, header>>
closureVars == <<lastEventId, heartbeat, reconnect, closed, got>>
vars == <<serverVars, linkVars, sourceVars, closureVars, faults>>

Run == Len(published)

Event(i) == [run |-> Run, id |-> i]

Open == [run |-> 0, id |-> 0]     \* the response headers and ": connected"

Init ==
  /\ published = <<0>>
  /\ buffer = <<>>
  /\ clients = {}
  /\ conn = 0
  /\ link = "none"
  /\ pipe = <<>>
  /\ stream = "connecting"
  /\ url = 0
  /\ header = 0
  /\ lastEventId = 0
  /\ heartbeat = FALSE
  /\ reconnect = FALSE
  /\ closed = FALSE
  /\ got = <<>>
  /\ faults = 0

Total[r \in 0..(MaxRestarts + 1)] == IF r = 0 THEN 0 ELSE Total[r - 1] + published[r]

-----------------------------------------------------------------------------
(* The server                                                               *)

(* The ring buffer after one more event.                                    *)
Buffered(id) ==
  IF Len(buffer) = MaxBufferSize THEN Append(Tail(buffer), id) ELSE Append(buffer, id)

(* publish: number the event, buffer it, write it to every client.          *)
Publish ==
  LET id == published[Run] + 1 IN
  /\ Total[Run] < MaxEvents
  /\ published' = [published EXCEPT ![Run] = id]
  /\ buffer' = Buffered(id)
  /\ pipe' = IF link = "up" /\ conn \in clients THEN Append(pipe, Event(id)) ELSE pipe
  /\ UNCHANGED <<clients, conn, link, sourceVars, closureVars, faults>>

(* Mutants, here and below: altered forms of the definition that follows,   *)
(* each of which breaks a property (README, "Mutants").                     *)
MarkerOfQuery == IF url # 0 THEN url ELSE header

(* The route: the header wins over the query.                               *)
Marker == IF header # 0 THEN header ELSE url

(* The buffered events after a marker: their ids ascend, so it is the end   *)
(* of the buffer.                                                           *)
NewerThan(marker) ==
  LET first == CHOOSE n \in 1..(Len(buffer) + 1) :
                 \A i \in DOMAIN buffer : buffer[i] > marker <=> n <= i
  IN  SubSeq(buffer, first, Len(buffer))

ReplayOneTwice == IF Marker = 0 THEN <<>> ELSE NewerThan(Marker - 1)

ReplaySkipsOne == IF Marker = 0 THEN <<>> ELSE NewerThan(Marker + 1)

(* attach: the buffered events after the marker, when there is one, and     *)
(* from then on whatever is published.                                      *)
Replay == IF Marker = 0 THEN <<>> ELSE NewerThan(Marker)

Attach ==
  /\ stream = "connecting" /\ link = "none"
  /\ conn' = conn + 1
  /\ clients' = clients \cup {conn + 1}
  /\ link' = "up"
  /\ pipe' = <<Open>> \o [n \in DOMAIN Replay |-> Event(Replay[n])]
  /\ UNCHANGED <<published, buffer, sourceVars, closureVars, faults>>

(* The "close" event of a request whose connection is gone.                 *)
Detach(c) ==
  /\ c \in clients
  /\ c = conn => link \in {"none", "broken"}
  /\ clients' = clients \ {c}
  /\ UNCHANGED <<published, buffer, linkVars, sourceVars, closureVars, faults>>

(* The BFF shuts down (close() of the bus ends every response) or dies, and *)
(* a new one starts with an empty buffer.  What was written is still read.  *)
Restart ==
  /\ Run <= MaxRestarts
  /\ published' = Append(published, 0)
  /\ buffer' = <<>>
  /\ clients' = {}
  /\ link' = IF link = "up" THEN "broken" ELSE link
  /\ UNCHANGED <<conn, pipe, sourceVars, closureVars, faults>>

-----------------------------------------------------------------------------
(* The network                                                              *)

(* The connection fails and what is on its way is lost, noticed ("broken")  *)
(* or not ("stalled"); a stall before the response is a break to a browser. *)
Fault(kind) ==
  /\ faults < MaxFaults
  /\ link = "up"
  /\ kind = "stalled" => stream = "open"
  /\ \E n \in 0..Len(pipe) : pipe' = SubSeq(pipe, 1, n)
  /\ link' = kind
  /\ faults' = faults + 1
  /\ UNCHANGED <<serverVars, conn, sourceVars, closureVars>>

(* A proxy without its upstream, or an expired session: not a 200.          *)
Refuse ==
  /\ faults < MaxFaults
  /\ stream = "connecting" /\ link = "none"
  /\ stream' = "closed"
  /\ reconnect' = TRUE
  /\ faults' = faults + 1
  /\ UNCHANGED <<serverVars, linkVars, url, header, lastEventId, heartbeat, closed, got>>

-----------------------------------------------------------------------------
(* The browser                                                              *)

OnOpen ==
  /\ stream = "connecting" /\ pipe # <<>>
  /\ stream' = "open"
  /\ pipe' = Tail(pipe)
  /\ heartbeat' = TRUE
  /\ UNCHANGED <<serverVars, conn, link, url, header, lastEventId, reconnect, closed, got, faults>>

OnUi ==
  /\ stream = "open" /\ pipe # <<>>
  /\ pipe' = Tail(pipe)
  /\ header' = Head(pipe).id
  /\ lastEventId' = Head(pipe).id
  /\ heartbeat' = TRUE
  /\ got' = Append(got, Head(pipe))
  /\ UNCHANGED <<serverVars, conn, link, stream, url, reconnect, closed, faults>>

ErrorAlwaysReconnects ==
  /\ link = "broken" /\ pipe = <<>>
  /\ link' = "none"
  /\ stream' = "connecting"
  /\ reconnect' = TRUE
  /\ UNCHANGED <<serverVars, conn, pipe, url, header, lastEventId, heartbeat, closed, got, faults>>

(* The end of a broken connection: the EventSource reconnects by itself;    *)
(* onerror sees CONNECTING and leaves it to that.                           *)
OnNetworkError ==
  /\ link = "broken" /\ pipe = <<>>
  /\ link' = "none"
  /\ stream' = "connecting"
  /\ UNCHANGED <<serverVars, conn, pipe, url, header, closureVars, faults>>

(* 25 s without an event on a stream that is not simply idle: the server    *)
(* sends a heartbeat every 15 s, so the connection stalled, or the timer is *)
(* left over from an earlier one.                                           *)
HeartbeatTimeout ==
  /\ heartbeat
  /\ ~(stream = "open" /\ link = "up")
  /\ heartbeat' = FALSE
  /\ stream' = "closed"
  /\ link' = "none"
  /\ pipe' = <<>>
  /\ reconnect' = TRUE
  /\ UNCHANGED <<serverVars, conn, url, header, lastEventId, closed, got, faults>>

(* The reconnect timer: openStream.                                         *)
Reconnect ==
  /\ reconnect
  /\ reconnect' = FALSE
  /\ stream' = "connecting"
  /\ url' = lastEventId
  /\ header' = 0
  /\ UNCHANGED <<serverVars, linkVars, lastEventId, heartbeat, closed, got, faults>>

(* The disconnect function, when the page is left.                          *)
Disconnect ==
  /\ ~closed
  /\ closed' = TRUE
  /\ heartbeat' = FALSE
  /\ reconnect' = FALSE
  /\ stream' = "closed"
  /\ link' = "none"
  /\ pipe' = <<>>
  /\ UNCHANGED <<serverVars, conn, url, header, lastEventId, got, faults>>

Next ==
  \/ Publish \/ Attach \/ Restart
  \/ \E c \in clients : Detach(c)
  \/ \E kind \in {"broken", "stalled"} : Fault(kind)
  \/ Refuse \/ OnOpen \/ OnUi \/ OnNetworkError
  \/ HeartbeatTimeout \/ Reconnect \/ Disconnect

Spec == Init /\ [][Next]_vars

(* The server accepts, timers fire, and what arrives is handled.            *)
Fairness ==
  /\ WF_vars(Attach) /\ WF_vars(OnOpen) /\ WF_vars(OnUi) /\ WF_vars(OnNetworkError)
  /\ WF_vars(HeartbeatTimeout) /\ WF_vars(Reconnect)

FairSpec == Spec /\ Fairness

-----------------------------------------------------------------------------
(* Properties                                                               *)

Feed == INSTANCE UiEventFeed WITH Window <- MaxBufferSize

(* The stream implements UiEventFeed: in one run of the server the UI gets  *)
(* the events in order, once, and without a gap that the buffer could fill. *)
FeedInOrder == Feed!Spec

(* Whatever errors and timers meet, the tab has exactly one way back: an    *)
(* EventSource that is not closed, or a reconnect timer, never both.        *)
OneWayBack == ~closed => (reconnect <=> stream = "closed")

(* The route is told the last event the UI handled, whether the browser or  *)
(* openStream made the connection.                                          *)
MarkerIsLast ==
  stream = "connecting" => Marker = (IF got = <<>> THEN 0 ELSE got[Len(got)].id)

LastHandled == IF got = <<>> THEN Open ELSE got[Len(got)]

(* Once the UI has handled an event of a run of the server it catches up    *)
(* with everything that run publishes, however the connection fares, unless *)
(* the page is left or the server restarts.                                 *)
CatchesUp ==
  \A r \in 1..(MaxRestarts + 1) :
    Run = r /\ LastHandled.run = r
      ~> closed \/ Run # r \/ LastHandled = Event(published[r])
=============================================================================
