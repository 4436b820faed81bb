---------------------------- MODULE UiEventFeed -----------------------------
(***************************************************************************)
(* What the event stream promises to the UI, with no connection in it: the  *)
(* UI handles the events of a run of the server in the order they were      *)
(* published, none of them twice, and leaves none out unless it fell more   *)
(* than Window events behind.                                               *)
(***************************************************************************)
EXTENDS Naturals, Sequences

CONSTANT Window

VARIABLES
  published,  \* published[r]: the number of events of run r of the server
  got         \* the events the UI has handled: records of run and id

Init ==
  /\ published = <<0>>
  /\ got = <<>>

Publish ==
  /\ published' = [published EXCEPT ![Len(published)] = @ + 1]
  /\ UNCHANGED got

(* The server restarts and numbers its events from 1 again.                 *)
Restart ==
  /\ published' = Append(published, 0)
  /\ UNCHANGED got

(* The first event of a run may be any; after it they come one by one,      *)
(* except that a full window of events may push out the older ones.         *)
Follows(e) ==
  got # <<>> =>
    LET last == got[Len(got)] IN
    \/ last.run < e.run
    \/ last.run = e.run /\ e.id = last.id + 1
    \/ last.run = e.run /\ e.id > last.id + 1 /\ published[e.run] >= last.id + 1 + Window

Handle ==
  /\ \E r \in DOMAIN published : \E i \in 1..published[r] :
       /\ Follows([run |-> r, id |-> i])
       /\ got' = Append(got, [run |-> r, id |-> i])
  /\ UNCHANGED published

Next == Publish \/ Restart \/ Handle

Spec == Init /\ [][Next]_<<published, got>>
=============================================================================
