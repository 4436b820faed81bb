---------------------------- MODULE CallService -----------------------------
(***************************************************************************)
(* What JsonRpcClient.request promises to the services that call it, with   *)
(* no process, no handshake and no message ids: a call is executed by codex *)
(* at most once however often the process is restarted and the request is   *)
(* repeated, and it only reports success for its own execution.             *)
(***************************************************************************)
EXTENDS Naturals

CONSTANT Calls

VARIABLES
  stage,      \* stage[k]: "idle", "waiting", "ok" or "failed"
  executed    \* executed[k]: how often codex has carried call k out

Init ==
  /\ stage = [k \in Calls |-> "idle"]
  /\ executed = [k \in Calls |-> 0]

Submit(k) ==
  /\ stage[k] = "idle"
  /\ stage' = [stage EXCEPT ![k] = "waiting"]
  /\ UNCHANGED executed

(* codex carries the call out: the caller hears of it, or gave up before.   *)
Execute(k) ==
  /\ stage[k] # "idle"
  /\ executed[k] = 0
  /\ executed' = [executed EXCEPT ![k] = 1]
  /\ \/ /\ stage[k] = "waiting"
        /\ \E outcome \in {"ok", "failed"} : stage' = [stage EXCEPT ![k] = outcome]
     \/ /\ stage[k] = "failed"
        /\ UNCHANGED stage

(* Failures: an exit, a timeout, a handshake that failed, too much overload.*)
(* One event may fail any number of calls.                                  *)
Fail ==
  /\ \E lost \in SUBSET {k \in Calls : stage[k] = "waiting"} :
       stage' = [k \in Calls |-> IF k \in lost THEN "failed" ELSE stage[k]]
  /\ UNCHANGED executed

Next == Fail \/ \E k \in Calls : Submit(k) \/ Execute(k)

Spec == Init /\ [][Next]_<<stage, executed>>
=============================================================================
