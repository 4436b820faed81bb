---------------------------- MODULE CodexProcess ----------------------------
(***************************************************************************)
(* The process manager of the BFF: the class CodexProcessManager, which     *)
(* owns the `codex app-server` child process and the pipe to its stdin.     *)
(*                                                                         *)
(* Every incarnation of the child has a number: the n-th spawn is child n,  *)
(* and 0 stands for `undefined`.  The module has no next-state relation of  *)
(* its own; JsonRpcClient and Approvals are built from its steps.           *)
(***************************************************************************)
EXTENDS Naturals, Sequences

CONSTANT NoMessage      \* what an idle start timer holds

VARIABLES
  child,      \* this.child: the incarnation messages are written to, or 0
  starting,   \* this.starting: the incarnation whose start() it is, or 0
  alive,      \* the incarnations whose "exit" event has not been handled
  wire,       \* wire[c]: everything written to the stdin of incarnation c
  held        \* held[c]: the message whose sendMessage spawned c and waits
              \* for the 100 ms of start(), or NoMessage

procVars == <<child, starting, alive, wire, held>>

ProcInit ==
  /\ child = 0
  /\ starting = 0
  /\ alive = {}
  /\ wire = <<>>
  /\ held = <<>>

Children == DOMAIN wire

(* sendMessage with a child at hand: ensureStarted returns at once and the  *)
(* line is written in the same turn of the event loop.                      *)
WriteNow(m) ==
  /\ child # 0
  /\ wire' = [wire EXCEPT ![child] = Append(@, m)]
  /\ UNCHANGED <<child, starting, alive, held>>

(* sendMessage without one: start() spawns, and the sender sleeps with it.  *)
(* The test of this.starting in between never helps: start() assigns child  *)
(* before its first await (invariant OneProcess of JsonRpcClient).          *)
SpawnFor(m) ==
  /\ child = 0
  /\ child' = Len(wire) + 1
  /\ starting' = Len(wire) + 1
  /\ alive' = alive \cup {Len(wire) + 1}
  /\ wire' = Append(wire, <<>>)
  /\ held' = Append(held, m)

SendMessage(m) == WriteNow(m) \/ SpawnFor(m)

(* The 100 ms of start() are over: the sender goes on to                    *)
(* `this.child?.stdin.write`, on whatever child is current by then.  Timers *)
(* of one duration fire in the order they were set.                         *)
StartElapsed(c) ==
  /\ held[c] # NoMessage
  /\ \A d \in 1..(c - 1) : held[d] = NoMessage
  /\ held' = [held EXCEPT ![c] = NoMessage]
  /\ wire' = IF child = 0 THEN wire
             ELSE [wire EXCEPT ![child] = Append(@, held[c])]
  /\ UNCHANGED <<child, starting, alive>>

(* A mutant: the handler forgets this.starting.                             *)
ExitKeepsStarting(c) ==
  /\ c \in alive
  /\ alive' = alive \ {c}
  /\ child' = 0
  /\ UNCHANGED <<starting, wire, held>>

(* The "exit" handler start() installed for c, whichever child is current.  *)
ProcExit(c) ==
  /\ c \in alive
  /\ alive' = alive \ {c}
  /\ child' = 0
  /\ starting' = 0
  /\ UNCHANGED <<wire, held>>

(* stop() up to the await of the exit of the child it signals.              *)
ProcStop ==
  /\ child' = 0
  /\ starting' = 0
  /\ UNCHANGED <<alive, wire, held>>
=============================================================================
