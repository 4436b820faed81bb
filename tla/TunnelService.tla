--------------------------- MODULE TunnelService ----------------------------
(***************************************************************************)
(* TunnelService: the admin's ON and OFF, the ngrok child they start and    *)
(* stop, and the sessions of the login page in front of the tunnel.         *)
(*                                                                         *)
(* enable and disable are async: they share every field of the service, and *)
(* each await lets the other requests and the events of the children in.    *)
(* Every enable request brings a password of its own, so a password is      *)
(* named by its request.  lastError and the captured output are text for    *)
(* the settings page and are left out.                                      *)
(***************************************************************************)
EXTENDS Naturals, FiniteSets

CONSTANTS
  Enables,      \* the enable requests
  Disables,     \* the disable requests
  None,         \* no password
  MaxParallel   \* bound: requests handled at a time

ASSUME TunnelAssumption ==
  /\ Enables \cap Disables = {}
  /\ None \notin Enables
  /\ MaxParallel \in Nat

VARIABLES
  status,        \* this.status
  publicUrl,     \* the child whose URL this.publicUrl is, or 0
  passwordHash,  \* the password this.passwordHash is of, or None
  sessions,      \* the passwords the sessions were opened with
  process,       \* this.process: the number of a child, or 0
  shuttingDownProcess,
  pc,            \* where each request is
  victim,        \* the child its stopTunnelProcess waits for
  spawned,       \* children spawned so far
  alive,         \* those whose "exit" event has not come
  signalled,     \* those that were sent SIGTERM
  crossed        \* history: a start was made while a stop was waiting, or a
                 \* stop gave up on its child

gateVars == <<status, publicUrl, passwordHash, sessions>>
childVars == <<spawned, alive, signalled>>
vars == <<gateVars, process, shuttingDownProcess, pc, victim, childVars, crossed>>

Requests == Enables \cup Disables

Init ==
  /\ status = "off"
  /\ publicUrl = 0
  /\ passwordHash = None
  /\ sessions = {}
  /\ process = 0
  /\ shuttingDownProcess = FALSE
  /\ pc = [o \in Requests |-> "idle"]
  /\ victim = [o \in Requests |-> 0]
  /\ spawned = 0
  /\ alive = {}
  /\ signalled = {}
  /\ crossed = FALSE

Active == {o \in Requests : pc[o] \in {"polling", "stopping"}}

Stopping == \E o \in Requests : pc[o] = "stopping"

Admit(o) == pc[o] = "idle" /\ Cardinality(Active) < MaxParallel

-----------------------------------------------------------------------------
(* enable(password)                                                         *)

(* Mutants, here and below: altered forms of the definition that follows,   *)
(* each of which breaks a property (README, "Mutants").                     *)
MayStartAgain == status # "starting"

(* enable gets as far as a start.                                           *)
MayStart == status \in {"off", "error"}

(* Already on, or a configuration without a token: an answer at once.       *)
EnableReturns(o) ==
  /\ Admit(o)
  /\ status # "starting"
  /\ pc' = [pc EXCEPT ![o] = "done"]
  /\ UNCHANGED <<gateVars, process, shuttingDownProcess, victim, childVars, crossed>>

(* Somebody else's start is under way: wait for its outcome.                *)
EnableJoins(o) ==
  /\ Admit(o)
  /\ status = "starting"
  /\ pc' = [pc EXCEPT ![o] = "polling"]
  /\ UNCHANGED <<gateVars, process, shuttingDownProcess, victim, childVars, crossed>>

(* From "off" or "error": new password, no sessions, and a child.           *)
EnableStarts(o) ==
  /\ Admit(o)
  /\ MayStart
  /\ passwordHash' = o
  /\ sessions' = {}
  /\ publicUrl' = 0
  /\ status' = "starting"
  /\ spawned' = spawned + 1
  /\ alive' = alive \cup {spawned + 1}
  /\ process' = spawned + 1
  /\ pc' = [pc EXCEPT ![o] = "polling"]
  /\ crossed' = (crossed \/ Stopping)
  /\ UNCHANGED <<shuttingDownProcess, victim, signalled>>

(* The same when spawn fails: the "error" event follows before anything     *)
(* else and undoes it.                                                      *)
EnableSpawnFails(o) ==
  /\ Admit(o)
  /\ MayStart
  /\ passwordHash' = None
  /\ sessions' = {}
  /\ publicUrl' = 0
  /\ status' = "error"
  /\ process' = 0
  /\ pc' = [pc EXCEPT ![o] = "polling"]
  /\ UNCHANGED <<shuttingDownProcess, victim, childVars, crossed>>

PasswordSetLate(o) ==
  /\ pc[o] = "polling"
  /\ status # "starting"
  /\ passwordHash' = o
  /\ pc' = [pc EXCEPT ![o] = "done"]
  /\ UNCHANGED <<status, publicUrl, sessions, process, shuttingDownProcess, victim,
                 childVars, crossed>>

ErrorNotNoticed(o) ==
  /\ pc[o] = "polling"
  /\ status = "on"
  /\ pc' = [pc EXCEPT ![o] = "done"]
  /\ UNCHANGED <<gateVars, process, shuttingDownProcess, victim, childVars, crossed>>

(* waitForStartWindow wakes up and finds the start over.                    *)
StartSettled(o) ==
  /\ pc[o] = "polling"
  /\ status # "starting"
  /\ pc' = [pc EXCEPT ![o] = "done"]
  /\ UNCHANGED <<gateVars, process, shuttingDownProcess, victim, childVars, crossed>>

(* stopTunnelProcess up to its await.                                       *)
SignalProcess(o) ==
  /\ process # 0
  /\ shuttingDownProcess' = TRUE
  /\ signalled' = signalled \cup {process}
  /\ victim' = [victim EXCEPT ![o] = process]
  /\ pc' = [pc EXCEPT ![o] = "stopping"]
  /\ UNCHANGED <<process, spawned, alive, crossed>>

(* waitForStartWindow runs out of time.                                     *)
StartTimesOut(o) ==
  /\ pc[o] = "polling"
  /\ status = "starting"
  /\ status' = "error"
  /\ \/ /\ SignalProcess(o)
        /\ UNCHANGED <<publicUrl, passwordHash, sessions>>
     \/ /\ process = 0
        /\ publicUrl' = 0
        /\ passwordHash' = None
        /\ sessions' = {}
        /\ pc' = [pc EXCEPT ![o] = "done"]
        /\ UNCHANGED <<process, shuttingDownProcess, victim, childVars, crossed>>

(* disable(): at once when there is no child to stop.                       *)
Disable(o) ==
  /\ Admit(o)
  /\ \/ /\ SignalProcess(o)
        /\ UNCHANGED gateVars
     \/ /\ process = 0
        /\ status' = "off"
        /\ publicUrl' = 0
        /\ passwordHash' = None
        /\ sessions' = {}
        /\ pc' = [pc EXCEPT ![o] = "done"]
        /\ UNCHANGED <<process, shuttingDownProcess, victim, childVars, crossed>>

StopKeepsPassword(who, st) ==
  /\ process' = 0
  /\ shuttingDownProcess' = FALSE
  /\ publicUrl' = 0
  /\ status' = IF who \cap Disables # {} THEN "off" ELSE st
  /\ pc' = [o \in Requests |-> IF o \in who THEN "done" ELSE pc[o]]
  /\ UNCHANGED <<passwordHash, sessions, victim>>

(* stopTunnelProcess returns to the requests in who: its finally clause,    *)
(* then the rest of enable's timeout or of disable, on whatever there is    *)
(* by now; st is the status before.                                         *)
FinishStop(who, st) ==
  /\ process' = 0
  /\ shuttingDownProcess' = FALSE
  /\ passwordHash' = None
  /\ sessions' = {}
  /\ publicUrl' = 0
  /\ status' = IF who \cap Disables # {} THEN "off" ELSE st
  /\ pc' = [o \in Requests |-> IF o \in who THEN "done" ELSE pc[o]]
  /\ UNCHANGED victim

(* SIGKILL after 2 s, and 100 ms later no "exit" event yet: give up.        *)
StopGivesUp(o) ==
  /\ pc[o] = "stopping"
  /\ victim[o] \in alive
  /\ FinishStop({o}, status)
  /\ crossed' = TRUE
  /\ UNCHANGED childVars

-----------------------------------------------------------------------------
(* The child                                                                *)

(* The exit handler of startTunnelProcess, whichever child it belongs to.   *)
(* st is the status it leaves; the caller says who waited for this exit.    *)
ExitStatus ==
  IF shuttingDownProcess \/ status \notin {"starting", "on"} THEN status
  ELSE IF status = "starting" THEN "error" ELSE "off"

Waiters(n) == {o \in Requests : pc[o] = "stopping" /\ victim[o] = n}

ProcessExits(n) ==
  /\ n \in alive
  /\ alive' = alive \ {n}
  /\ UNCHANGED <<spawned, signalled, crossed>>
  /\ \/ /\ Waiters(n) # {}
        /\ FinishStop(Waiters(n), ExitStatus)
     \/ /\ Waiters(n) = {}
        /\ process' = 0
        /\ status' = ExitStatus
        /\ IF ExitStatus # status
           THEN publicUrl' = 0 /\ passwordHash' = None /\ sessions' = {}
           ELSE UNCHANGED <<publicUrl, passwordHash, sessions>>
        /\ UNCHANGED <<shuttingDownProcess, pc, victim>>

(* tryCapturePublicUrl: a child has printed its URL.  Its output may come   *)
(* late, when it has exited: the listeners stay, and look at status alone.  *)
UrlPrinted(n) ==
  /\ status = "starting"
  /\ status' = "on"
  /\ publicUrl' = n
  /\ UNCHANGED <<passwordHash, sessions, process, shuttingDownProcess, pc, victim,
                 childVars, crossed>>

-----------------------------------------------------------------------------
(* The login page; its delay comes before everything it reads.              *)

LoginUnchecked(password) ==
  /\ status = "on"
  /\ sessions' = sessions \cup {password}
  /\ UNCHANGED <<status, publicUrl, passwordHash, process, shuttingDownProcess, pc, victim,
                 childVars, crossed>>

Login(password) ==
  /\ status = "on"
  /\ passwordHash = password
  /\ sessions' = sessions \cup {password}
  /\ UNCHANGED <<status, publicUrl, passwordHash, process, shuttingDownProcess, pc, victim,
                 childVars, crossed>>

Logout(password) ==
  /\ password \in sessions
  /\ sessions' = sessions \ {password}
  /\ UNCHANGED <<status, publicUrl, passwordHash, process, shuttingDownProcess, pc, victim,
                 childVars, crossed>>

(* isSessionValid, for a session opened with this password.                 *)
IsSessionValid(password) ==
  status = "on" /\ passwordHash # None /\ password \in sessions

Next ==
  \/ \E o \in Enables :
       \/ EnableReturns(o) \/ EnableJoins(o) \/ EnableStarts(o) \/ EnableSpawnFails(o)
       \/ StartSettled(o) \/ StartTimesOut(o)
       \/ Login(o) \/ Logout(o)
  \/ \E o \in Disables : Disable(o)
  \/ \E o \in Requests : StopGivesUp(o)
  \/ \E n \in alive : ProcessExits(n)
  \/ \E n \in 1..spawned : UrlPrinted(n)

Spec == Init /\ [][Next]_vars

(* Timers fire; a child that was killed exits.                              *)
Fairness ==
  /\ \A o \in Enables : WF_vars(StartSettled(o)) /\ WF_vars(StartTimesOut(o))
  /\ WF_vars(\E n \in alive \cap signalled : ProcessExits(n))

FairSpec == Spec /\ Fairness

-----------------------------------------------------------------------------
(* Properties                                                               *)

(* No session outlives its password: whatever requests overlap, a session   *)
(* lets through only while the password it was opened with is the current   *)
(* one.                                                                     *)
SessionsOfPassword == \A o \in Enables : IsSessionValid(o) => passwordHash = o

(* README.md: "Turning Tunnel OFF stops ngrok and immediately invalidates   *)
(* the tunnel password/sessions".  With the status off and every request    *)
(* answered, no ngrok runs that was not told to stop, and no password is    *)
(* left.                                                                    *)
OffStopsTunnel ==
  status = "off" /\ Active = {} =>
    alive \subseteq signalled /\ passwordHash = None /\ sessions = {}

(* However requests overlap, this only fails after an enable that started a *)
(* child inside the wait of a stop, or after a stop that gave up.           *)
OffStopsUncrossed == ~crossed => OffStopsTunnel

(* With the same exception the service has every ngrok at hand: what was    *)
(* not told to stop is its process, and a tunnel reported "on" is that      *)
(* process, running and guarded by a password.  The URL it is reported with *)
(* is its own, or what an earlier child, which has exited, said late.       *)
TunnelAtHand ==
  ~crossed =>
    /\ alive \ signalled \subseteq {process}
    /\ status = "on" =>
         /\ process \in alive /\ passwordHash # None
         /\ publicUrl = process \/ publicUrl \in 1..(process - 1) \ alive

Gate == INSTANCE TunnelGate WITH
  Passwords <- Enables,
  password <- passwordHash,
  open <- status = "on" /\ passwordHash # None,
  brought <- {o \in Enables : pc[o] # "idle"}

(* The service implements TunnelGate, however ON, OFF, timeouts and exits   *)
(* of old children overlap: nothing but the end of its password closes an   *)
(* open gate, and a password that was in force and is no longer never is    *)
(* again.                                                                   *)
KeepsTheGate == Gate!Spec

(* Every ON and OFF is answered.                                            *)
RequestsEnd == \A o \in Requests : o \in Active ~> pc[o] = "done"
=============================================================================
