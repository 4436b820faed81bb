------------------------ MODULE TunnelServiceProofs -------------------------
(***************************************************************************)
(* Proofs about TunnelService: whatever ON and OFF requests overlap, a      *)
(* session only lets through under its own password, the service keeps the  *)
(* gate that TunnelGate describes, and, until an enable starts a child      *)
(* inside the wait of a stop or a stop gives up, it has its ngrok at hand.  *)
(***************************************************************************)
EXTENDS TunnelService, TLAPS

(* The types of the service's fields; every child is one that was spawned.  *)
TypeOK ==
  /\ status \in {"off", "starting", "on", "error"}
  /\ publicUrl \in 0..spawned
  /\ passwordHash \in Enables \cup {None}
  /\ sessions \subseteq Enables
  /\ process \in 0..spawned
  /\ shuttingDownProcess \in BOOLEAN
  /\ pc \in [Requests -> {"idle", "polling", "stopping", "done"}]
  /\ victim \in [Requests -> 0..spawned]
  /\ spawned \in Nat
  /\ alive \subseteq 1..spawned
  /\ signalled \subseteq 1..spawned

(* The strengthening of SessionsOfPassword: a new password, and no password,*)
(* come with an empty session map.                                          *)
GateInv == sessions \subseteq {passwordHash}

(* One stop: whoever waits for a child waits for the same one, which was    *)
(* told to stop and runs, and the service has no other.                     *)
OneStop ==
  /\ shuttingDownProcess <=> Stopping
  /\ \A o \in Requests : pc[o] = "stopping" =>
       /\ victim[o] \in alive \cap signalled
       /\ alive = {victim[o]}
       /\ process \in {0, victim[o]}
       /\ o \in Enables => status \in {"off", "error"}

(* What the status says of the child.                                       *)
StatusTrue ==
  /\ process # 0 => process \in alive
  /\ ~Stopping => alive \subseteq {process}
  /\ status = "off" => process = 0 /\ passwordHash = None
  /\ status = "error" => process = 0 \/ Stopping
  /\ status \in {"starting", "on"} => process # 0 /\ passwordHash # None
  /\ status = "on" => publicUrl \in 1..process
  /\ process # 0 => process = spawned

(* The strengthening of OffStopsUncrossed and TunnelAtHand.                 *)
UncrossedInv == ~crossed => OneStop /\ StatusTrue

-----------------------------------------------------------------------------
(* Every step keeps the types.                                              *)
LEMMA TypeStep == TypeOK /\ [Next]_vars => TypeOK'
<1> SUFFICES ASSUME TypeOK, [Next]_vars PROVE TypeOK'
  OBVIOUS
<1>a. Enables \subseteq Requests /\ Disables \subseteq Requests /\ 0 \in 0..spawned
  BY DEF Requests, TypeOK
<1>1. ASSUME NEW o \in Enables, EnableStarts(o) PROVE TypeOK'
  <2>1. /\ spawned' = spawned + 1 /\ spawned' \in Nat /\ spawned + 1 \in 1..spawned'
        /\ 1..spawned \subseteq 1..spawned' /\ 0..spawned \subseteq 0..spawned'
    BY <1>1 DEF EnableStarts, TypeOK
  <2>2. victim' \in [Requests -> 0..spawned'] /\ alive' \subseteq 1..spawned'
    BY <1>1, <2>1 DEF EnableStarts, TypeOK
  <2>3. pc' \in [Requests -> {"idle", "polling", "stopping", "done"}]
    BY <1>1, <1>a DEF EnableStarts, TypeOK
  <2>4. QED
    BY <1>1, <2>1, <2>2, <2>3 DEF EnableStarts, TypeOK
<1>2. ASSUME NEW o \in Requests, SignalProcess(o)
      PROVE  /\ UNCHANGED <<process, spawned, alive>> /\ shuttingDownProcess' \in BOOLEAN
             /\ signalled' \subseteq 1..spawned /\ victim' \in [Requests -> 0..spawned]
             /\ pc' \in [Requests -> {"idle", "polling", "stopping", "done"}]
  BY <1>2 DEF SignalProcess, TypeOK
<1>3. ASSUME NEW who, NEW st \in {"off", "starting", "on", "error"}, FinishStop(who, st),
             UNCHANGED <<spawned, signalled>>, alive' \subseteq alive
      PROVE  TypeOK'
  BY <1>3, <1>a DEF FinishStop, TypeOK
<1>4. ASSUME NEW o \in Enables, EnableReturns(o) \/ EnableJoins(o) \/ StartSettled(o)
      PROVE  TypeOK'
  BY <1>4, <1>a DEF EnableReturns, EnableJoins, StartSettled, TypeOK, gateVars, childVars
<1>5. ASSUME NEW o \in Enables, EnableSpawnFails(o) PROVE TypeOK'
  BY <1>5, <1>a DEF EnableSpawnFails, TypeOK, childVars
<1>6. ASSUME NEW o \in Enables, StartTimesOut(o) PROVE TypeOK'
  BY <1>6, <1>a, <1>2 DEF StartTimesOut, TypeOK, childVars
<1>7. ASSUME NEW o \in Enables, Login(o) \/ Logout(o) PROVE TypeOK'
  BY <1>7 DEF Login, Logout, TypeOK, childVars
<1>8. ASSUME NEW o \in Disables, Disable(o) PROVE TypeOK'
  BY <1>8, <1>a, <1>2 DEF Disable, TypeOK, gateVars, childVars
<1>9. ASSUME NEW o \in Requests, StopGivesUp(o) PROVE TypeOK'
  BY <1>9, <1>3 DEF StopGivesUp, childVars, TypeOK
<1>10. ASSUME NEW n \in alive, ProcessExits(n) PROVE TypeOK'
  <2>1. ExitStatus \in {"off", "starting", "on", "error"}
    BY DEF ExitStatus, TypeOK
  <2>2. UNCHANGED <<spawned, signalled>> /\ alive' \subseteq alive
    BY <1>10 DEF ProcessExits
  <2>3. CASE FinishStop(Waiters(n), ExitStatus)
    BY <1>3, <2>1, <2>2, <2>3
  <2>4. CASE UNCHANGED <<shuttingDownProcess, pc, victim>>
    BY <1>10, <1>a, <2>1, <2>2, <2>4 DEF ProcessExits, FinishStop, TypeOK
  <2>5. QED
    BY <1>10, <2>3, <2>4 DEF ProcessExits
<1>11. ASSUME NEW n \in 1..spawned, UrlPrinted(n) PROVE TypeOK'
  BY <1>11 DEF UrlPrinted, TypeOK, childVars
<1>12. CASE UNCHANGED vars
  BY <1>12 DEF vars, gateVars, childVars, TypeOK
<1>13. QED
  BY <1>1, <1>4, <1>5, <1>6, <1>7, <1>8, <1>9, <1>10, <1>11, <1>12 DEF Next

(* The fields of the service have their types.                              *)
LEMMA TypeAlways == Spec => []TypeOK
<1>1. Init => TypeOK
  <2> SUFFICES ASSUME Init PROVE TypeOK
    OBVIOUS
  <2>1. 0 \in 0..spawned /\ spawned \in Nat
    BY DEF Init
  <2>2. victim \in [Requests -> 0..spawned]
    BY <2>1 DEF Init
  <2>3. QED
    BY <2>1, <2>2 DEF Init, TypeOK
<1>2. QED
  BY <1>1, TypeStep, PTL DEF Spec

-----------------------------------------------------------------------------
(* No session is kept of another password than the current one.             *)
LEMMA GateAlways == Spec => []GateInv
<1>1. Init => GateInv
  BY DEF Init, GateInv
<1>2. GateInv /\ [Next]_vars => GateInv'
  <2> SUFFICES ASSUME GateInv, [Next]_vars PROVE GateInv'
    OBVIOUS
  <2>1. ASSUME NEW o \in Enables,
               \/ EnableReturns(o) \/ EnableJoins(o) \/ EnableStarts(o) \/ EnableSpawnFails(o)
               \/ StartSettled(o) \/ StartTimesOut(o)
        PROVE  GateInv'
    BY <2>1 DEF EnableReturns, EnableJoins, EnableStarts, EnableSpawnFails, StartSettled,
                StartTimesOut, GateInv, gateVars
  <2>2. ASSUME NEW o \in Enables, Login(o) \/ Logout(o) PROVE GateInv'
    BY <2>2 DEF Login, Logout, GateInv
  <2>3. ASSUME NEW o \in Disables, Disable(o) PROVE GateInv'
    BY <2>3 DEF Disable, GateInv, gateVars
  <2>4. ASSUME NEW o \in Requests, StopGivesUp(o) PROVE GateInv'
    BY <2>4 DEF StopGivesUp, FinishStop, GateInv
  <2>5. ASSUME NEW n \in alive, ProcessExits(n) PROVE GateInv'
    BY <2>5 DEF ProcessExits, FinishStop, GateInv
  <2>6. ASSUME NEW n \in 1..spawned, UrlPrinted(n) PROVE GateInv'
    BY <2>6 DEF UrlPrinted, GateInv
  <2>7. CASE UNCHANGED vars
    BY <2>7 DEF vars, gateVars, GateInv
  <2>8. QED
    BY <2>1, <2>2, <2>3, <2>4, <2>5, <2>6, <2>7 DEF Next
<1>3. QED
  BY <1>1, <1>2, PTL DEF Spec

(* A session lets through only while the password it was opened with is the *)
(* current one.                                                             *)
THEOREM SessionsDieWithPassword == Spec => []SessionsOfPassword
<1>1. GateInv => SessionsOfPassword
  BY DEF GateInv, SessionsOfPassword, IsSessionValid
<1>2. QED
  BY <1>1, GateAlways, PTL

-----------------------------------------------------------------------------
(* The service implements TunnelGate.                                       *)

IsOpen == status = "on" /\ passwordHash # None
Brought == {o \in Enables : pc[o] # "idle"}

(* A request that is begun brings its password, and no other does.          *)
LEMMA OneMoreBrought ==
  ASSUME TypeOK, NEW o \in Enables, pc[o] = "idle",
         NEW place \in {"polling", "done"}, pc' = [pc EXCEPT ![o] = place]
  PROVE  o \notin Brought /\ Brought' = Brought \cup {o}
<1>1. \A q \in Enables : pc'[q] = IF q = o THEN place ELSE pc[q]
  BY DEF TypeOK, Requests
<1> QED
  BY <1>1 DEF Brought

(* What the others do to the requests brings nothing.                       *)
LEMMA NoneBrought ==
  ASSUME \A q \in Enables : pc'[q] # "idle" <=> pc[q] # "idle"
  PROVE  UNCHANGED Brought
BY DEF Brought

(* A stop that returns closes the gate, for whomever it returns.            *)
LEMMA StopCloses ==
  ASSUME NEW who \in SUBSET Requests, NEW st, FinishStop(who, st),
         \A q \in who : pc[q] = "stopping"
  PROVE  Gate!Close
<1>1. \A q \in Enables : pc'[q] # "idle" <=> pc[q] # "idle"
  BY DEF FinishStop, Requests
<1>2. UNCHANGED Brought
  BY <1>1, NoneBrought
<1> QED
  BY <1>2 DEF FinishStop, Gate!Close, Brought

(* A stop that is begun leaves the gate alone, except that a start that ran *)
(* out of time is over.                                                     *)
LEMMA SignalLeavesGate ==
  ASSUME TypeOK, NEW o \in Requests, SignalProcess(o), pc[o] # "idle" \/ o \in Disables,
         UNCHANGED <<passwordHash, sessions>>,
         UNCHANGED status \/ (status = "starting" /\ status' = "error")
  PROVE  UNCHANGED Gate!gateVars
<1>1. pc' = [pc EXCEPT ![o] = "stopping"]
  BY DEF SignalProcess
<1>2. ASSUME NEW q \in Enables
      PROVE  pc'[q] # "idle" <=> pc[q] # "idle"
  BY <1>1, TunnelAssumption DEF TypeOK, Requests
<1>3. UNCHANGED Brought
  BY <1>2, NoneBrought
<1>4. IsOpen' = IsOpen
  BY DEF IsOpen
<1> QED
  BY <1>3, <1>4 DEF Gate!gateVars, Brought, IsOpen

(* Every step of the service is one of the gate's, or none.                 *)
LEMMA GateStep == TypeOK /\ [Next]_vars => [Gate!Next]_(Gate!gateVars)
<1> SUFFICES ASSUME TypeOK, [Next]_vars PROVE Gate!Next \/ UNCHANGED Gate!gateVars
  OBVIOUS
<1>a. ASSUME UNCHANGED <<status, passwordHash, sessions>>, UNCHANGED Brought
      PROVE  UNCHANGED Gate!gateVars
  BY <1>a DEF Gate!gateVars, Brought
<1>1. ASSUME NEW o \in Enables, EnableReturns(o) \/ EnableJoins(o) PROVE Gate!TurnOn(o)
  <2>1. Brought' = Brought \cup {o} /\ o \notin Brought
    BY <1>1, OneMoreBrought DEF EnableReturns, EnableJoins, Admit
  <2> QED BY <1>1, <2>1 DEF EnableReturns, EnableJoins, gateVars, Gate!TurnOn, Brought
<1>2. ASSUME NEW o \in Enables, EnableStarts(o) \/ EnableSpawnFails(o) PROVE Gate!TurnOn(o)
  <2>1. Brought' = Brought \cup {o} /\ o \notin Brought
    BY <1>2, OneMoreBrought DEF EnableStarts, EnableSpawnFails, Admit
  <2>2. ~IsOpen /\ ~IsOpen' /\ passwordHash' \in {o, None} /\ sessions' = {}
    BY <1>2 DEF EnableStarts, EnableSpawnFails, MayStart, IsOpen
  <2> QED BY <2>1, <2>2 DEF Gate!TurnOn, Brought, IsOpen
<1>3. ASSUME NEW o \in Enables, StartSettled(o) PROVE UNCHANGED Gate!gateVars
  <2>1. \A q \in Enables : pc'[q] # "idle" <=> pc[q] # "idle"
    BY <1>3 DEF StartSettled, TypeOK, Requests
  <2> QED BY <1>3, <1>a, <2>1, NoneBrought DEF StartSettled, gateVars
<1>4. ASSUME NEW o \in Enables, StartTimesOut(o)
      PROVE  Gate!Close \/ UNCHANGED Gate!gateVars
  <2>1. CASE SignalProcess(o) /\ UNCHANGED <<publicUrl, passwordHash, sessions>>
    <3>1. o \in Requests /\ pc[o] # "idle" /\ status = "starting" /\ status' = "error"
      BY <1>4 DEF StartTimesOut, Requests
    <3> QED BY <2>1, <3>1, SignalLeavesGate
  <2>2. CASE /\ passwordHash' = None /\ sessions' = {}
             /\ pc' = [pc EXCEPT ![o] = "done"]
    <3>1. \A q \in Enables : pc'[q] # "idle" <=> pc[q] # "idle"
      BY <1>4, <2>2 DEF StartTimesOut, TypeOK, Requests
    <3>2. UNCHANGED Brought
      BY <3>1, NoneBrought
    <3> QED BY <2>2, <3>2 DEF Gate!Close, Brought
  <2> QED BY <1>4, <2>1, <2>2 DEF StartTimesOut
<1>5. ASSUME NEW o \in Enables, Login(o) PROVE Gate!Enter(o)
  <2>1. o # None
    BY TunnelAssumption
  <2> QED BY <1>5, <2>1 DEF Login, Gate!Enter
<1>6. ASSUME NEW o \in Enables, Logout(o) PROVE Gate!Leave(o)
  BY <1>6 DEF Logout, Gate!Leave
<1>7. ASSUME NEW o \in Disables, Disable(o)
      PROVE  Gate!Close \/ UNCHANGED Gate!gateVars
  <2>1. CASE SignalProcess(o) /\ UNCHANGED gateVars
    <3>1. o \in Requests /\ UNCHANGED <<status, passwordHash, sessions>>
      BY <2>1 DEF gateVars, Requests
    <3>2. UNCHANGED status \/ (status = "starting" /\ status' = "error")
      BY <3>1
    <3> QED BY <2>1, <3>1, <3>2, SignalLeavesGate
  <2>2. CASE /\ passwordHash' = None /\ sessions' = {}
             /\ pc' = [pc EXCEPT ![o] = "done"]
    <3>1. \A q \in Enables : pc'[q] # "idle" <=> pc[q] # "idle"
      BY <2>2, TunnelAssumption DEF TypeOK, Requests
    <3>2. UNCHANGED Brought
      BY <3>1, NoneBrought
    <3> QED BY <2>2, <3>2 DEF Gate!Close, Brought
  <2> QED BY <1>7, <2>1, <2>2 DEF Disable
<1>8. ASSUME NEW o \in Requests, StopGivesUp(o) PROVE Gate!Close
  <2>1. {o} \in SUBSET Requests /\ pc[o] = "stopping" /\ FinishStop({o}, status)
    BY <1>8 DEF StopGivesUp
  <2> QED BY <2>1, StopCloses
<1>9. ASSUME NEW n \in alive, ProcessExits(n)
      PROVE  Gate!Close \/ UNCHANGED Gate!gateVars
  <2>1. CASE FinishStop(Waiters(n), ExitStatus)
    <3>1. Waiters(n) \in SUBSET Requests /\ \A q \in Waiters(n) : pc[q] = "stopping"
      BY DEF Waiters
    <3> QED BY <2>1, <3>1, StopCloses
  <2>2. CASE /\ status' = ExitStatus
             /\ IF ExitStatus # status
                THEN publicUrl' = 0 /\ passwordHash' = None /\ sessions' = {}
                ELSE UNCHANGED <<publicUrl, passwordHash, sessions>>
             /\ UNCHANGED <<shuttingDownProcess, pc, victim>>
    <3>1. UNCHANGED Brought
      BY <2>2 DEF Brought
    <3>2. CASE ExitStatus # status
      BY <2>2, <3>1, <3>2 DEF Gate!Close, Brought
    <3>3. CASE ExitStatus = status
      BY <1>a, <2>2, <3>1, <3>3
    <3> QED BY <3>2, <3>3
  <2> QED BY <1>9, <2>1, <2>2 DEF ProcessExits
<1>10. ASSUME NEW n \in 1..spawned, UrlPrinted(n)
       PROVE  Gate!Open \/ UNCHANGED Gate!gateVars
  <2>1. status = "starting" /\ status' = "on" /\ UNCHANGED <<passwordHash, sessions, pc>>
    BY <1>10 DEF UrlPrinted
  <2>2. CASE passwordHash # None
    BY <2>1, <2>2 DEF Gate!Open
  <2>3. CASE passwordHash = None
    BY <2>1, <2>3 DEF Gate!gateVars
  <2> QED BY <2>2, <2>3
<1>11. CASE UNCHANGED vars
  <2>1. UNCHANGED <<status, passwordHash, sessions>> /\ UNCHANGED Brought
    BY <1>11 DEF vars, gateVars, Brought
  <2> QED BY <1>a, <2>1
<1> QED
  BY <1>1, <1>2, <1>3, <1>4, <1>5, <1>6, <1>7, <1>8, <1>9, <1>10, <1>11 DEF Next, Gate!Next

(* The service implements TunnelGate: whatever requests, timeouts and exits *)
(* overlap, the gate opens only under a password just brought, and closing  *)
(* it forgets that password and its sessions together.                      *)
THEOREM ImplementsTheGate == Spec => KeepsTheGate
<1>1. Init => Gate!Init
  <2> SUFFICES ASSUME Init PROVE Gate!Init
    OBVIOUS
  <2>1. status = "off" /\ passwordHash = None /\ sessions = {}
    BY DEF Init
  <2>2. \A q \in Enables : pc[q] = "idle"
    BY DEF Init, Requests
  <2> QED BY <2>1, <2>2 DEF Gate!Init
<1>2. TypeOK /\ [Next]_vars => [Gate!Next]_(Gate!gateVars)
  BY GateStep
<1> QED
  BY <1>1, <1>2, TypeAlways, PTL DEF Spec, KeepsTheGate, Gate!Spec

-----------------------------------------------------------------------------
(* While no start crosses a stop.                                           *)

(* A start begins with no child at all; so it is the only one.              *)
LEMMA StartUncrossed ==
  ASSUME TypeOK, OneStop, StatusTrue, NEW o \in Enables, EnableStarts(o), ~crossed'
  PROVE  OneStop' /\ StatusTrue'
<1>1. ~Stopping /\ status \in {"off", "error"} /\ o \in Requests
  BY DEF EnableStarts, MayStart, Requests
<1>2. alive = {}
  BY <1>1 DEF StatusTrue, TypeOK
<1>3. /\ process' = spawned + 1 /\ alive' = {spawned + 1} /\ process' # 0
      /\ spawned' = process' /\ passwordHash' # None /\ status' = "starting"
  BY <1>2, TunnelAssumption DEF EnableStarts, TypeOK
<1>4. pc' = [pc EXCEPT ![o] = "polling"] /\ UNCHANGED <<victim, signalled, shuttingDownProcess>>
  BY DEF EnableStarts
<1>5. \A q \in Requests : pc'[q] # "stopping"
  BY <1>1, <1>4 DEF Stopping, TypeOK
<1>6. ~Stopping' /\ ~shuttingDownProcess'
  BY <1>1, <1>4, <1>5 DEF Stopping, OneStop, TypeOK
<1>7. OneStop'
  BY <1>5, <1>6 DEF OneStop
<1>8. StatusTrue'
  BY <1>3, <1>6 DEF StatusTrue
<1>9. QED
  BY <1>7, <1>8

(* Another request joins the stop, or begins one.                           *)
LEMMA SignalUncrossed ==
  ASSUME TypeOK, OneStop, StatusTrue, NEW o \in Requests, SignalProcess(o),
         UNCHANGED <<publicUrl, passwordHash>>,
         status' = status \/ status' = "error",
         o \in Enables => status' = "error"
  PROVE  OneStop' /\ StatusTrue'
<1>1. /\ process # 0 /\ process \in alive /\ UNCHANGED <<process, spawned, alive>>
      /\ signalled' = signalled \cup {process} /\ shuttingDownProcess' = TRUE
      /\ victim' = [victim EXCEPT ![o] = process] /\ pc' = [pc EXCEPT ![o] = "stopping"]
  BY DEF SignalProcess, StatusTrue
<1>2. Stopping'
  BY <1>1 DEF Stopping, TypeOK
<1>3. alive = {process}
  <2>1. CASE Stopping
    BY <1>1, <2>1 DEF OneStop, Stopping
  <2>2. CASE ~Stopping
    BY <1>1, <2>2 DEF StatusTrue
  <2>3. QED
    BY <2>1, <2>2
<1>4. ASSUME NEW q \in Requests, pc'[q] = "stopping"
      PROVE  victim'[q] = process /\ (q \in Enables => status' \in {"off", "error"})
  <2>1. CASE q = o
    BY <1>1, <2>1 DEF TypeOK
  <2>2. CASE q # o
    <3>1. pc[q] = "stopping" /\ victim'[q] = victim[q]
      BY <1>1, <1>4, <2>2 DEF TypeOK
    <3>2. QED
      BY <1>1, <3>1 DEF OneStop
  <2>3. QED
    BY <2>1, <2>2
<1>5. OneStop'
  BY <1>1, <1>2, <1>3, <1>4 DEF OneStop
<1>6. StatusTrue'
  BY <1>1, <1>2 DEF StatusTrue
<1>7. QED
  BY <1>5, <1>6

(* An exit is that of the one child there is, and ends the stop for all who *)
(* wait for it.                                                             *)
LEMMA ExitUncrossed ==
  ASSUME TypeOK, OneStop, StatusTrue, NEW n \in alive, ProcessExits(n)
  PROVE  OneStop' /\ StatusTrue'
<1>a. n # 0 /\ pc \in [Requests -> {"idle", "polling", "stopping", "done"}]
  BY DEF TypeOK
<1>1. CASE Stopping
  <2>1. \A q \in Requests : pc[q] = "stopping" => victim[q] = n /\ alive = {n}
    BY DEF OneStop
  <2>2. PICK r \in Requests : pc[r] = "stopping"
    BY <1>1 DEF Stopping
  <2>3. Waiters(n) = {q \in Requests : pc[q] = "stopping"} /\ r \in Waiters(n)
    BY <2>1, <2>2 DEF Waiters
  <2>4. FinishStop(Waiters(n), ExitStatus) /\ alive' = {}
    BY <2>1, <2>2, <2>3 DEF ProcessExits
  <2>5. \A q \in Requests : pc'[q] # "stopping"
    BY <1>a, <2>3, <2>4 DEF FinishStop
  <2>6. ~Stopping' /\ ~shuttingDownProcess' /\ process' = 0 /\ passwordHash' = None
    BY <2>4, <2>5 DEF FinishStop, Stopping
  <2>7. status' \in {"off", "error"}
    <3>1. CASE Waiters(n) \cap Disables # {}
      BY <2>4, <3>1 DEF FinishStop
    <3>2. CASE Waiters(n) \cap Disables = {}
      <4>1. r \in Enables
        BY <2>3, <3>2 DEF Requests
      <4>2. status \in {"off", "error"}
        BY <2>2, <4>1 DEF OneStop
      <4>3. ExitStatus = status
        BY <1>1 DEF ExitStatus, OneStop
      <4>4. QED
        BY <2>4, <3>2, <4>2, <4>3 DEF FinishStop
    <3>3. QED
      BY <3>1, <3>2
  <2>8. OneStop'
    BY <2>5, <2>6 DEF OneStop
  <2>9. StatusTrue'
    BY <2>4, <2>6, <2>7 DEF StatusTrue
  <2>10. QED
    BY <2>8, <2>9
<1>2. CASE ~Stopping
  <2>1. Waiters(n) = {} /\ n = process /\ ~shuttingDownProcess
    BY <1>2 DEF Stopping, Waiters, OneStop, StatusTrue
  <2>2. /\ process' = 0 /\ alive' = {} /\ status' = ExitStatus
        /\ ExitStatus # status => passwordHash' = None
        /\ ExitStatus = status => UNCHANGED passwordHash
        /\ UNCHANGED <<shuttingDownProcess, pc, victim>>
    BY <1>2, <2>1 DEF ProcessExits, StatusTrue
  <2>3. /\ status' \in {"off", "error"}
        /\ status' = "off" => passwordHash' = None
    BY <2>1, <2>2 DEF ExitStatus, StatusTrue, TypeOK
  <2>4. ~Stopping' /\ \A q \in Requests : pc'[q] # "stopping"
    BY <1>2, <2>2 DEF Stopping
  <2>5. OneStop'
    BY <2>1, <2>2, <2>4 DEF OneStop
  <2>6. StatusTrue'
    BY <2>2, <2>3 DEF StatusTrue
  <2>7. QED
    BY <2>5, <2>6
<1>3. QED
  BY <1>1, <1>2

(* The spawn that fails, the enables that only wait, and the URL.           *)
LEMMA SpawnFailsUncrossed ==
  ASSUME TypeOK, OneStop, StatusTrue, NEW o \in Enables, EnableSpawnFails(o)
  PROVE  OneStop' /\ StatusTrue'
<1>1. /\ process' = 0 /\ status' = "error" /\ o \in Requests
      /\ UNCHANGED <<shuttingDownProcess, victim, alive, signalled>>
      /\ pc[o] = "idle" /\ pc' = [pc EXCEPT ![o] = "polling"]
  BY DEF EnableSpawnFails, Admit, Requests, childVars
<1>2. \A q \in Requests : pc'[q] = "stopping" <=> pc[q] = "stopping"
  BY <1>1 DEF TypeOK
<1>3. Stopping' <=> Stopping
  BY <1>2 DEF Stopping
<1>4. OneStop'
  BY <1>1, <1>2, <1>3 DEF OneStop
<1>5. ~Stopping => process = 0
  BY DEF EnableSpawnFails, MayStart, StatusTrue
<1>6. StatusTrue'
  BY <1>1, <1>3, <1>5 DEF StatusTrue
<1>7. QED
  BY <1>4, <1>6

(* Every step keeps the strengthening while no start has crossed a stop.    *)
LEMMA UncrossedStep == TypeOK /\ UncrossedInv /\ [Next]_vars => UncrossedInv'
<1> SUFFICES ASSUME TypeOK, UncrossedInv, [Next]_vars, ~crossed' PROVE OneStop' /\ StatusTrue'
  BY DEF UncrossedInv
<1>a. crossed => crossed'
  BY DEF Next, EnableReturns, EnableJoins, EnableStarts, EnableSpawnFails, StartSettled,
         StartTimesOut, SignalProcess, Login, Logout, Disable, StopGivesUp, ProcessExits,
         UrlPrinted, vars
<1>b. OneStop /\ StatusTrue
  BY <1>a DEF UncrossedInv
<1>c. Enables \subseteq Requests /\ Disables \subseteq Requests
  BY DEF Requests
<1>d. ASSUME UNCHANGED <<status, publicUrl, passwordHash, process, shuttingDownProcess,
                         victim, spawned, alive, signalled>>,
             \A q \in Requests : pc'[q] = "stopping" <=> pc[q] = "stopping"
      PROVE  OneStop' /\ StatusTrue'
  <2>1. Stopping' <=> Stopping
    BY <1>d DEF Stopping
  <2>2. OneStop'
    BY <1>b, <1>d, <2>1 DEF OneStop
  <2>3. StatusTrue'
    BY <1>b, <1>d, <2>1 DEF StatusTrue
  <2>4. QED
    BY <2>2, <2>3
<1>1. ASSUME NEW o \in Enables, EnableReturns(o) \/ EnableJoins(o) \/ StartSettled(o)
      PROVE  OneStop' /\ StatusTrue'
  BY <1>1, <1>c, <1>d DEF EnableReturns, EnableJoins, StartSettled, Admit, gateVars, childVars, TypeOK
<1>2. ASSUME NEW o \in Enables, EnableStarts(o) PROVE OneStop' /\ StatusTrue'
  BY <1>2, <1>b, StartUncrossed
<1>3. ASSUME NEW o \in Enables, EnableSpawnFails(o) PROVE OneStop' /\ StatusTrue'
  BY <1>3, <1>b, SpawnFailsUncrossed
<1>4. ASSUME NEW o \in Enables, StartTimesOut(o) PROVE OneStop' /\ StatusTrue'
  <2>1. process # 0 /\ status' = "error"
    BY <1>4, <1>b DEF StartTimesOut, StatusTrue
  <2>2. SignalProcess(o) /\ UNCHANGED <<publicUrl, passwordHash>>
    BY <1>4, <2>1 DEF StartTimesOut
  <2>3. QED
    BY <1>b, <1>c, <2>1, <2>2, SignalUncrossed
<1>5. ASSUME NEW o \in Enables, Login(o) \/ Logout(o) PROVE OneStop' /\ StatusTrue'
  BY <1>5, <1>d DEF Login, Logout, childVars
<1>6. ASSUME NEW o \in Disables, Disable(o) PROVE OneStop' /\ StatusTrue'
  <2>1. CASE SignalProcess(o) /\ UNCHANGED gateVars
    <3>1. o \in Requests /\ o \notin Enables /\ UNCHANGED <<status, publicUrl, passwordHash>>
      BY <1>c, <2>1, TunnelAssumption DEF gateVars
    <3>2. QED
      BY <1>b, <2>1, <3>1, SignalUncrossed
  <2>2. CASE process = 0 /\ status' = "off"
    <3>1. /\ passwordHash' = None /\ pc[o] = "idle" /\ pc' = [pc EXCEPT ![o] = "done"]
          /\ UNCHANGED <<process, shuttingDownProcess, victim, alive, signalled>>
      BY <1>6, <2>2 DEF Disable, Admit, SignalProcess, childVars
    <3>2. \A q \in Requests : pc'[q] = "stopping" <=> pc[q] = "stopping"
      BY <1>c, <3>1 DEF TypeOK
    <3>3. Stopping' <=> Stopping
      BY <3>2 DEF Stopping
    <3>4. OneStop'
      BY <1>b, <2>2, <3>1, <3>2, <3>3 DEF OneStop
    <3>5. StatusTrue'
      BY <1>b, <2>2, <3>1, <3>3 DEF StatusTrue
    <3>6. QED
      BY <3>4, <3>5
  <2>3. QED
    BY <1>6, <2>1, <2>2 DEF Disable
<1>7. ASSUME NEW o \in Requests, StopGivesUp(o) PROVE FALSE
  BY <1>7 DEF StopGivesUp
<1>8. ASSUME NEW n \in alive, ProcessExits(n) PROVE OneStop' /\ StatusTrue'
  BY <1>8, <1>b, ExitUncrossed
<1>9. ASSUME NEW n \in 1..spawned, UrlPrinted(n) PROVE OneStop' /\ StatusTrue'
  <2>1. /\ status = "starting" /\ status' = "on" /\ publicUrl' = n
        /\ UNCHANGED <<passwordHash, process, shuttingDownProcess, pc, victim, spawned, alive,
                       signalled>>
    BY <1>9 DEF UrlPrinted, childVars
  <2>2. process # 0 /\ passwordHash # None
    BY <1>b, <2>1 DEF StatusTrue
  <2>3. Stopping' <=> Stopping
    BY <2>1 DEF Stopping
  <2>4. n \in 1..process
    BY <1>b, <2>2 DEF StatusTrue
  <2>5. \A q \in Enables : pc[q] # "stopping"
    BY <1>b, <1>c, <2>1 DEF OneStop
  <2>6. OneStop'
    BY <1>b, <2>1, <2>3, <2>5 DEF OneStop
  <2>7. StatusTrue'
    BY <1>b, <2>1, <2>2, <2>3, <2>4 DEF StatusTrue
  <2>8. QED
    BY <2>6, <2>7
<1>10. CASE UNCHANGED vars
  BY <1>10, <1>d DEF vars, gateVars, childVars
<1>11. QED
  BY <1>1, <1>2, <1>3, <1>4, <1>5, <1>6, <1>7, <1>8, <1>9, <1>10 DEF Next

(* The strengthening holds from the start.                                  *)
LEMMA UncrossedAlways == Spec => []UncrossedInv
<1>1. Init => UncrossedInv
  BY DEF Init, UncrossedInv, OneStop, StatusTrue, Stopping
<1>2. QED
  BY <1>1, UncrossedStep, TypeAlways, PTL DEF Spec

(* OFF stops ngrok and forgets the password, unless a start crossed a stop  *)
(* or a stop gave up.                                                       *)
THEOREM OffStopsNgrok == Spec => []OffStopsUncrossed
<1>1. TypeOK /\ UncrossedInv /\ GateInv => OffStopsUncrossed
  <2> SUFFICES ASSUME TypeOK, UncrossedInv, GateInv, ~crossed, status = "off", Active = {}
               PROVE  alive \subseteq signalled /\ passwordHash = None /\ sessions = {}
    BY DEF OffStopsUncrossed, OffStopsTunnel
  <2>1. ~Stopping
    BY DEF Active, Stopping
  <2>2. process = 0 /\ passwordHash = None /\ alive \subseteq {process}
    BY <2>1 DEF UncrossedInv, StatusTrue
  <2>3. alive = {}
    BY <2>2 DEF TypeOK
  <2>4. sessions = {}
    BY <2>2, TunnelAssumption DEF GateInv, TypeOK
  <2>5. QED
    BY <2>2, <2>3, <2>4
<1>2. QED
  BY <1>1, TypeAlways, UncrossedAlways, GateAlways, PTL

(* With the same exception the service has every ngrok at hand.             *)
THEOREM NgrokAtHand == Spec => []TunnelAtHand
<1>1. TypeOK /\ UncrossedInv => TunnelAtHand
  <2> SUFFICES ASSUME TypeOK, OneStop, StatusTrue
               PROVE  /\ alive \ signalled \subseteq {process}
                      /\ status = "on" =>
                           /\ process \in alive /\ passwordHash # None
                           /\ publicUrl = process \/ publicUrl \in 1..(process - 1) \ alive
    BY DEF TunnelAtHand, UncrossedInv
  <2>1. alive \ signalled \subseteq {process}
    BY DEF OneStop, StatusTrue, Stopping
  <2>2. ASSUME status = "on"
        PROVE  publicUrl = process \/ publicUrl \in 1..(process - 1) \ alive
    <3>1. process \in alive /\ publicUrl \in 1..process /\ process \in Nat
      BY <2>2 DEF StatusTrue, TypeOK
    <3>2. alive \subseteq {process}
      BY <3>1 DEF OneStop, StatusTrue, Stopping
    <3> QED BY <3>1, <3>2
  <2> QED BY <2>1, <2>2 DEF StatusTrue
<1>2. QED
  BY <1>1, TypeAlways, UncrossedAlways, PTL
=============================================================================
