----------------------------- MODULE TunnelGate -----------------------------
(***************************************************************************)
(* What TunnelService promises to whoever stands before the tunnel, with no *)
(* ngrok and no requests that wait: the gate opens under a password that an *)
(* admin has just brought, it lets in who knows that password, and when it  *)
(* closes the password is forgotten together with all sessions.             *)
(***************************************************************************)
CONSTANTS Passwords, None

VARIABLES
  password,   \* the password in force, or None
  open,       \* whether the gate is open
  sessions,   \* the passwords the sessions were opened with
  brought     \* the passwords admins have brought so far

gateVars == <<password, open, sessions, brought>>

Init ==
  /\ password = None
  /\ open = FALSE
  /\ sessions = {}
  /\ brought = {}

(* An admin turns the tunnel on: with a gate that is not open this forgets  *)
(* what was before, and the password is in force unless the start fails at  *)
(* once; or else the request changes nothing.                               *)
TurnOn(p) ==
  /\ p \notin brought
  /\ brought' = brought \cup {p}
  /\ \/ /\ ~open
        /\ password' \in {p, None}
        /\ sessions' = {}
     \/ UNCHANGED <<password, sessions>>
  /\ UNCHANGED open

Open ==
  /\ password # None
  /\ open' = TRUE
  /\ UNCHANGED <<password, sessions, brought>>

Close ==
  /\ password' = None
  /\ open' = FALSE
  /\ sessions' = {}
  /\ UNCHANGED brought

Enter(p) ==
  /\ open
  /\ password = p
  /\ sessions' = sessions \cup {p}
  /\ UNCHANGED <<password, open, brought>>

Leave(p) ==
  /\ sessions' = sessions \ {p}
  /\ UNCHANGED <<password, open, brought>>

Next == Open \/ Close \/ \E p \in Passwords : TurnOn(p) \/ Enter(p) \/ Leave(p)

Spec == Init /\ [][Next]_gateVars
=============================================================================
