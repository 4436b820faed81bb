---------------------------- MODULE ApprovalDesk ----------------------------
(***************************************************************************)
(* What ApprovalService promises, as seen from its routes and from codex:   *)
(* a request waits until somebody decides it; the decision reaches the      *)
(* codex that asked, once.  If that codex is gone it reaches nobody, or a   *)
(* codex that lives, which takes it for the answer to a request of its own  *)
(* if that has the same id.                                                 *)
(*                                                                         *)
(* Approvals implements it; ApprovalBanner is built on it.                  *)
(***************************************************************************)
EXTENDS Naturals, Sequences, FiniteSets

CONSTANT ApprovalKinds    \* the requests the service keeps

VARIABLES
  asks,       \* asks[r]: the incarnation of codex that made request r, its id
              \* there, its kind
  approvals,  \* the requests that wait for a decision
  answered,   \* the approvals whose codex has a decision
  started,    \* incarnations of codex so far
  living      \* those that have not exited

deskVars == <<asks, approvals, answered, started, living>>

DeskInit ==
  /\ asks = <<>>
  /\ approvals = {}
  /\ answered = {}
  /\ started = 0
  /\ living = {}

Starts ==
  /\ started' = started + 1
  /\ living' = living \cup {started + 1}

CodexStarts == Starts /\ UNCHANGED <<asks, approvals, answered>>

CodexExits(c) ==
  /\ c \in living
  /\ living' = living \ {c}
  /\ UNCHANGED <<asks, approvals, answered, started>>

NextId(c) == Cardinality({r \in DOMAIN asks : asks[r].codex = c})

Ask(c, kind) == asks' = Append(asks, [codex |-> c, id |-> NextId(c), kind |-> kind])

(* A line with this id is written to a codex that lives.                    *)
Reaches(id) ==
  \E c \in living :
    answered' = answered \cup {r \in DOMAIN asks : /\ asks[r].codex = c /\ asks[r].id = id
                                                 /\ asks[r].kind \in ApprovalKinds}

(* codex asks for an approval, which a line of that id it has yet to read,  *)
(* meant for another codex, may answer.                                     *)
Asks(c, kind) ==
  /\ c \in living /\ kind \in ApprovalKinds
  /\ Ask(c, kind)
  /\ approvals' = approvals \cup {Len(asks) + 1}
  /\ \/ answered' = answered
     \/ /\ \E r \in DOMAIN asks \ approvals : asks[r].codex # c /\ asks[r].id = NextId(c)
        /\ answered' = answered \cup {Len(asks) + 1}
  /\ UNCHANGED <<started, living>>

(* codex asks for anything else and is refused, by an answer that starts a  *)
(* codex when there is none to write to.                                    *)
Refused(c, kind) ==
  /\ c \in living /\ kind \notin ApprovalKinds
  /\ Ask(c, kind)
  /\ \/ Starts /\ UNCHANGED answered
     \/ Reaches(NextId(c)) /\ UNCHANGED <<started, living>>
  /\ UNCHANGED approvals

(* A decision, for a codex that lives.                                      *)
Decide(r) ==
  /\ r \in approvals /\ asks[r].codex \in living
  /\ approvals' = approvals \ {r}
  /\ answered' = answered \cup {r}
  /\ UNCHANGED <<asks, started, living>>

(* The end of a decision for one that is gone.                              *)
Discard(r) ==
  /\ r \in approvals /\ asks[r].codex \notin living
  /\ approvals' = approvals \ {r}
  /\ Reaches(asks[r].id) \/ UNCHANGED answered
  /\ UNCHANGED <<asks, started, living>>

(* A second one of such a decision, or a refusal that had to wait.          *)
Repeat(r) ==
  /\ r \notin approvals
  /\ asks[r].codex \notin living \/ asks[r].kind \notin ApprovalKinds
  /\ Reaches(asks[r].id)
  /\ UNCHANGED <<asks, approvals, started, living>>

DeskNext ==
  \/ CodexStarts
  \/ \E c \in living :
       CodexExits(c) \/ \E kind \in ApprovalKinds \cup {"other"} : Asks(c, kind) \/ Refused(c, kind)
  \/ \E r \in DOMAIN asks : Decide(r) \/ Discard(r) \/ Repeat(r)

DeskSpec == DeskInit /\ [][DeskNext]_deskVars
=============================================================================
