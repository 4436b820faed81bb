----------------------------- MODULE ApiClient ------------------------------
(***************************************************************************)
(* ApiClient: request() of the page's api-client, the network between the   *)
(* page and codex-app-server, and the handler the request is for.           *)
(*                                                                         *)
(* No caller passes a signal, a timeout or a number of retries of its own,  *)
(* so the method alone decides whether a request is repeated.  An attempt   *)
(* is a fetch; giving one up takes back neither the request on its way nor  *)
(* what its handler does.  Bodies and messages are left out.                *)
(***************************************************************************)
EXTENDS Naturals

CONSTANTS
  Gets,         \* calls of a GET route
  Mutations,    \* calls of a POST route
  GetRetries    \* retries of a GET

ASSUME ApiClientAssumption ==
  /\ Gets \cap Mutations = {}
  /\ GetRetries \in Nat

VARIABLES
  pc,        \* where each call is
  attempt,   \* the attempt it is at
  outcome,   \* how it ended
  wire,      \* the attempts whose request is on its way to the server
  answer,    \* the answer on its way back to the current attempt, or "none"
  executed   \* how often the handler ran for each call

vars == <<pc, attempt, outcome, wire, answer, executed>>

Calls == Gets \cup Mutations

(* What a fetch can resolve to: 2xx with JSON, 204, a status worth a retry, *)
(* any other status, or the tunnel's gate (401, or its login page after a   *)
(* redirect or as a 200 that is not JSON).                                  *)
Statuses == {"json", "noContent", "retryable", "refused", "loginPage"}

Settled(c) == pc[c] = "settled"

Init ==
  /\ pc = [c \in Calls |-> "idle"]
  /\ attempt = [c \in Calls |-> 0]
  /\ outcome = [c \in Calls |-> "none"]
  /\ wire = {}
  /\ answer = [c \in Calls |-> "none"]
  /\ executed = [c \in Calls |-> 0]

(* Mutants, here and below: altered forms of the definition that follows,   *)
(* each of which breaks a property (README, "Mutants").                     *)
RetriesForAll(c) == GetRetries

Retries(c) == IF c \in Gets THEN GetRetries ELSE 0

MayRetry(c) == attempt[c] < Retries(c)

Settle(c, how) ==
  /\ pc' = [pc EXCEPT ![c] = "settled"]
  /\ outcome' = [outcome EXCEPT ![c] = how]

(* Wait before the next attempt, or give up.                                *)
RetryOr(c, retryable, how) ==
  \/ /\ retryable
     /\ MayRetry(c)
     /\ pc' = [pc EXCEPT ![c] = "backoff"]
     /\ UNCHANGED outcome
  \/ /\ ~(retryable /\ MayRetry(c))
     /\ Settle(c, how)

-----------------------------------------------------------------------------
(* The page                                                                 *)

Request(c) ==
  /\ pc[c] = "idle"
  /\ pc' = [pc EXCEPT ![c] = "fetching"]
  /\ wire' = wire \cup {<<c, 0>>}
  /\ UNCHANGED <<attempt, outcome, answer, executed>>

(* The backoff is over: the next attempt.                                   *)
NextAttempt(c) ==
  /\ pc[c] = "backoff"
  /\ pc' = [pc EXCEPT ![c] = "fetching"]
  /\ attempt' = [attempt EXCEPT ![c] = @ + 1]
  /\ wire' = wire \cup {<<c, attempt[c] + 1>>}
  /\ UNCHANGED <<outcome, answer, executed>>

(* An answer to an attempt that is given up reaches nobody.                 *)
Forgotten(c) == answer' = [answer EXCEPT ![c] = "none"]

TimeoutHangs(c) == FALSE /\ UNCHANGED vars

(* The timeout aborts the fetch; the request and its handler go on.         *)
Timeout(c) ==
  /\ pc[c] = "fetching"
  /\ RetryOr(c, TRUE, "unreachable")
  /\ Forgotten(c)
  /\ UNCHANGED <<attempt, wire, executed>>

(* fetch rejects, with the request lost on its way or its answer.  What the *)
(* browser calls the error decides whether it counts as a network error.    *)
NetworkError(c) ==
  /\ pc[c] = "fetching"
  /\ \E retryable \in BOOLEAN : RetryOr(c, retryable, "unreachable")
  /\ \E lost \in SUBSET {<<c, attempt[c]>>} : wire' = wire \ lost
  /\ Forgotten(c)
  /\ UNCHANGED <<attempt, executed>>

LoginPageIsBody(c, status) ==
  \/ /\ status \in {"json", "loginPage"}
     /\ pc' = [pc EXCEPT ![c] = "reading"]
     /\ UNCHANGED outcome
  \/ /\ status = "noContent"
     /\ Settle(c, "resolved")
  \/ /\ status \in {"retryable", "refused"}
     /\ pc' = [pc EXCEPT ![c] = status]
     /\ UNCHANGED outcome

(* What the headers of an answer decide.  Being sent to the login page ends *)
(* the call too; of an error the body is awaited before anything else.      *)
Decide(c, status) ==
  \/ /\ status = "json"
     /\ pc' = [pc EXCEPT ![c] = "reading"]
     /\ UNCHANGED outcome
  \/ /\ status = "noContent"
     /\ Settle(c, "resolved")
  \/ /\ status = "loginPage"
     /\ Settle(c, "login")
  \/ /\ status \in {"retryable", "refused"}
     /\ pc' = [pc EXCEPT ![c] = status]
     /\ UNCHANGED outcome

(* The headers of the answer to the current attempt.                        *)
Respond(c) ==
  /\ pc[c] = "fetching"
  /\ answer[c] # "none"
  /\ Decide(c, answer[c])
  /\ Forgotten(c)
  /\ UNCHANGED <<attempt, wire, executed>>

(* The body, which no timeout watches any more.  One of an error that       *)
(* breaks counts as empty.                                                  *)
ReadBody(c) ==
  /\ \/ /\ pc[c] = "reading"
        /\ \E how \in {"resolved", "broken"} : Settle(c, how)
     \/ /\ pc[c] \in {"retryable", "refused"}
        /\ RetryOr(c, pc[c] = "retryable", "refused")
  /\ UNCHANGED <<attempt, wire, answer, executed>>

-----------------------------------------------------------------------------
(* The server                                                               *)

(* A request arrives.  The login gate and a proxy that is out of reach      *)
(* answer without the handler; only a handler answers with success.         *)
Handle(c) ==
  \E a \in 0..GetRetries, status \in Statuses, runs \in BOOLEAN :
    /\ <<c, a>> \in wire
    /\ status \in {"json", "noContent"} => runs
    /\ status = "loginPage" => ~runs
    /\ wire' = wire \ {<<c, a>>}
    /\ answer' = IF pc[c] = "fetching" /\ a = attempt[c]
                 THEN [answer EXCEPT ![c] = status] ELSE answer
    /\ executed' = [executed EXCEPT ![c] = @ + (IF runs THEN 1 ELSE 0)]
    /\ UNCHANGED <<pc, attempt, outcome>>

(* What happens to a call once it is made.                                  *)
Continue(c) ==
  \/ NextAttempt(c)
  \/ Timeout(c)
  \/ NetworkError(c)
  \/ Respond(c)
  \/ ReadBody(c)
  \/ Handle(c)

Next == \E c \in Calls : Request(c) \/ Continue(c)

Spec == Init /\ [][Next]_vars

-----------------------------------------------------------------------------
(* Properties                                                               *)

(* A POST never runs twice, whatever was lost and however late the first    *)
(* attempt is: its handler and the request still on its way make at most    *)
(* one together.                                                            *)
MutationRunsOnce ==
  \A c \in Mutations :
    executed[c] + (IF \E a \in 0..GetRetries : <<c, a>> \in wire THEN 1 ELSE 0) <= 1

(* A call resolves only if its handler ran: neither the login page of the   *)
(* tunnel nor an error on the way is taken for a result.                    *)
ResolvedMeansExecuted ==
  \A c \in Calls : outcome[c] = "resolved" => executed[c] > 0
=============================================================================
