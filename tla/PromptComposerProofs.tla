------------------------ MODULE PromptComposerProofs ------------------------
(***************************************************************************)
(* Proofs about ApiClient and PromptComposer: however attempts are lost,    *)
(* repeated and answered late, a POST runs at most once and what resolved   *)
(* was executed; and whatever the user does while a submit awaits, no draft *)
(* and no image is in two POSTs.                                            *)
(***************************************************************************)
EXTENDS PromptComposer, FiniteSetTheorems, TLAPS

(* Where a call can be, and where it awaits something.                      *)
Awaiting == {"fetching", "reading", "retryable", "refused"}
States == Awaiting \cup {"idle", "backoff", "settled"}

(* The types of the calls' fields.                                          *)
ApiTypeOK ==
  /\ pc \in [Calls -> States]
  /\ attempt \in [Calls -> Nat]
  /\ outcome \in [Calls -> {"none", "resolved", "broken", "refused", "login", "unreachable"}]
  /\ wire \subseteq Calls \X Nat
  /\ answer \in [Calls -> Statuses \cup {"none"}]
  /\ executed \in [Calls -> Nat]

Travels(c) == \E a \in 0..GetRetries : <<c, a>> \in wire

(* The strengthening of MutationRunsOnce: a POST has one attempt, which is  *)
(* not yet made, on its way, or used up.                                    *)
MutationInv ==
  \A c \in Mutations :
    /\ attempt[c] = 0 /\ pc[c] # "backoff"
    /\ \A a \in Nat : <<c, a>> \in wire => a = 0
    /\ pc[c] = "idle" => executed[c] = 0 /\ ~Travels(c)
    /\ Travels(c) => executed[c] = 0
    /\ executed[c] \in {0, 1}

(* The strengthening of ResolvedMeansExecuted: so does an answer on its way *)
(* that could resolve the call, and a body being read.                      *)
ResolvedInv ==
  \A c \in Calls :
    \/ answer[c] \in {"json", "noContent"}
    \/ pc[c] = "reading"
    \/ outcome[c] = "resolved"
    => executed[c] > 0

Contents == [text : 0..drafts, images : SUBSET (1..picked)]

ComposerTypeOK ==
  /\ drafts \in Nat /\ picked \in Nat
  /\ value \in 0..drafts
  /\ images \subseteq 1..picked
  /\ at \in {"idle", "optimizing", "ensuring", "posting"}
  /\ job \in Contents
  /\ carried \in [Mutations -> Contents]

(* Two contents of which no draft and no image is the same.                 *)
Apart(x, y) == (x.text = y.text => x.text = 0) /\ x.images \cap y.images = {}

(* The strengthening of SentOnce: but while the POST is awaited, what the   *)
(* composer shows was not sent; what submit() took was not sent before.     *)
FreshInv ==
  /\ \A c, d \in Mutations : c # d => Apart(carried[c], carried[d])
  /\ at # "posting" =>
       \A c \in Mutations : Apart([text |-> value, images |-> images], carried[c])
  /\ at \in {"optimizing", "ensuring"} => \A c \in Mutations : Apart(job, carried[c])

-----------------------------------------------------------------------------
(* ApiClient.                                                               *)

(* Every step keeps the types.                                              *)
LEMMA ApiTypeStep == ApiTypeOK /\ [Next]_vars => ApiTypeOK'
<1> SUFFICES ASSUME ApiTypeOK, [Next]_vars PROVE ApiTypeOK'
  OBVIOUS
<1>a. GetRetries \in Nat /\ 0 \in Nat
  BY ApiClientAssumption
<1>1. ASSUME NEW c \in Calls, Request(c) \/ NextAttempt(c) PROVE ApiTypeOK'
  <2>1. <<c, 0>> \in Calls \X Nat /\ <<c, attempt[c] + 1>> \in Calls \X Nat
    BY DEF ApiTypeOK
  <2>2. wire' \subseteq Calls \X Nat
    BY <1>1, <2>1 DEF Request, NextAttempt, ApiTypeOK
  <2>3. QED
    BY <1>1, <2>2 DEF Request, NextAttempt, ApiTypeOK, States, Awaiting
<1>2. ASSUME NEW c \in Calls, Timeout(c) \/ NetworkError(c) PROVE ApiTypeOK'
  BY <1>2 DEF Timeout, NetworkError, RetryOr, Settle, Forgotten, ApiTypeOK, States, Awaiting
<1>3. ASSUME NEW c \in Calls, Respond(c) PROVE ApiTypeOK'
  BY <1>3 DEF Respond, Decide, Settle, Forgotten, ApiTypeOK, States, Awaiting
<1>4. ASSUME NEW c \in Calls, ReadBody(c) PROVE ApiTypeOK'
  BY <1>4 DEF ReadBody, RetryOr, Settle, ApiTypeOK, States, Awaiting
<1>5. ASSUME NEW c \in Calls, Handle(c) PROVE ApiTypeOK'
  BY <1>5 DEF Handle, ApiTypeOK
<1>6. CASE UNCHANGED vars
  BY <1>6 DEF vars, ApiTypeOK
<1>7. QED
  BY <1>1, <1>2, <1>3, <1>4, <1>5, <1>6 DEF Next, Continue

(* A POST is never repeated: Retries is 0 for it.                           *)
LEMMA NoRetry ==
  ASSUME MutationInv, NEW c \in Mutations
  PROVE  ~MayRetry(c)
<1>1. c \notin Gets
  BY ApiClientAssumption
<1>2. QED
  BY <1>1 DEF MutationInv, MayRetry, Retries

(* What happens to a call leaves the others alone.                          *)
LEMMA OthersKept ==
  ASSUME ApiTypeOK, NEW c \in Calls, Request(c) \/ Continue(c), NEW d \in Calls, d # c
  PROVE  /\ pc'[d] = pc[d] /\ attempt'[d] = attempt[d] /\ executed'[d] = executed[d]
         /\ outcome'[d] = outcome[d] /\ answer'[d] = answer[d]
         /\ \A a \in Nat : <<d, a>> \in wire' <=> <<d, a>> \in wire
<1>1. CASE Request(c)
  BY <1>1 DEF Request, ApiTypeOK
<1>2. CASE NextAttempt(c)
  BY <1>2 DEF NextAttempt, ApiTypeOK
<1>3. CASE Timeout(c)
  BY <1>3 DEF Timeout, RetryOr, Settle, Forgotten, ApiTypeOK
<1>4. CASE NetworkError(c)
  BY <1>4 DEF NetworkError, RetryOr, Settle, Forgotten, ApiTypeOK
<1>5. CASE Respond(c)
  BY <1>5 DEF Respond, Decide, Settle, Forgotten, ApiTypeOK
<1>6. CASE ReadBody(c)
  BY <1>6 DEF ReadBody, RetryOr, Settle, ApiTypeOK
<1>7. CASE Handle(c)
  BY <1>7 DEF Handle, ApiTypeOK
<1>8. QED
  BY <1>1, <1>2, <1>3, <1>4, <1>5, <1>6, <1>7 DEF Continue

(* A POST that was made: what becomes of its one attempt.                   *)
Used(c) ==
  /\ attempt'[c] = 0 /\ pc'[c] \notin {"backoff", "idle"}
  /\ \A a \in Nat : <<c, a>> \in wire' => a = 0
  /\ Travels(c)' => executed'[c] = 0
  /\ executed'[c] \in {0, 1}

(* Every step keeps a POST to its one attempt.                              *)
LEMMA MutationStep == ApiTypeOK /\ MutationInv /\ [Next]_vars => MutationInv'
<1> SUFFICES ASSUME ApiTypeOK, MutationInv, [Next]_vars PROVE MutationInv'
  OBVIOUS
<1>a. /\ pc \in [Calls -> States]
      /\ attempt \in [Calls -> Nat] /\ executed \in [Calls -> Nat]
      /\ Mutations \subseteq Calls /\ 0..GetRetries \subseteq Nat
  BY ApiClientAssumption DEF ApiTypeOK, Calls
<1>b. ASSUME NEW c \in Mutations
      PROVE  /\ attempt[c] = 0 /\ pc[c] # "backoff"
             /\ \A a \in Nat : <<c, a>> \in wire => a = 0
             /\ pc[c] = "idle" => executed[c] = 0 /\ ~Travels(c)
             /\ Travels(c) => executed[c] = 0
             /\ executed[c] \in {0, 1}
  BY DEF MutationInv
<1>1. ASSUME NEW c \in Mutations, Request(c) PROVE Used(c)
  BY <1>1, <1>a, <1>b DEF Request, Used
<1>2. ASSUME NEW c \in Mutations, NextAttempt(c) PROVE FALSE
  BY <1>2, <1>b DEF NextAttempt
<1>3. ASSUME NEW c \in Mutations, pc[c] \in Awaiting,
             \E how \in Awaiting \cup {"settled"} : pc' = [pc EXCEPT ![c] = how],
             wire' \subseteq wire, UNCHANGED <<attempt, executed>>
      PROVE  Used(c)
  BY <1>3, <1>a, <1>b DEF Used, Travels, Awaiting
<1>4. ASSUME NEW c \in Mutations, Timeout(c) \/ NetworkError(c) \/ Respond(c) PROVE Used(c)
  <2>1. ~MayRetry(c)
    BY NoRetry
  <2>2. wire' \subseteq wire /\ pc[c] \in Awaiting /\ UNCHANGED <<attempt, executed>>
    BY <1>4 DEF Timeout, NetworkError, Respond, Awaiting
  <2>3. \E how \in Awaiting \cup {"settled"} : pc' = [pc EXCEPT ![c] = how]
    BY <1>4, <2>1 DEF Timeout, NetworkError, Respond, Decide, RetryOr, Settle, Awaiting
  <2>4. QED
    BY <1>3, <2>2, <2>3
<1>5. ASSUME NEW c \in Mutations, ReadBody(c) PROVE Used(c)
  <2>1. ~MayRetry(c)
    BY NoRetry
  <2>2. wire' \subseteq wire /\ pc[c] \in Awaiting /\ UNCHANGED <<attempt, executed>>
    BY <1>5 DEF ReadBody, Awaiting
  <2>3. \E how \in Awaiting \cup {"settled"} : pc' = [pc EXCEPT ![c] = how]
    BY <1>5, <2>1 DEF ReadBody, RetryOr, Settle
  <2>4. QED
    BY <1>3, <2>2, <2>3
<1>6. ASSUME NEW c \in Mutations, Handle(c) PROVE Used(c)
  <2>1. PICK a \in 0..GetRetries, runs \in BOOLEAN :
          /\ <<c, a>> \in wire /\ wire' = wire \ {<<c, a>>}
          /\ executed' = [executed EXCEPT ![c] = @ + (IF runs THEN 1 ELSE 0)]
          /\ UNCHANGED <<pc, attempt>>
    BY <1>6 DEF Handle
  <2>2. a = 0 /\ Travels(c)
    BY <1>a, <1>b, <2>1 DEF Travels
  <2>3. executed[c] = 0 /\ pc[c] # "idle"
    BY <1>b, <2>2
  <2>4. executed'[c] \in {0, 1}
    BY <1>a, <2>1, <2>3
  <2>5. \A b \in Nat : <<c, b>> \notin wire'
    BY <1>b, <2>1, <2>2
  <2>6. ~Travels(c)'
    BY <1>a, <2>5 DEF Travels
  <2>7. QED
    BY <1>b, <2>1, <2>3, <2>4, <2>5, <2>6 DEF Used
<1>7. ASSUME NEW c \in Calls, Request(c) \/ Continue(c) PROVE MutationInv'
  <2>1. c \in Mutations => Used(c)
    BY <1>1, <1>2, <1>4, <1>5, <1>6, <1>7 DEF Continue
  <2>2. ASSUME NEW d \in Mutations, d # c
        PROVE  /\ attempt'[d] = 0 /\ pc'[d] # "backoff"
               /\ \A a \in Nat : <<d, a>> \in wire' => a = 0
               /\ pc'[d] = "idle" => executed'[d] = 0 /\ ~Travels(d)'
               /\ Travels(d)' => executed'[d] = 0
               /\ executed'[d] \in {0, 1}
    <3>1. /\ pc'[d] = pc[d] /\ attempt'[d] = attempt[d] /\ executed'[d] = executed[d]
          /\ \A a \in Nat : <<d, a>> \in wire' <=> <<d, a>> \in wire
      BY <1>7, <1>a, <2>2, OthersKept
    <3>2. Travels(d)' <=> Travels(d)
      BY <1>a, <3>1 DEF Travels
    <3>3. QED
      BY <1>b, <3>1, <3>2
  <2>3. QED
    BY <2>1, <2>2 DEF MutationInv, Used
<1>8. CASE UNCHANGED vars
  BY <1>8 DEF vars, MutationInv, Travels
<1>9. QED
  BY <1>7, <1>8 DEF Next

(* Every step keeps results to what was executed.                           *)
LEMMA ResolvedStep == ApiTypeOK /\ ResolvedInv /\ [Next]_vars => ResolvedInv'
<1> SUFFICES ASSUME ApiTypeOK, ResolvedInv, [Next]_vars PROVE ResolvedInv'
  OBVIOUS
<1> DEFINE Says(c) == answer[c] \in {"json", "noContent"} \/ pc[c] = "reading" \/ outcome[c] = "resolved"
<1>1. ASSUME NEW c \in Calls, Request(c) \/ NextAttempt(c) \/ Timeout(c) \/ NetworkError(c)
      PROVE  (Says(c)' => Says(c)) /\ UNCHANGED executed
  BY <1>1 DEF Request, NextAttempt, Timeout, NetworkError, RetryOr, Settle, Forgotten, ApiTypeOK
<1>2. ASSUME NEW c \in Calls, Respond(c) PROVE (Says(c)' => Says(c)) /\ UNCHANGED executed
  BY <1>2 DEF Respond, Decide, Settle, Forgotten, ApiTypeOK
<1>3. ASSUME NEW c \in Calls, ReadBody(c) PROVE (Says(c)' => Says(c)) /\ UNCHANGED executed
  BY <1>3 DEF ReadBody, RetryOr, Settle, ApiTypeOK
<1>4. ASSUME NEW c \in Calls, Handle(c) PROVE Says(c)' => executed'[c] > 0
  <2>1. PICK status \in Statuses, runs \in BOOLEAN :
          /\ status \in {"json", "noContent"} => runs
          /\ answer'[c] \in {status, answer[c]}
          /\ executed'[c] = executed[c] + (IF runs THEN 1 ELSE 0)
          /\ UNCHANGED <<pc, outcome>>
    BY <1>4 DEF Handle, ApiTypeOK
  <2>2. executed[c] \in Nat
    BY DEF ApiTypeOK
  <2>3. CASE runs
    BY <2>1, <2>2, <2>3
  <2>4. CASE ~runs
    BY <2>1, <2>2, <2>4 DEF ResolvedInv
  <2>5. QED
    BY <2>3, <2>4
<1>5. ASSUME NEW c \in Calls, Request(c) \/ Continue(c) PROVE ResolvedInv'
  <2>1. Says(c)' => executed'[c] > 0
    BY <1>1, <1>2, <1>3, <1>4, <1>5 DEF Continue, ResolvedInv
  <2>2. \A d \in Calls : d # c => (Says(d)' => executed'[d] > 0)
    BY <1>5, OthersKept DEF ResolvedInv
  <2>3. QED
    BY <2>1, <2>2 DEF ResolvedInv
<1>6. CASE UNCHANGED vars
  BY <1>6 DEF vars, ResolvedInv
<1>7. QED
  BY <1>5, <1>6 DEF Next

(* Whatever calls are made: the three invariants of ApiClient.              *)
ApiInv == ApiTypeOK /\ MutationInv /\ ResolvedInv

LEMMA ApiInit == Init => ApiInv
<1> SUFFICES ASSUME Init PROVE ApiInv
  OBVIOUS
<1>1. ApiTypeOK
  BY DEF Init, ApiTypeOK, States
<1>2. MutationInv
  BY DEF Init, MutationInv, Travels, Calls
<1>3. ResolvedInv
  BY DEF Init, ResolvedInv
<1>4. QED
  BY <1>1, <1>2, <1>3 DEF ApiInv

LEMMA ApiStep == ApiInv /\ [Next]_vars => ApiInv'
BY ApiTypeStep, MutationStep, ResolvedStep DEF ApiInv

LEMMA ApiImplies == ApiInv => MutationRunsOnce /\ ResolvedMeansExecuted
<1> SUFFICES ASSUME ApiInv PROVE MutationRunsOnce /\ ResolvedMeansExecuted
  OBVIOUS
<1>1. MutationRunsOnce
  BY DEF ApiInv, MutationInv, Travels, MutationRunsOnce
<1>2. ResolvedMeansExecuted
  BY DEF ApiInv, ResolvedInv, ResolvedMeansExecuted
<1>3. QED
  BY <1>1, <1>2

(* A POST runs at most once.                                                *)
THEOREM PostRunsOnce == Spec => []MutationRunsOnce
BY ApiInit, ApiStep, ApiImplies, PTL DEF Spec

(* A call that resolved was executed.                                       *)
THEOREM ResolvedWasExecuted == Spec => []ResolvedMeansExecuted
BY ApiInit, ApiStep, ApiImplies, PTL DEF Spec

-----------------------------------------------------------------------------
(* PromptComposer.                                                          *)

(* The POST of a turn is a call that was not made yet.                      *)
LEMMA PostTurnRequests ==
  ASSUME PostTurn
  PROVE  \E c \in Mutations : Request(c) /\ carried' = [carried EXCEPT ![c] = job]
<1> DEFINE c == CHOOSE c \in Mutations : pc[c] = "idle"
<1>1. c \in Mutations
  BY DEF PostTurn
<1>2. QED
  BY <1>1 DEF PostTurn

(* A step of the composer makes a call, goes on with one, or neither.       *)
LEMMA ComposerCalls == [ComposerNext]_allVars => [Next]_vars
<1> SUFFICES ASSUME ComposerNext PROVE [Next]_vars
  BY DEF allVars
<1>1. CASE PostTurn
  <2>1. PICK c \in Mutations : Request(c)
    BY <1>1, PostTurnRequests
  <2>2. QED
    BY <2>1 DEF Next, Calls
<1>2. CASE \E c \in Calls : (c \in Gets /\ Request(c)) \/ Continue(c)
  BY <1>2 DEF Next
<1>3. CASE \/ Type \/ OpenChooser \/ SelectImages \/ \E i \in images : RemoveAttachment(i)
           \/ Submit \/ Optimized \/ OptimizeFails \/ EnsureFails \/ SubmitOver
  BY <1>3 DEF Type, OpenChooser, SelectImages, RemoveAttachment, Submit, Optimized,
              OptimizeFails, EnsureFails, SubmitOver
<1>4. QED
  BY <1>1, <1>2, <1>3 DEF ComposerNext

(* Every step keeps the types of the composer.                              *)
LEMMA ComposerTypeStep == ComposerTypeOK /\ [ComposerNext]_allVars => ComposerTypeOK'
<1> SUFFICES ASSUME ComposerTypeOK, [ComposerNext]_allVars PROVE ComposerTypeOK'
  OBVIOUS
<1>a. /\ drafts \in Nat /\ picked \in Nat /\ value \in 0..drafts /\ images \subseteq 1..picked
      /\ job \in Contents /\ carried \in [Mutations -> Contents]
      /\ at \in {"idle", "optimizing", "ensuring", "posting"}
  BY DEF ComposerTypeOK
<1>b. Empty \in Contents
  BY <1>a DEF Empty, Contents
<1>1. CASE Type
  <2>1. drafts' = drafts + 1 /\ value' = drafts + 1 /\ UNCHANGED <<images, picked, at, job, carried>>
    BY <1>1 DEF Type
  <2>2. Contents \subseteq Contents'
    BY <1>a, <2>1 DEF Contents
  <2>3. QED
    BY <1>a, <2>1, <2>2 DEF ComposerTypeOK
<1>2. CASE SelectImages
  <2>1. PICK n \in 0..MaxPicked :
          /\ picked' = picked + n
          /\ images' = images \cup
               {picked + k : k \in {k \in 1..n : k <= MaxImages - Cardinality(images)}}
    BY <1>2 DEF SelectImages
  <2>2. n \in Nat /\ UNCHANGED <<value, drafts, at, job, carried>>
    BY <1>2, ComposerAssumption DEF SelectImages
  <2>3. picked' \in Nat /\ images' \subseteq 1..picked' /\ 1..picked \subseteq 1..picked'
    <3>1. picked' \in Nat /\ 1..picked \subseteq 1..picked'
      BY <1>a, <2>1, <2>2
    <3>2. \A k \in 1..n : picked + k \in 1..picked'
      BY <1>a, <2>1, <2>2
    <3>3. QED
      BY <1>a, <2>1, <3>1, <3>2
  <2>4. Contents \subseteq Contents'
    BY <2>2, <2>3 DEF Contents
  <2>5. QED
    BY <1>a, <2>2, <2>3, <2>4 DEF ComposerTypeOK
<1>3. ASSUME UNCHANGED <<drafts, picked>>, value' \in 0..drafts, images' \subseteq 1..picked,
             at' \in {"idle", "optimizing", "ensuring", "posting"}, job' \in Contents,
             carried' \in [Mutations -> Contents]
      PROVE  ComposerTypeOK'
  BY <1>3, <1>a DEF ComposerTypeOK, Contents
<1>4. CASE Type \/ SelectImages
  BY <1>1, <1>2, <1>4
<1>5. CASE OpenChooser \/ (\E i \in images : RemoveAttachment(i))
  BY <1>5, <1>3, <1>a DEF OpenChooser, RemoveAttachment
<1>6. CASE Submit
  <2>1. job' \in Contents
    BY <1>6, <1>a DEF Submit, Contents
  <2>2. QED
    BY <1>6, <1>3, <1>a, <2>1 DEF Submit
<1>7. CASE Optimized \/ OptimizeFails
  BY <1>7, <1>3, <1>a, <1>b DEF Optimized, OptimizeFails
<1>8. CASE EnsureFails \/ SubmitOver
  BY <1>8, <1>3, <1>a, <1>b DEF EnsureFails, SubmitOver, EmptyComposer
<1>9. CASE PostTurn
  BY <1>9, <1>3, <1>a DEF PostTurn
<1>10. CASE UNCHANGED composerVars
  BY <1>10, <1>3, <1>a DEF composerVars
<1>11. QED
  BY <1>4, <1>5, <1>6, <1>7, <1>8, <1>9, <1>10 DEF ComposerNext, allVars

(* Every step keeps what was sent apart from what is to be sent.            *)
LEMMA FreshStep == ComposerTypeOK /\ FreshInv /\ [ComposerNext]_allVars => FreshInv'
<1> SUFFICES ASSUME ComposerTypeOK, FreshInv, [ComposerNext]_allVars PROVE FreshInv'
  OBVIOUS
<1> DEFINE shown == [text |-> value, images |-> images]
<1>a. /\ drafts \in Nat /\ picked \in Nat /\ value \in 0..drafts /\ images \subseteq 1..picked
      /\ job \in Contents /\ carried \in [Mutations -> Contents]
  BY DEF ComposerTypeOK
<1>b. \A c \in Mutations : carried[c].text \in 0..drafts /\ carried[c].images \subseteq 1..picked
  BY <1>a DEF Contents
<1>c. \A c, d \in Mutations : c # d => Apart(carried[c], carried[d])
  BY DEF FreshInv
<1>1. ASSUME UNCHANGED carried,
             at' # "posting" => \A c \in Mutations : Apart(shown', carried[c]),
             at' \in {"optimizing", "ensuring"} => \A c \in Mutations : Apart(job', carried[c])
      PROVE  FreshInv'
  BY <1>1 DEF FreshInv, Apart
<1>2. CASE Type
  <2>1. UNCHANGED <<carried, at, job, images>> /\ value' = drafts + 1
    BY <1>2 DEF Type
  <2>2. at' # "posting" => \A c \in Mutations : Apart(shown', carried[c])
    BY <1>a, <1>b, <2>1 DEF Apart, FreshInv
  <2>3. QED
    BY <1>1, <2>1, <2>2 DEF FreshInv
<1>3. CASE SelectImages
  <2>1. PICK n \in 0..MaxPicked : images' = images \cup
          {picked + k : k \in {k \in 1..n : k <= MaxImages - Cardinality(images)}}
    BY <1>3 DEF SelectImages
  <2>2. UNCHANGED <<carried, at, job, value>>
    BY <1>3 DEF SelectImages
  <2>3. \A i \in images' \ images : i \notin 1..picked
    BY <1>a, <2>1
  <2>4. at' # "posting" => \A c \in Mutations : Apart(shown', carried[c])
    BY <1>b, <2>2, <2>3 DEF Apart, FreshInv
  <2>5. QED
    BY <1>1, <2>2, <2>4 DEF FreshInv
<1>4. CASE OpenChooser \/ UNCHANGED composerVars
  BY <1>4, <1>1 DEF OpenChooser, composerVars, FreshInv
<1>5. CASE \E i \in images : RemoveAttachment(i)
  <2>1. images' \subseteq images /\ UNCHANGED <<carried, at, job, value>>
    BY <1>5 DEF RemoveAttachment
  <2>2. at' # "posting" => \A c \in Mutations : Apart(shown', carried[c])
    BY <2>1 DEF Apart, FreshInv
  <2>3. QED
    BY <1>1, <2>1, <2>2 DEF FreshInv
<1>6. CASE Submit
  BY <1>6, <1>1 DEF Submit, FreshInv
<1>7. CASE Optimized \/ OptimizeFails
  BY <1>7, <1>1 DEF Optimized, OptimizeFails, FreshInv
<1>8. CASE EnsureFails \/ SubmitOver
  <2>1. value' = 0 /\ images' = {} /\ at' = "idle" /\ UNCHANGED carried
    BY <1>8 DEF EnsureFails, SubmitOver, EmptyComposer
  <2>2. \A c \in Mutations : Apart(shown', carried[c])
    BY <1>b, <2>1 DEF Apart
  <2>3. QED
    BY <1>1, <2>1, <2>2
<1>9. CASE PostTurn
  <2>1. PICK c \in Mutations : carried' = [carried EXCEPT ![c] = job]
    BY <1>9, PostTurnRequests
  <2>2. at = "ensuring" /\ at' = "posting"
    BY <1>9 DEF PostTurn
  <2>3. \A d \in Mutations : Apart(job, carried[d]) /\ Apart(carried[d], job)
    BY <2>2 DEF FreshInv, Apart
  <2>4. \A d \in Mutations : carried'[d] = IF d = c THEN job ELSE carried[d]
    BY <1>a, <2>1
  <2>5. \A d, e \in Mutations : d # e => Apart(carried[d], carried[e])'
    BY <1>c, <2>3, <2>4 DEF Apart
  <2>6. QED
    BY <2>2, <2>5 DEF FreshInv
<1>10. QED
  BY <1>2, <1>3, <1>4, <1>5, <1>6, <1>7, <1>8, <1>9 DEF ComposerNext, allVars

(* The composer's calls are ApiClient's, and the drafts are kept apart.     *)
LEMMA ComposerAlways == ComposerSpec => [](ApiInv /\ ComposerTypeOK /\ FreshInv)
<1>1. ComposerInit => ApiInv /\ ComposerTypeOK /\ FreshInv
  <2> SUFFICES ASSUME ComposerInit PROVE ApiInv /\ ComposerTypeOK /\ FreshInv
    OBVIOUS
  <2>1. ApiInv
    BY ApiInit DEF ComposerInit
  <2>2. ComposerTypeOK
    BY DEF ComposerInit, ComposerTypeOK, Contents, Empty
  <2>3. FreshInv
    BY DEF ComposerInit, FreshInv, Apart, Empty
  <2>4. QED
    BY <2>1, <2>2, <2>3
<1>2. QED
  BY <1>1, ApiStep, ComposerCalls, ComposerTypeStep, FreshStep, PTL DEF ComposerSpec

(* A set without two members has at most one.                               *)
LEMMA AtMostOne ==
  ASSUME NEW S, \A x, y \in S : x = y
  PROVE  Cardinality(S) <= 1
<1>1. CASE S = {}
  BY <1>1, FS_EmptySet
<1>2. ASSUME NEW x \in S PROVE Cardinality(S) <= 1
  <2>1. S = {x}
    OBVIOUS
  <2>2. Cardinality({x}) = 1
    BY FS_Singleton
  <2>3. QED
    BY <2>1, <2>2
<1>3. QED
  BY <1>1, <1>2

(* No draft and no image is sent twice, by two POSTs or by one.             *)
THEOREM DraftsSentOnce == ComposerSpec => [](SentOnce /\ MutationRunsOnce)
<1>1. FreshInv => SentOnce
  <2> SUFFICES ASSUME FreshInv PROVE SentOnce
    OBVIOUS
  <2>1. \A c, d \in Mutations : c # d => Apart(carried[c], carried[d])
    BY DEF FreshInv
  <2>2. ASSUME NEW t \in 1..drafts
        PROVE  Cardinality({c \in Mutations : executed[c] > 0 /\ carried[c].text = t}) <= 1
    <3> DEFINE S == {c \in Mutations : executed[c] > 0 /\ carried[c].text = t}
    <3>1. \A x, y \in S : x = y
      BY <2>1 DEF Apart
    <3>2. QED
      BY <3>1, AtMostOne
  <2>3. ASSUME NEW i \in 1..picked
        PROVE  Cardinality({c \in Mutations : executed[c] > 0 /\ i \in carried[c].images}) <= 1
    <3> DEFINE S == {c \in Mutations : executed[c] > 0 /\ i \in carried[c].images}
    <3>1. \A x, y \in S : x = y
      BY <2>1 DEF Apart
    <3>2. QED
      BY <3>1, AtMostOne
  <2>4. QED
    BY <2>2, <2>3 DEF SentOnce
<1>2. QED
  BY <1>1, ApiImplies, ComposerAlways, PTL
=============================================================================
