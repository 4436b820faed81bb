------------------------ MODULE ApprovalBannerProofs ------------------------
(***************************************************************************)
(* Proofs about ApprovalBanner: for any number of pages, requests, clicks   *)
(* and incarnations of codex, a request that waits stays on the screens     *)
(* that were told of it, and one decision counts.                           *)
(***************************************************************************)
EXTENDS ApprovalBanner, FiniteSetTheorems, SequenceTheorems, TLAPS

Posts == [page : Pages, request : Nat, at : {"posted", "ok", "responding", "notFound"},
          awaited : BOOLEAN]

DeskTypeOK ==
  /\ started \in Nat
  /\ living \subseteq 1..started
  /\ asks \in Seq([codex : Nat, id : Nat, kind : ApprovalKinds])
  /\ \A r \in DOMAIN asks : asks[r].codex \in 1..started
  /\ approvals \subseteq DOMAIN asks
  /\ answered \subseteq DOMAIN asks

PagesTypeOK ==
  /\ feed \in [Pages -> Seq(DOMAIN asks)]
  /\ banner \in [Pages -> SUBSET DOMAIN asks]
  /\ told \in [Pages -> SUBSET DOMAIN asks]
  /\ posts \in Seq(Posts)
  /\ \A n \in DOMAIN posts : posts[n].request \in DOMAIN asks
  /\ reloads \in Nat

(* Incarnations have been started and requests have been made before        *)
(* anybody speaks of them.                                                  *)
TypeOK == DeskTypeOK /\ PagesTypeOK

(* What the answers to the POSTs say of the service.  The strengthening of  *)
(* OneDecisionCounts, and what ShownWhilePending needs.                     *)
DecisionsInv ==
  /\ \A r \in DOMAIN asks : asks[r].codex \in living => r \in approvals \cup answered
  /\ \A n \in DOMAIN posts :
       /\ posts[n].at \in {"ok", "notFound"} => posts[n].request \notin approvals
       /\ posts[n].at = "responding" => asks[posts[n].request].codex \notin living
  /\ \A r \in DOMAIN asks \ approvals : asks[r].codex \in living =>
       \E n \in DOMAIN posts : posts[n].request = r /\ posts[n].at = "ok"
  /\ \A m, n \in DOMAIN posts :
       /\ posts[m].at = "ok" /\ posts[n].at = "ok"
       /\ posts[m].request = posts[n].request
       /\ asks[posts[n].request].codex \in living
       => m = n

-----------------------------------------------------------------------------
(* A request of codex: one more, and nobody has spoken of it.               *)
LEMMA AsksGrow ==
  ASSUME DeskTypeOK, NEW c \in living, NEW kind \in ApprovalKinds, Asks(c, kind)
  PROVE  /\ Len(asks) + 1 \notin DOMAIN asks
         /\ DOMAIN asks' = DOMAIN asks \cup {Len(asks) + 1}
         /\ \A r \in DOMAIN asks : asks'[r] = asks[r]
         /\ asks'[Len(asks) + 1].codex = c
         /\ asks' \in Seq([codex : Nat, id : Nat, kind : ApprovalKinds])
<1>1. /\ asks \in Seq([codex : Nat, id : Nat, kind : ApprovalKinds])
      /\ c \in Nat
  BY DEF DeskTypeOK
<1>2. NextId(c) \in Nat
  <2>1. DOMAIN asks = 1..Len(asks) /\ Len(asks) \in Nat
    BY <1>1
  <2>2. IsFiniteSet(DOMAIN asks)
    BY <2>1, FS_Interval
  <2>3. IsFiniteSet({r \in DOMAIN asks : asks[r].codex = c})
    BY <2>2, FS_Subset
  <2>4. QED
    BY <2>3, FS_CardinalityType DEF NextId
<1>3. asks' = Append(asks, [codex |-> c, id |-> NextId(c), kind |-> kind])
  BY DEF Asks, Ask
<1>4. QED
  BY <1>1, <1>2, <1>3

(* The handlers and the answers change posts in one place.                  *)
LEMMA PostChanges ==
  ASSUME PagesTypeOK, NEW n \in DOMAIN posts, NEW how \in {"ok", "responding", "notFound"},
         posts' = [posts EXCEPT ![n].at = how]
  PROVE  /\ posts' \in Seq(Posts) /\ DOMAIN posts' = DOMAIN posts
         /\ posts'[n].at = how
         /\ \A m \in DOMAIN posts : posts'[m].request = posts[m].request
         /\ \A m \in DOMAIN posts : m # n => posts'[m] = posts[m]
<1>1. posts \in Seq(Posts) /\ posts[n] \in Posts
  BY DEF PagesTypeOK
<1>2. [posts[n] EXCEPT !.at = how] \in Posts
  BY <1>1 DEF Posts
<1>3. posts' = [posts EXCEPT ![n] = [posts[n] EXCEPT !.at = how]]
  OBVIOUS
<1>4. posts' \in Seq(Posts) /\ DOMAIN posts' = DOMAIN posts
  BY <1>1, <1>2, <1>3
<1>5. QED
  BY <1>1, <1>3, <1>4 DEF Posts

(* Nor does the page that stops waiting for some change what was decided.   *)
LEMMA PostsKept ==
  ASSUME DecisionsInv, UNCHANGED deskVars, DOMAIN posts' = DOMAIN posts,
         \A m \in DOMAIN posts : posts'[m].request = posts[m].request /\ posts'[m].at = posts[m].at
  PROVE  DecisionsInv'
  BY DEF DecisionsInv, deskVars

LEMMA AwaitedChanges ==
  ASSUME PagesTypeOK, NEW n \in DOMAIN posts, posts' = [posts EXCEPT ![n].awaited = FALSE]
  PROVE  /\ posts' \in Seq(Posts) /\ DOMAIN posts' = DOMAIN posts
         /\ \A m \in DOMAIN posts : posts'[m].request = posts[m].request /\ posts'[m].at = posts[m].at
<1>1. posts \in Seq(Posts) /\ posts[n] \in Posts
  BY DEF PagesTypeOK
<1>2. [posts[n] EXCEPT !.awaited = FALSE] \in Posts
  BY <1>1 DEF Posts
<1>3. posts' = [posts EXCEPT ![n] = [posts[n] EXCEPT !.awaited = FALSE]]
  OBVIOUS
<1>4. posts' \in Seq(Posts) /\ DOMAIN posts' = DOMAIN posts
  BY <1>1, <1>2, <1>3
<1>5. QED
  BY <1>1, <1>3, <1>4 DEF Posts

LEMMA ReloadChanges ==
  ASSUME PagesTypeOK, NEW p \in Pages, Reload(p)
  PROVE  /\ posts' \in Seq(Posts) /\ DOMAIN posts' = DOMAIN posts
         /\ \A m \in DOMAIN posts : posts'[m].request = posts[m].request /\ posts'[m].at = posts[m].at
<1>1. posts \in Seq(Posts) /\ \A n \in DOMAIN posts : posts[n] \in Posts
  BY DEF PagesTypeOK
<1>2. posts' = [n \in DOMAIN posts |-> [posts[n] EXCEPT !.awaited = @ /\ posts[n].page # p]]
  BY DEF Reload
<1>3. \A n \in DOMAIN posts : posts'[n] \in Posts
  BY <1>1, <1>2 DEF Posts
<1>4. QED
  BY <1>1, <1>2, <1>3 DEF Posts

-----------------------------------------------------------------------------
(* Every step keeps the types.                                              *)
LEMMA TypeStep == TypeOK /\ [Next]_vars => TypeOK'
<1> SUFFICES ASSUME TypeOK, [Next]_vars PROVE TypeOK'
  OBVIOUS
<1>a. /\ feed \in [Pages -> Seq(DOMAIN asks)] /\ posts \in Seq(Posts)
      /\ banner \in [Pages -> SUBSET DOMAIN asks] /\ told \in [Pages -> SUBSET DOMAIN asks]
      /\ DeskTypeOK /\ PagesTypeOK
  BY DEF TypeOK, PagesTypeOK
<1>b. ASSUME UNCHANGED deskVars PROVE DeskTypeOK'
  BY <1>a, <1>b DEF DeskTypeOK, deskVars
<1>c. ASSUME NEW n \in DOMAIN posts, NEW how \in {"ok", "responding", "notFound"},
             Reply(n, how), UNCHANGED asks
      PROVE  PagesTypeOK'
  BY <1>a, <1>c, PostChanges DEF Reply, PagesTypeOK
<1>1. CASE Codex
  <2>1. DeskTypeOK'
    <3>1. CASE CodexStarts
      BY <1>a, <3>1 DEF CodexStarts, Starts, DeskTypeOK
    <3>2. CASE \E c \in living : CodexExits(c)
      BY <1>a, <3>2 DEF CodexExits, DeskTypeOK
    <3>3. QED
      BY <1>1, <3>1, <3>2 DEF Codex
  <2>2. PagesTypeOK'
    BY <1>1, <1>a DEF Codex, CodexStarts, CodexExits, pageVars, PagesTypeOK
  <2>3. QED
    BY <2>1, <2>2 DEF TypeOK
<1>2. ASSUME NEW c \in living, NEW kind \in ApprovalKinds, HandleServerRequest(c, kind)
      PROVE  TypeOK'
  <2>1. Asks(c, kind) /\ c \in 1..started
    BY <1>2, <1>a DEF HandleServerRequest, DeskTypeOK
  <2>2. /\ DOMAIN asks' = DOMAIN asks \cup {Len(asks) + 1}
        /\ \A r \in DOMAIN asks : asks'[r] = asks[r]
        /\ asks'[Len(asks) + 1].codex = c
        /\ asks' \in Seq([codex : Nat, id : Nat, kind : ApprovalKinds])
    BY <1>a, <2>1, AsksGrow
  <2>3. DeskTypeOK'
    BY <1>a, <2>1, <2>2 DEF Asks, DeskTypeOK
  <2>4. \A p \in Pages : Append(feed[p], Len(asks) + 1) \in Seq(DOMAIN asks')
    BY <1>a, <2>2
  <2>5. feed' \in [Pages -> Seq(DOMAIN asks')] /\ told' \in [Pages -> SUBSET DOMAIN asks']
    BY <1>2, <1>a, <2>2, <2>4 DEF HandleServerRequest
  <2>6. QED
    BY <1>2, <1>a, <2>2, <2>3, <2>5 DEF HandleServerRequest, TypeOK, PagesTypeOK
<1>3. ASSUME NEW n \in DOMAIN posts, Handle(n) PROVE TypeOK'
  <2>1. UNCHANGED asks
    BY <1>3 DEF Handle, Decide, deskVars
  <2>2. DeskTypeOK'
    BY <1>3, <1>a, <1>b DEF Handle, Decide, DeskTypeOK
  <2>3. PagesTypeOK'
    BY <1>3, <1>c, <2>1 DEF Handle
  <2>4. QED
    BY <2>2, <2>3 DEF TypeOK
<1>4. ASSUME NEW n \in DOMAIN posts, Written(n) PROVE TypeOK'
  <2>1. UNCHANGED asks
    BY <1>4 DEF Written, Discard, Repeat, deskVars
  <2>2. DeskTypeOK'
    BY <1>4, <1>a, <1>b DEF Written, Discard, Repeat, Reaches, DeskTypeOK
  <2>3. PagesTypeOK'
    BY <1>4, <1>c, <2>1 DEF Written
  <2>4. QED
    BY <2>2, <2>3 DEF TypeOK
<1>5. ASSUME NEW n \in DOMAIN posts, OnDecided(n) \/ OnDecisionFailed(n) PROVE TypeOK'
  <2>1. posts' = [posts EXCEPT ![n].awaited = FALSE] /\ UNCHANGED <<deskVars, feed, reloads, told>>
    BY <1>5 DEF OnDecided, OnDecisionFailed
  <2>2. UNCHANGED asks /\ banner' \in [Pages -> SUBSET DOMAIN asks]
    BY <1>5, <1>a, ZenonT(30) DEF OnDecided, OnDecisionFailed, deskVars
  <2>3. QED
    BY <1>a, <1>b, <2>1, <2>2, AwaitedChanges DEF TypeOK, PagesTypeOK
<1>6. ASSUME NEW p \in Pages, OnRequested(p) PROVE TypeOK'
  <2>1. feed[p] # <<>> /\ feed[p] \in Seq(DOMAIN asks)
    BY <1>6, <1>a DEF OnRequested
  <2>2. Head(feed[p]) \in DOMAIN asks /\ Tail(feed[p]) \in Seq(DOMAIN asks)
    BY <2>1, HeadTailProperties
  <2>3. feed' \in [Pages -> Seq(DOMAIN asks)] /\ banner' \in [Pages -> SUBSET DOMAIN asks]
    BY <1>6, <1>a, <2>2 DEF OnRequested
  <2>4. QED
    BY <1>6, <1>a, <1>b, <2>3 DEF OnRequested, TypeOK, PagesTypeOK, deskVars
<1>7. ASSUME NEW p \in Pages, Reload(p) PROVE TypeOK'
  <2>1. <<>> \in Seq(DOMAIN asks)
    OBVIOUS
  <2>2. /\ feed' \in [Pages -> Seq(DOMAIN asks)] /\ banner' \in [Pages -> SUBSET DOMAIN asks]
        /\ told' \in [Pages -> SUBSET DOMAIN asks] /\ reloads' \in Nat
    BY <1>7, <1>a, <2>1 DEF Reload, PagesTypeOK
  <2>3. QED
    BY <1>7, <1>a, <1>b, <2>2, ReloadChanges DEF Reload, TypeOK, PagesTypeOK, deskVars
<1>8. ASSUME NEW p \in Pages, NEW r \in banner[p], Click(p, r) PROVE TypeOK'
  <2>1. r \in DOMAIN asks /\ DOMAIN asks \subseteq Nat
    BY <1>a DEF DeskTypeOK
  <2>2. [page |-> p, request |-> r, at |-> "posted", awaited |-> TRUE] \in Posts
    BY <2>1 DEF Posts
  <2>3. posts' = Append(posts, [page |-> p, request |-> r, at |-> "posted", awaited |-> TRUE])
    BY <1>8 DEF Click
  <2>4. posts' \in Seq(Posts) /\ \A n \in DOMAIN posts' : posts'[n].request \in DOMAIN asks
    BY <1>a, <2>1, <2>2, <2>3 DEF PagesTypeOK
  <2>5. QED
    BY <1>8, <1>a, <1>b, <2>4 DEF Click, TypeOK, PagesTypeOK, deskVars
<1>9. CASE UNCHANGED vars
  BY <1>9, <1>a, <1>b DEF vars, pageVars, deskVars, TypeOK, PagesTypeOK
<1>10. QED
  BY <1>1, <1>2, <1>3, <1>4, <1>5, <1>6, <1>7, <1>8, <1>9 DEF Next

(* The requests, the decisions and the pages speak of what there is.        *)
LEMMA TypeAlways == Spec => []TypeOK
<1>1. Init => TypeOK
  <2> SUFFICES ASSUME Init PROVE TypeOK
    OBVIOUS
  <2>1. <<>> \in Seq(DOMAIN asks) /\ <<>> \in Seq(Posts) /\ DOMAIN asks = {}
        /\ <<>> \in Seq([codex : Nat, id : Nat, kind : ApprovalKinds])
    BY DEF Init, DeskInit
  <2>2. DeskTypeOK
    BY <2>1 DEF Init, DeskInit, DeskTypeOK
  <2>3. PagesTypeOK
    BY <2>1 DEF Init, DeskInit, PagesTypeOK
  <2>4. QED
    BY <2>2, <2>3 DEF TypeOK
<1>2. QED
  BY <1>1, TypeStep, PTL DEF Spec

-----------------------------------------------------------------------------
(* Every step keeps what the answers say true.                              *)
LEMMA DecisionsStep == TypeOK /\ DecisionsInv /\ [Next]_vars => DecisionsInv'
<1> SUFFICES ASSUME TypeOK, DecisionsInv, [Next]_vars PROVE DecisionsInv'
  OBVIOUS
<1>a. DeskTypeOK /\ PagesTypeOK
  BY DEF TypeOK
<1>1. CASE Codex
  <2>1. UNCHANGED <<asks, approvals, answered, posts>>
    BY <1>1 DEF Codex, CodexStarts, Starts, CodexExits, pageVars
  <2>2. \A r \in DOMAIN asks : asks[r].codex \in living' => asks[r].codex \in living
    BY <1>1, <1>a DEF Codex, CodexStarts, Starts, CodexExits, DeskTypeOK
  <2>3. \A n \in DOMAIN posts : posts[n].request \in DOMAIN asks
    BY <1>a DEF PagesTypeOK
  <2>4. QED
    BY <2>1, <2>2, <2>3 DEF DecisionsInv
<1>2. ASSUME NEW c \in living, NEW kind \in ApprovalKinds, HandleServerRequest(c, kind)
      PROVE  DecisionsInv'
  <2>1. /\ approvals' = approvals \cup {Len(asks) + 1}
        /\ UNCHANGED <<living, posts>> /\ Asks(c, kind) /\ answered \subseteq answered'
    BY <1>2 DEF HandleServerRequest, Asks
  <2>2. /\ Len(asks) + 1 \notin DOMAIN asks
        /\ DOMAIN asks' = DOMAIN asks \cup {Len(asks) + 1}
        /\ \A r \in DOMAIN asks : asks'[r] = asks[r]
    BY <1>a, <2>1, AsksGrow
  <2>3. \A n \in DOMAIN posts : posts[n].request \in DOMAIN asks
    BY <1>a DEF PagesTypeOK
  <2>4. \A r \in DOMAIN asks' \ approvals' : asks'[r].codex \in living' =>
          \E n \in DOMAIN posts' : posts'[n].request = r /\ posts'[n].at = "ok"
    BY <2>1, <2>2 DEF DecisionsInv
  <2>5. \A r \in DOMAIN asks' : asks'[r].codex \in living' => r \in approvals' \cup answered'
    BY <2>1, <2>2 DEF DecisionsInv
  <2>6. \A n \in DOMAIN posts' :
          /\ posts'[n].at \in {"ok", "notFound"} => posts'[n].request \notin approvals'
          /\ posts'[n].at = "responding" => asks'[posts'[n].request].codex \notin living'
    BY <2>1, <2>2, <2>3 DEF DecisionsInv
  <2>7. \A m, n \in DOMAIN posts' :
          /\ posts'[m].at = "ok" /\ posts'[n].at = "ok"
          /\ posts'[m].request = posts'[n].request
          /\ asks'[posts'[n].request].codex \in living'
          => m = n
    BY <2>1, <2>2, <2>3 DEF DecisionsInv
  <2>8. QED
    BY <2>1, <2>4, <2>5, <2>6, <2>7 DEF DecisionsInv
<1>3. ASSUME NEW n \in DOMAIN posts, Decide(posts[n].request), Reply(n, "ok") PROVE DecisionsInv'
  <2> DEFINE r == posts[n].request
  <2>1. /\ r \in approvals /\ asks[r].codex \in living
        /\ approvals' = approvals \ {r} /\ answered' = answered \cup {r}
        /\ UNCHANGED <<asks, living>>
    BY <1>3 DEF Decide
  <2>2. /\ DOMAIN posts' = DOMAIN posts /\ posts'[n].at = "ok"
        /\ \A m \in DOMAIN posts : posts'[m].request = posts[m].request
        /\ \A m \in DOMAIN posts : m # n => posts'[m] = posts[m]
    BY <1>3, <1>a, PostChanges DEF Reply
  <2>4. \A q \in DOMAIN asks' : asks'[q].codex \in living' => q \in approvals' \cup answered'
    BY <2>1 DEF DecisionsInv
  <2>5. \A m \in DOMAIN posts' :
          /\ posts'[m].at \in {"ok", "notFound"} => posts'[m].request \notin approvals'
          /\ posts'[m].at = "responding" => asks'[posts'[m].request].codex \notin living'
    BY <2>1, <2>2 DEF DecisionsInv
  <2>6. \A q \in DOMAIN asks' \ approvals' : asks'[q].codex \in living' =>
          \E m \in DOMAIN posts' : posts'[m].request = q /\ posts'[m].at = "ok"
    <3>1. SUFFICES ASSUME NEW q \in DOMAIN asks' \ approvals', asks'[q].codex \in living'
                   PROVE  \E m \in DOMAIN posts' : posts'[m].request = q /\ posts'[m].at = "ok"
      OBVIOUS
    <3>2. CASE q = r
      BY <2>2, <3>2
    <3>3. CASE q \notin approvals /\ q # r
      <4>1. PICK m \in DOMAIN posts : posts[m].request = q /\ posts[m].at = "ok"
        BY <2>1, <3>1, <3>3 DEF DecisionsInv
      <4>2. m # n
        BY <3>3, <4>1
      <4>3. QED
        BY <2>2, <4>1, <4>2
    <3>4. QED
      BY <2>1, <3>2, <3>3
  <2>7. \A m \in DOMAIN posts : posts[m].at = "ok" => posts[m].request # r
    BY <2>1 DEF DecisionsInv
  <2>8. \A l, m \in DOMAIN posts' :
          /\ posts'[l].at = "ok" /\ posts'[m].at = "ok"
          /\ posts'[l].request = posts'[m].request
          /\ asks'[posts'[m].request].codex \in living'
          => l = m
    BY <2>1, <2>2, <2>7 DEF DecisionsInv
  <2>9. QED
    BY <2>4, <2>5, <2>6, <2>8 DEF DecisionsInv
<1>4. ASSUME NEW n \in DOMAIN posts, NEW how \in {"ok", "responding", "notFound"}, Reply(n, how),
             posts[n].at # "ok", UNCHANGED <<asks, living>>, answered \subseteq answered',
             approvals' \subseteq approvals,
             \A r \in approvals \ approvals' : asks[r].codex \notin living,
             how \in {"ok", "notFound"} => posts[n].request \notin approvals',
             how \in {"ok", "responding"} => asks[posts[n].request].codex \notin living
      PROVE  DecisionsInv'
  <2>1. /\ DOMAIN posts' = DOMAIN posts /\ posts'[n].at = how
        /\ \A m \in DOMAIN posts : posts'[m].request = posts[m].request
        /\ \A m \in DOMAIN posts : m # n => posts'[m] = posts[m]
    BY <1>4, <1>a, PostChanges DEF Reply
  <2>3. \A r \in DOMAIN asks' : asks'[r].codex \in living' => r \in approvals' \cup answered'
    BY <1>4 DEF DecisionsInv
  <2>4. \A m \in DOMAIN posts' :
          /\ posts'[m].at \in {"ok", "notFound"} => posts'[m].request \notin approvals'
          /\ posts'[m].at = "responding" => asks'[posts'[m].request].codex \notin living'
    BY <1>4, <2>1 DEF DecisionsInv
  <2>5. \A r \in DOMAIN asks' \ approvals' : asks'[r].codex \in living' =>
          \E m \in DOMAIN posts' : posts'[m].request = r /\ posts'[m].at = "ok"
    BY <1>4, <2>1 DEF DecisionsInv
  <2>6. \A l, m \in DOMAIN posts' :
          /\ posts'[l].at = "ok" /\ posts'[m].at = "ok"
          /\ posts'[l].request = posts'[m].request
          /\ asks'[posts'[m].request].codex \in living'
          => l = m
    BY <1>4, <2>1 DEF DecisionsInv
  <2>7. QED
    BY <2>3, <2>4, <2>5, <2>6 DEF DecisionsInv
<1>5. ASSUME NEW n \in DOMAIN posts, Handle(n) PROVE DecisionsInv'
  <2>1. CASE Decide(posts[n].request) /\ Reply(n, "ok")
    BY <1>3, <2>1
  <2>2. CASE /\ posts[n].request \in approvals /\ asks[posts[n].request].codex \notin living
             /\ Reply(n, "responding") /\ UNCHANGED deskVars
    BY <1>4, <1>5, <2>2 DEF Handle, deskVars
  <2>3. CASE posts[n].request \notin approvals /\ Reply(n, "notFound") /\ UNCHANGED deskVars
    BY <1>4, <1>5, <2>3 DEF Handle, deskVars
  <2>4. QED
    BY <1>5, <2>1, <2>2, <2>3 DEF Handle
<1>6. ASSUME NEW n \in DOMAIN posts, Written(n) PROVE DecisionsInv'
  <2>1. posts[n].at = "responding" /\ asks[posts[n].request].codex \notin living
    BY <1>6 DEF Written, DecisionsInv
  <2>2. /\ UNCHANGED <<asks, living>> /\ approvals' = approvals \ {posts[n].request}
        /\ answered \subseteq answered' /\ Reply(n, "ok")
    BY <1>6 DEF Written, Discard, Repeat, Reaches, deskVars
  <2>3. QED
    BY <1>4, <2>1, <2>2
<1>7. ASSUME NEW n \in DOMAIN posts, OnDecided(n) \/ OnDecisionFailed(n) PROVE DecisionsInv'
  <2>1. posts' = [posts EXCEPT ![n].awaited = FALSE] /\ UNCHANGED deskVars
    BY <1>7 DEF OnDecided, OnDecisionFailed
  <2>2. QED
    BY <1>a, <2>1, AwaitedChanges, PostsKept
<1>8. ASSUME NEW p \in Pages, Reload(p) PROVE DecisionsInv'
  <2>1. UNCHANGED deskVars
    BY <1>8 DEF Reload
  <2>2. QED
    BY <1>a, <1>8, <2>1, ReloadChanges, PostsKept
<1>9. ASSUME NEW p \in Pages, NEW r \in banner[p], Click(p, r) PROVE DecisionsInv'
  <2> DEFINE new == [page |-> p, request |-> r, at |-> "posted", awaited |-> TRUE]
  <2>1. posts' = Append(posts, new) /\ posts \in Seq(Posts) /\ UNCHANGED deskVars
    BY <1>9, <1>a DEF Click, PagesTypeOK
  <2>2. /\ DOMAIN posts' = DOMAIN posts \cup {Len(posts) + 1}
        /\ posts'[Len(posts) + 1] = new
        /\ \A m \in DOMAIN posts : posts'[m] = posts[m]
    BY <2>1
  <2>3. \A m \in DOMAIN posts' : posts'[m].at # "posted" => m \in DOMAIN posts
    BY <2>2
  <2>4. QED
    BY <2>1, <2>2, <2>3 DEF DecisionsInv, deskVars
<1>10. ASSUME NEW p \in Pages, OnRequested(p) PROVE DecisionsInv'
  BY <1>10 DEF OnRequested, DecisionsInv, deskVars
<1>11. CASE UNCHANGED vars
  BY <1>11 DEF vars, pageVars, deskVars, DecisionsInv
<1>12. QED
  BY <1>1, <1>2, <1>5, <1>6, <1>7, <1>8, <1>9, <1>10, <1>11 DEF Next

(* It holds from the start.                                                 *)
LEMMA DecisionsAlways == Spec => []DecisionsInv
<1>1. Init => DecisionsInv
  BY DEF Init, DeskInit, DecisionsInv
<1>2. QED
  BY <1>1, DecisionsStep, TypeAlways, PTL DEF Spec

(* Of all decisions on a request whose codex lives one counts.              *)
THEOREM OneCounts == Spec => []OneDecisionCounts
<1>1. TypeOK /\ DecisionsInv => OneDecisionCounts
  <2> SUFFICES ASSUME TypeOK, DecisionsInv, NEW r \in DOMAIN asks, asks[r].codex \in living
               PROVE  /\ Cardinality(Decisions(r, "ok")) = (IF r \in approvals THEN 0 ELSE 1)
                      /\ r \in approvals \/ r \in answered
                      /\ Decisions(r, "responding") = {}
                      /\ Decisions(r, "notFound") # {} => r \notin approvals
    BY DEF OneDecisionCounts
  <2>1. r \in approvals \cup answered
    BY DEF DecisionsInv
  <2>2. CASE r \notin approvals
    <3>1. PICK n \in DOMAIN posts : posts[n].request = r /\ posts[n].at = "ok"
      BY <2>2 DEF DecisionsInv
    <3>2. Decisions(r, "ok") = {n}
      BY <3>1 DEF Decisions, DecisionsInv
    <3>3. Cardinality(Decisions(r, "ok")) = 1
      BY <3>2, FS_Singleton
    <3>4. Decisions(r, "responding") = {}
      BY DEF Decisions, DecisionsInv
    <3>5. QED
      BY <2>1, <2>2, <3>3, <3>4
  <2>3. CASE r \in approvals
    <3>1. Decisions(r, "ok") = {} /\ Decisions(r, "notFound") = {}
      BY <2>1, <2>3 DEF Decisions, DecisionsInv
    <3>2. Cardinality(Decisions(r, "ok")) = 0
      BY <3>1, FS_EmptySet
    <3>3. Decisions(r, "responding") = {}
      BY DEF Decisions, DecisionsInv
    <3>4. QED
      BY <2>3, <3>1, <3>2, <3>3
  <2>4. QED
    BY <2>2, <2>3
<1>2. QED
  BY <1>1, TypeAlways, DecisionsAlways, PTL

-----------------------------------------------------------------------------
(* A request that is taken from a feed is shown, one that is decided waits  *)
(* no more: every step keeps the banners complete.                          *)
LEMMA ShownStep == TypeOK /\ DecisionsInv /\ ShownWhilePending /\ [Next]_vars => ShownWhilePending'
<1> SUFFICES ASSUME TypeOK, DecisionsInv, ShownWhilePending, [Next]_vars PROVE ShownWhilePending'
  OBVIOUS
<1> DEFINE Shown(p, r) == r \in banner[p] \/ \E n \in DOMAIN feed[p] : feed[p][n] = r
<1>a. /\ feed \in [Pages -> Seq(DOMAIN asks)] /\ banner \in [Pages -> SUBSET DOMAIN asks]
      /\ told \in [Pages -> SUBSET DOMAIN asks]
  BY DEF TypeOK, PagesTypeOK
<1>b. ASSUME UNCHANGED <<feed, banner, told>>, approvals' \subseteq approvals PROVE ShownWhilePending'
  BY <1>b DEF ShownWhilePending
<1>1. CASE Codex
  BY <1>1, <1>b DEF Codex, CodexStarts, CodexExits, pageVars
<1>2. ASSUME NEW c \in living, NEW kind \in ApprovalKinds, HandleServerRequest(c, kind)
      PROVE  ShownWhilePending'
  <2> DEFINE new == Len(asks) + 1
  <2>1. /\ feed' = [p \in Pages |-> Append(feed[p], new)]
        /\ told' = [p \in Pages |-> told[p] \cup {new}]
        /\ approvals' = approvals \cup {new} /\ UNCHANGED banner
    BY <1>2 DEF HandleServerRequest, Asks
  <2>2. ASSUME NEW p \in Pages, NEW r \in told'[p] \cap approvals' PROVE Shown(p, r)'
    <3>1. /\ feed[p] \in Seq(DOMAIN asks) /\ Len(feed[p]) \in Nat
          /\ feed'[p] = Append(feed[p], new)
      BY <1>a, <2>1
    <3>2. CASE r = new
      <4>1. Len(feed[p]) + 1 \in DOMAIN feed'[p] /\ feed'[p][Len(feed[p]) + 1] = new
        BY <3>1
      <4>2. QED
        BY <3>2, <4>1
    <3>3. CASE r # new
      <4>1. Shown(p, r)
        BY <2>1, <2>2, <3>3 DEF ShownWhilePending
      <4>2. \A n \in DOMAIN feed[p] : n \in DOMAIN feed'[p] /\ feed'[p][n] = feed[p][n]
        BY <3>1
      <4>3. QED
        BY <2>1, <4>1, <4>2
    <3>4. QED
      BY <3>2, <3>3
  <2>3. QED
    BY <2>2 DEF ShownWhilePending
<1>3. ASSUME NEW n \in DOMAIN posts, Handle(n) \/ Written(n) \/ OnDecisionFailed(n)
      PROVE  ShownWhilePending'
  BY <1>3, <1>b DEF Handle, Written, OnDecisionFailed, Reply, Decide, Discard, Repeat, deskVars
<1>4. ASSUME NEW n \in DOMAIN posts, OnDecided(n) PROVE ShownWhilePending'
  <2>1. /\ banner' = [banner EXCEPT ![posts[n].page] = @ \ {posts[n].request}]
        /\ UNCHANGED <<approvals, feed, told>> /\ posts[n].request \notin approvals
    BY <1>4 DEF OnDecided, deskVars, DecisionsInv
  <2>2. \A p \in Pages : \A r \in banner[p] \ {posts[n].request} : r \in banner'[p]
    BY <1>a, <2>1
  <2>3. QED
    BY <2>1, <2>2 DEF ShownWhilePending
<1>5. ASSUME NEW p \in Pages, OnRequested(p) PROVE ShownWhilePending'
  <2>1. /\ feed[p] # <<>> /\ feed[p] \in Seq(DOMAIN asks)
        /\ banner' = [banner EXCEPT ![p] = @ \cup {Head(feed[p])}]
        /\ feed' = [feed EXCEPT ![p] = Tail(@)]
        /\ UNCHANGED <<approvals, told>>
    BY <1>5, <1>a DEF OnRequested, deskVars
  <2>2. ASSUME NEW r \in told[p] \cap approvals PROVE Shown(p, r)'
    <3>1. banner'[p] = banner[p] \cup {Head(feed[p])} /\ feed'[p] = Tail(feed[p])
      BY <1>a, <2>1
    <3>2. CASE r \in banner[p]
      BY <3>1, <3>2
    <3>3. CASE \E n \in DOMAIN feed[p] : feed[p][n] = r
      <4>1. PICK n \in DOMAIN feed[p] : feed[p][n] = r
        BY <3>3
      <4>2. CASE n = 1
        BY <2>1, <3>1, <4>1, <4>2
      <4>3. CASE n # 1
        <5>1. n - 1 \in DOMAIN Tail(feed[p]) /\ Tail(feed[p])[n - 1] = r
          BY <2>1, <4>1, <4>3
        <5>2. QED
          BY <3>1, <5>1
      <4>4. QED
        BY <4>2, <4>3
    <3>4. QED
      BY <2>2, <3>2, <3>3 DEF ShownWhilePending
  <2>3. \A q \in Pages \ {p} : banner'[q] = banner[q] /\ feed'[q] = feed[q]
    BY <1>a, <2>1
  <2>4. ASSUME NEW q \in Pages, NEW r \in told'[q] \cap approvals' PROVE Shown(q, r)'
    <3>1. CASE q = p
      BY <2>1, <2>2, <2>4, <3>1
    <3>2. CASE q # p
      <4>1. Shown(q, r)
        BY <2>1, <2>4 DEF ShownWhilePending
      <4>2. QED
        BY <2>3, <3>2, <4>1
    <3>3. QED
      BY <3>1, <3>2
  <2>5. QED
    BY <2>4 DEF ShownWhilePending
<1>6. ASSUME NEW p \in Pages, Reload(p) PROVE ShownWhilePending'
  <2>1. told'[p] = {} /\ UNCHANGED approvals
    BY <1>6, <1>a DEF Reload, deskVars
  <2>2. \A q \in Pages \ {p} : told'[q] = told[q] /\ banner'[q] = banner[q] /\ feed'[q] = feed[q]
    BY <1>6, <1>a DEF Reload
  <2>3. ASSUME NEW q \in Pages, NEW r \in told'[q] \cap approvals' PROVE Shown(q, r)'
    <3>1. q # p
      BY <2>1, <2>3
    <3>2. Shown(q, r)
      BY <2>1, <2>2, <2>3, <3>1 DEF ShownWhilePending
    <3>3. QED
      BY <2>2, <3>1, <3>2
  <2>4. QED
    BY <2>3 DEF ShownWhilePending
<1>7. ASSUME NEW p \in Pages, NEW r \in banner[p], Click(p, r) PROVE ShownWhilePending'
  BY <1>7, <1>b DEF Click, deskVars
<1>8. CASE UNCHANGED vars
  BY <1>8, <1>b DEF vars, pageVars, deskVars
<1>9. QED
  BY <1>1, <1>2, <1>3, <1>4, <1>5, <1>6, <1>7, <1>8 DEF Next

(* What waits for a decision stays where it can be decided.                 *)
THEOREM StaysShown == Spec => []ShownWhilePending
<1>1. Init => ShownWhilePending
  BY DEF Init, ShownWhilePending
<1>2. QED
  BY <1>1, ShownStep, TypeAlways, DecisionsAlways, PTL DEF Spec
=============================================================================
