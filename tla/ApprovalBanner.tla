--------------------------- MODULE ApprovalBanner ---------------------------
(***************************************************************************)
(* ApprovalBanner: what codex asks, on the screens of several pages at      *)
(* once, and their decisions on the way to the service, which is the        *)
(* ApprovalDesk that Approvals implements.  A page learns of a request from *)
(* the event stream only, and of a decision only from the answer to its own *)
(* POST: nobody tells it what another page has decided.                     *)
(*                                                                         *)
(* A page has its stream for as long as it is loaded (UiEventStream has the *)
(* gaps of a stream); reloaded, it has no id to resume from.  Which         *)
(* decision was clicked is left out.                                        *)
(***************************************************************************)
EXTENDS ApprovalDesk

CONSTANTS
  Pages,
  MaxAsks,      \* bound: requests of codex
  MaxCodex,     \* bound: incarnations of codex
  MaxPosts,     \* bound: decisions clicked, in all pages
  MaxReloads    \* bound: reloads of a page

ASSUME BannerAssumption == {MaxAsks, MaxCodex, MaxPosts, MaxReloads} \subseteq Nat

VARIABLES
  feed,      \* feed[p]: the requests whose event is on its way to page p
  banner,    \* banner[p]: state.commandApprovals and state.fileApprovals
  posts,     \* the decisions: page, request, where the handler is (`at`), and
             \* whether the page still waits for it
  reloads,
  told       \* history: the requests published to page p since it was loaded

pageVars == <<feed, banner, posts, reloads, told>>
vars == <<deskVars, pageVars>>

Init ==
  /\ DeskInit
  /\ feed = [p \in Pages |-> <<>>]
  /\ banner = [p \in Pages |-> {}]
  /\ posts = <<>>
  /\ reloads = 0
  /\ told = [p \in Pages |-> {}]

-----------------------------------------------------------------------------
(* The server                                                               *)

(* codex comes and goes, and no page hears of it.                           *)
Codex ==
  /\ \/ started < MaxCodex /\ CodexStarts
     \/ \E c \in living : CodexExits(c)
  /\ UNCHANGED pageVars

(* handleServerRequest publishes what it stores, to every page there is.    *)
HandleServerRequest(c, kind) ==
  LET r == Len(asks) + 1 IN
  /\ r <= MaxAsks
  /\ Asks(c, kind)
  /\ feed' = [p \in Pages |-> Append(feed[p], r)]
  /\ told' = [p \in Pages |-> told[p] \cup {r}]
  /\ UNCHANGED <<banner, posts, reloads>>

Reply(n, how) ==
  /\ posts' = [posts EXCEPT ![n].at = how]
  /\ UNCHANGED <<feed, banner, reloads, told>>

(* Mutants, here and below: altered forms of the definition that follows,   *)
(* each of which breaks a property (README, "Mutants").                     *)
NotFoundUnchecked(n) ==
  /\ posts[n].at = "posted"
  /\ \/ Decide(posts[n].request) /\ Reply(n, "ok")
     \/ Reply(n, "responding") /\ UNCHANGED deskVars

(* The routes: a decision on what is pending is passed on, and where the    *)
(* codex is gone its handler may have to wait for another one to start; a   *)
(* decision on anything else is a 404.                                      *)
Handle(n) ==
  LET r == posts[n].request IN
  /\ posts[n].at = "posted"
  /\ \/ Decide(r) /\ Reply(n, "ok")
     \/ r \in approvals /\ asks[r].codex \notin living
        /\ Reply(n, "responding") /\ UNCHANGED deskVars
     \/ r \notin approvals /\ Reply(n, "notFound") /\ UNCHANGED deskVars

(* Such a handler is done; two of one request may be.                       *)
Written(n) ==
  LET r == posts[n].request IN
  /\ posts[n].at = "responding"
  /\ IF r \in approvals THEN Discard(r) ELSE Repeat(r) \/ UNCHANGED deskVars
  /\ Reply(n, "ok")

-----------------------------------------------------------------------------
(* The pages                                                                *)

(* applyUiEvent: approval.command.requested, approval.filechange.requested. *)
OnRequested(p) ==
  /\ feed[p] # <<>>
  /\ banner' = [banner EXCEPT ![p] = @ \cup {Head(feed[p])}]
  /\ feed' = [feed EXCEPT ![p] = Tail(@)]
  /\ UNCHANGED <<deskVars, posts, reloads, told>>

(* A button of an entry, handleCommandDecision or handleFileDecision: the   *)
(* POST.  Nothing locks the buttons meanwhile.                              *)
Click(p, r) ==
  /\ r \in banner[p]
  /\ Len(posts) < MaxPosts
  /\ posts' = Append(posts, [page |-> p, request |-> r, at |-> "posted", awaited |-> TRUE])
  /\ UNCHANGED <<deskVars, feed, banner, reloads, told>>

(* The POST resolves: consume-command-approval, consume-file-approval.      *)
OnDecided(n) ==
  /\ posts[n].awaited /\ posts[n].at = "ok"
  /\ banner' = [banner EXCEPT ![posts[n].page] = @ \ {posts[n].request}]
  /\ posts' = [posts EXCEPT ![n].awaited = FALSE]
  /\ UNCHANGED <<deskVars, feed, reloads, told>>

FailureConsumes(n) ==
  /\ posts[n].awaited
  /\ banner' = [banner EXCEPT ![posts[n].page] = @ \ {posts[n].request}]
  /\ posts' = [posts EXCEPT ![n].awaited = FALSE]
  /\ UNCHANGED <<deskVars, feed, reloads, told>>

(* It rejects, with a 404, after the timeout or because the network failed, *)
(* wherever the request is then: an error is shown, and the entry stays.    *)
OnDecisionFailed(n) ==
  /\ posts[n].awaited
  /\ posts' = [posts EXCEPT ![n].awaited = FALSE]
  /\ UNCHANGED <<deskVars, feed, banner, reloads, told>>

(* A page is loaded anew, with the reducer's initial state.                 *)
Reload(p) ==
  /\ reloads < MaxReloads
  /\ reloads' = reloads + 1
  /\ feed' = [feed EXCEPT ![p] = <<>>]
  /\ banner' = [banner EXCEPT ![p] = {}]
  /\ told' = [told EXCEPT ![p] = {}]
  /\ posts' = [n \in DOMAIN posts |->
                 [posts[n] EXCEPT !.awaited = @ /\ posts[n].page # p]]
  /\ UNCHANGED deskVars

Next ==
  \/ Codex
  \/ \E c \in living, kind \in ApprovalKinds : HandleServerRequest(c, kind)
  \/ \E n \in DOMAIN posts : Handle(n) \/ Written(n) \/ OnDecided(n) \/ OnDecisionFailed(n)
  \/ \E p \in Pages : OnRequested(p) \/ Reload(p) \/ \E r \in banner[p] : Click(p, r)

Spec == Init /\ [][Next]_vars

-----------------------------------------------------------------------------
(* Properties                                                               *)

(* A request that waits for a decision stays on, or on its way to, every    *)
(* page that was there when it was made, whatever was clicked, refused,     *)
(* lost or decided elsewhere meanwhile; only a reload takes it away.        *)
ShownWhilePending ==
  \A p \in Pages : \A r \in told[p] \cap approvals :
    r \in banner[p] \/ \E n \in DOMAIN feed[p] : feed[p][n] = r

Decisions(r, how) == {n \in DOMAIN posts : posts[n].request = r /\ posts[n].at = how}

(* Two pages, or two clicks, decide the same: one "ok" while the codex that *)
(* asked lives, for the decision that took the request off the desk and     *)
(* that codex has; "not found" only for those that came after it.           *)
OneDecisionCounts ==
  \A r \in DOMAIN asks : asks[r].codex \in living =>
    /\ Cardinality(Decisions(r, "ok")) = (IF r \in approvals THEN 0 ELSE 1)
    /\ r \in approvals \/ r \in answered
    /\ Decisions(r, "responding") = {}
    /\ Decisions(r, "notFound") # {} => r \notin approvals
=============================================================================
