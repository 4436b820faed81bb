---------------------------- MODULE SettingsPage ----------------------------
(***************************************************************************)
(* SettingsPage: the settings page's view of the tunnel.  It reads the      *)
(* state once, then every few seconds, and after its own ON and OFF; reads  *)
(* overlap and are answered in any order.                                   *)
(*                                                                         *)
(* The tunnel service is here only the status it answers with and the ways  *)
(* that status changes, by this page's requests or by others (TunnelService *)
(* has the rest), and the external address, which a read waits for when it  *)
(* is stale: one lookup at a time, joined by the reads that come meanwhile. *)
(* The password fields and the messages are left out.                       *)
(***************************************************************************)
EXTENDS Naturals

CONSTANTS
  Reads,        \* reads under way at a time
  Initial,      \* the read of the page's mount
  MaxMoves,     \* bound: changes of the status not asked for here, or of the address
  MaxClicks,    \* bound: clicks on ON, OFF and Refresh
  MaxLosses     \* bound: requests and lookups that fail or time out

ASSUME SettingsPageAssumption ==
  /\ Initial \in Reads
  /\ MaxMoves \in Nat
  /\ MaxClicks \in Nat
  /\ MaxLosses \in Nat

VARIABLES
  status,    \* TunnelService.status
  address,   \* the external address of the host
  externalIp,  \* what the service knows of it, or "null"
  fresh,     \* is externalIpLastCheckedAt less than EXTERNAL_IP_CACHE_TTL_MS ago?
  lookup,    \* externalIpLookupInFlight: the read that began it, "gone" if the
             \* page has given that read up, or "none"
  waiting,   \* the reads that await it
  shown,     \* state.status of the page, or "none": EMPTY_STATE
  shownIp,   \* state.externalIp
  loading,
  busy,      \* the request the buttons wait for, or "none"
  post,      \* where that request is
  reads,     \* why each read was sent, or "free"
  answer,    \* its answer
  moves, clicks, losses

addressVars == <<address, externalIp, fresh, lookup, waiting>>
serviceVars == <<status, addressVars, moves>>
pageVars == <<shown, shownIp, loading, busy, post, clicks>>
vars == <<serviceVars, pageVars, reads, answer, losses>>

Statuses == {"off", "starting", "on", "error"}
Addresses == {"home", "away"}

(* What a read is answered with, before it is and when it fails.            *)
Pending == [status |-> "pending", ip |-> "null"]
Failed == [status |-> "failed", ip |-> "null"]

Init ==
  /\ status \in Statuses
  /\ address = "home"
  /\ externalIp = "null"
  /\ fresh = FALSE
  /\ lookup = "none"
  /\ waiting = {}
  /\ shown = "none" /\ shownIp = "null"
  /\ loading = TRUE
  /\ busy = "none"
  /\ post = "none"
  /\ reads = [r \in Reads |-> IF r = Initial THEN "load" ELSE "free"]
  /\ answer = [r \in Reads |-> Pending]
  /\ moves = 0
  /\ clicks = 0
  /\ losses = 0

-----------------------------------------------------------------------------
(* The service                                                              *)

Enabled == IF status \in {"off", "error"} THEN "starting" ELSE status

Move ==
  /\ moves < MaxMoves
  /\ moves' = moves + 1
  /\ \/ status' = "off"
     \/ status' = Enabled
     \/ status = "starting" /\ status' \in {"on", "error"}
     \/ status = "on" /\ status' = "error"
  /\ status' # status
  /\ UNCHANGED <<addressVars, pageVars, reads, answer, losses>>

AddressMoves ==
  /\ moves < MaxMoves
  /\ moves' = moves + 1
  /\ address' \in Addresses \ {address}
  /\ UNCHANGED <<status, externalIp, fresh, lookup, waiting, pageVars, reads, answer, losses>>

Expire ==
  /\ fresh' = FALSE /\ fresh
  /\ UNCHANGED <<status, address, externalIp, lookup, waiting, moves, pageVars, reads, answer, losses>>

(* Mutants, here and below: altered forms of the definition that follows,   *)
(* each of which breaks a property (README, "Mutants").                     *)
LookedUpOnce(r) ==
  /\ reads[r] # "free" /\ answer[r] = Pending /\ r \notin waiting
  /\ \/ /\ fresh \/ externalIp # "null"
        /\ answer' = [answer EXCEPT ![r] = [status |-> status, ip |-> externalIp]]
        /\ UNCHANGED <<lookup, waiting>>
     \/ /\ ~fresh /\ externalIp = "null"
        /\ waiting' = waiting \cup {r}
        /\ lookup' = IF lookup = "none" THEN r ELSE lookup
        /\ UNCHANGED answer
  /\ UNCHANGED <<status, address, externalIp, fresh, moves, pageVars, reads, losses>>

(* readAdminState, refreshExternalIpIfStale: with a fresh address it        *)
(* answers, else it joins the lookup under way or begins one.               *)
ReadAdminState(r) ==
  /\ reads[r] # "free" /\ answer[r] = Pending /\ r \notin waiting
  /\ \/ /\ fresh
        /\ answer' = [answer EXCEPT ![r] = [status |-> status, ip |-> externalIp]]
        /\ UNCHANGED <<lookup, waiting>>
     \/ /\ ~fresh
        /\ waiting' = waiting \cup {r}
        /\ lookup' = IF lookup = "none" THEN r ELSE lookup
        /\ UNCHANGED answer
  /\ UNCHANGED <<status, address, externalIp, fresh, moves, pageVars, reads, losses>>

(* The lookup is over.  Its result is null if every provider failed; one    *)
(* that rejects is caught by the read that began it, and is the failure of  *)
(* those that joined.  Then each of them answers.                           *)
LookupOver ==
  /\ lookup # "none"
  /\ lookup' = "none" /\ fresh' = TRUE
  /\ \E result \in {address, "null", "rejected"} :
       LET failing == IF result = "rejected" THEN waiting \ {lookup} ELSE {} IN
       /\ losses' = losses + (IF result = address THEN 0 ELSE 1) /\ losses' <= MaxLosses
       /\ externalIp' = IF result = "rejected" THEN "null" ELSE result
       /\ answer' = [r \in Reads |->
            IF r \in failing THEN Failed
            ELSE IF r \in waiting THEN [status |-> status, ip |-> externalIp']
            ELSE answer[r]]
  /\ waiting' = {}
  /\ UNCHANGED <<status, address, moves, pageVars, reads>>

(* A read fails or times out, wherever it is; a lookup it began goes on.    *)
Lose(r) ==
  /\ reads[r] # "free"
  /\ losses < MaxLosses
  /\ losses' = losses + 1
  /\ answer' = [answer EXCEPT ![r] = Failed]
  /\ waiting' = waiting \ {r}
  /\ lookup' = IF lookup = r THEN "gone" ELSE lookup
  /\ UNCHANGED <<status, address, externalIp, fresh, moves, pageVars, reads>>

(* The service has carried out the request of the page; enable answers once *)
(* the tunnel is up, has failed, or takes long.                             *)
HandlePost ==
  /\ post = "sent"
  /\ \/ busy = "disable" /\ status' = "off"
     \/ busy = "enable" /\ status # "on" /\ status' \in {"starting", "on", "error"}
     \/ busy = "enable" /\ status = "on" /\ UNCHANGED status
  /\ post' = "handled"
  /\ UNCHANGED <<addressVars, moves, shown, shownIp, loading, busy, clicks, reads, answer, losses>>

-----------------------------------------------------------------------------
(* loadState                                                                *)

Send(r, why) ==
  /\ reads[r] = "free"
  /\ reads' = [reads EXCEPT ![r] = why]
  /\ answer' = [answer EXCEPT ![r] = Pending]

LoadingUntilAnswered(r) ==
  loading' = (loading /\ (reads[r] # "load" \/ answer[r] = Failed))

(* finally: whether it came or not.                                         *)
LoadingUntilSettled(r) == loading' = (loading /\ reads[r] # "load")

(* Whatever its age, the answer becomes the page's state; the request whose *)
(* handler waited for this read is over.                                    *)
Receive(r) ==
  /\ reads[r] # "free"
  /\ answer[r] # Pending
  /\ IF answer[r] = Failed THEN UNCHANGED <<shown, shownIp>>
     ELSE shown' = answer[r].status /\ shownIp' = answer[r].ip
  /\ LoadingUntilSettled(r)
  /\ busy' = IF reads[r] = "click" THEN "none" ELSE busy
  /\ post' = IF reads[r] = "click" THEN "none" ELSE post
  /\ reads' = [reads EXCEPT ![r] = "free"]
  /\ answer' = [answer EXCEPT ![r] = Pending]
  /\ UNCHANGED <<serviceVars, clicks, losses>>

(* The interval, which runs while the page is not loading.                  *)
Poll ==
  /\ ~loading
  /\ \E r \in Reads : Send(r, "poll")
  /\ UNCHANGED <<serviceVars, pageVars, losses>>

(* The Refresh button: loading again, so the interval stops until a read of *)
(* this kind has settled, this one or an earlier.                           *)
Refresh ==
  /\ busy = "none"
  /\ clicks < MaxClicks
  /\ clicks' = clicks + 1
  /\ loading' = TRUE
  /\ \E r \in Reads : Send(r, "load")
  /\ UNCHANGED <<serviceVars, shown, shownIp, busy, post, losses>>

-----------------------------------------------------------------------------
(* handleEnable, handleDisable                                              *)

(* EMPTY_STATE has canManage false: no button works before the first answer.*)
CanEnable == busy = "none" /\ shown \in {"off", "error"}

CanDisable == busy = "none" /\ shown \in {"on", "starting", "error"}

Click(button) ==
  /\ clicks < MaxClicks
  /\ clicks' = clicks + 1
  /\ busy' = button
  /\ post' = "sent"
  /\ UNCHANGED <<serviceVars, shown, shownIp, loading, reads, answer, losses>>

ClickEnable == CanEnable /\ Click("enable")

ClickDisable == CanDisable /\ Click("disable")

(* The answer came: read the state, still busy.                             *)
PostAnswered ==
  /\ post = "handled"
  /\ post' = "reading"
  /\ \E r \in Reads : Send(r, "click")
  /\ UNCHANGED <<serviceVars, shown, shownIp, loading, busy, clicks, losses>>

(* It was refused, lost or timed out, carried out or not: catch, finally.   *)
PostFails ==
  /\ post \in {"sent", "handled"}
  /\ losses < MaxLosses
  /\ losses' = losses + 1
  /\ post' = "none"
  /\ busy' = "none"
  /\ UNCHANGED <<serviceVars, shown, shownIp, loading, clicks, reads, answer>>

Next ==
  \/ Move \/ AddressMoves \/ Expire
  \/ \E r \in Reads : ReadAdminState(r) \/ Lose(r) \/ Receive(r)
  \/ LookupOver
  \/ HandlePost
  \/ Poll \/ Refresh
  \/ ClickEnable \/ ClickDisable
  \/ PostAnswered
  \/ PostFails

Spec == Init /\ [][Next]_vars

(* The interval ticks and the cached address expires, the service answers   *)
(* what is not lost, after a lookup whose requests have a timeout, and the  *)
(* page takes what it is answered.  The read after a click is sent at once  *)
(* in the code; here it may find all of Reads taken by polls, hence SF.     *)
FairSpec ==
  /\ Spec
  /\ WF_vars(Poll)
  /\ WF_vars(HandlePost)
  /\ SF_vars(PostAnswered)
  /\ WF_vars(Expire) /\ WF_vars(LookupOver)
  /\ \A r \in Reads : WF_vars(ReadAdminState(r)) /\ WF_vars(Receive(r))

-----------------------------------------------------------------------------
(* Properties                                                               *)

(* Once the tunnel and the address change no more, the page ends up showing *)
(* both, with its buttons free, and stays so: an older answer overtaken by  *)
(* a newer one is not the last, a failed first read does not keep the page  *)
(* from polling, no request, answered or not, leaves it busy, and no lookup *)
(* that failed, or whose reads were given up, keeps the next from being     *)
(* made.                                                                    *)
PageSettles == <>[](shown = status /\ shownIp = address /\ busy = "none")
=============================================================================
