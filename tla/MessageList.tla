---------------------------- MODULE MessageList -----------------------------
(***************************************************************************)
(* MessageList: how the messages of the current thread get into the         *)
(* virtual list, which knows each row by an absolute index.  An older page  *)
(* must not move the rows below it, so the effect of MessageList guesses    *)
(* from two commits that one was prepended, and lowers the first index by   *)
(* as much.                                                                 *)
(*                                                                         *)
(* React renders some time after a dispatch: one commit may stand for       *)
(* several.  The refs of the effect hold what it saw of the latest commit,  *)
(* `shown`.  A MessageList lives while its thread is the current one; where *)
(* the user has scrolled to is left out.                                    *)
(***************************************************************************)
EXTENDS ThreadHistory, Integers

CONSTANT MaxBatch    \* bound: dispatches one commit may stand for

ASSUME MessageListAssumption == MaxBatch \in Nat \ {0}

VARIABLES
  shown,           \* the messages of the latest commit
  firstItemIndex,
  batch            \* history: what was dispatched since then: "page" (a first
                   \* page), "older" (an older one) or "tail" (a change at the end)

viewVars == <<shown, firstItemIndex, batch>>

InitialIndex == 10000

ListInit ==
  /\ Init
  /\ shown = <<>>
  /\ firstItemIndex = InitialIndex
  /\ batch = <<>>

FirstMessageId(messages) == <<Head(messages).item, Head(messages).id>>

LastMessageSignature(messages) == Last(messages)

-----------------------------------------------------------------------------
Dispatched(kind) ==
  /\ Len(batch) < MaxBatch
  /\ batch' = Append(batch, kind)
  /\ UNCHANGED <<shown, firstItemIndex>>

(* The steps of ThreadHistory, with the changes of the list they dispatch.  *)
HistoryStep ==
  \/ (Send \/ OnDelta) /\ Dispatched("tail")
  \/ \E p \in DOMAIN pages :
       \/ OnFirstPage(p) /\ Dispatched("page")
       \/ OnMorePage(p) /\ Dispatched("older")
  \/ /\ \/ SendFails \/ StartsElsewhere \/ CodexSpeaks \/ CodexStores \/ CodexDrops
        \/ \E j \in posts : CodexStarts(j)
        \/ AskFirst \/ AskMore \/ AskMoreElsewhere \/ MoreElsewhereOver
        \/ \E p \in DOMAIN pages : ListThreadMessages(p) \/ OnPageFailed(p)
     /\ UNCHANGED viewVars

PrependedOlderPage(before, now) ==
  /\ before # <<>> /\ now # <<>>
  /\ FirstMessageId(before) # FirstMessageId(now)
  /\ LastMessageSignature(before) = LastMessageSignature(now)

(* Mutants, here and below: altered forms of the definition that follows,   *)
(* each of which breaks a property (README, "Mutants").                     *)
WholeLength(before, now) == Len(now)

AddedCount(before, now) == Max({Len(now) - Len(before), 0})

(* A commit and its effect.                                                 *)
Commit ==
  /\ batch # <<>>
  /\ shown' = list
  /\ firstItemIndex' = firstItemIndex -
       (IF PrependedOlderPage(shown, list) THEN AddedCount(shown, list) ELSE 0)
  /\ batch' = <<>>
  /\ UNCHANGED vars

ListNext == HistoryStep \/ Commit

ListSpec == ListInit /\ [][ListNext]_<<vars, viewVars>>

-----------------------------------------------------------------------------
(* Properties                                                               *)

(* The absolute index of row m.                                             *)
IndexOf(m) == firstItemIndex + m

(* A commit leaves every row at its index, so the view does not jump: an    *)
(* older page goes above the first row, whatever merging it has left of it. *)
(* Except for a commit that has a first page in it, or an older page and a  *)
(* change at the end at once (the effect takes it for a new message), and   *)
(* for a list that parted from what codex stores (crossed).  Commit and     *)
(* effect are one step: what is seen before the effect's own rendering is   *)
(* not spoken of.                                                           *)
Anchored ==
  [][batch' = <<>> /\ ~crossed
     /\ "page" \notin Range(batch) /\ ~({"older", "tail"} \subseteq Range(batch)) =>
       \A m \in DOMAIN shown, n \in DOMAIN shown' :
         shown[m].item = shown'[n].item => IndexOf(m) = IndexOf(n)']_viewVars
=============================================================================
