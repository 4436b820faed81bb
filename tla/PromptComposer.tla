--------------------------- MODULE PromptComposer ---------------------------
(***************************************************************************)
(* PromptComposer: a draft and images picked for it, and submit(), which    *)
(* prepares the images, awaits handleSend of ChatShell and then empties the *)
(* composer.  handleSend makes sure of a thread and POSTs the turn through  *)
(* ApiClient; it reports an error and never rejects.                        *)
(*                                                                         *)
(* Only Send, Attach and the model picker are locked meanwhile: one can go  *)
(* on typing, remove images and use a chooser that is already open.  The    *)
(* requests of ensureThread and the flags of the thread shown (disabled,    *)
(* sending, thinking) are ChatTurns'; since the user may turn to another    *)
(* thread, they are taken to lock nothing here.                             *)
(***************************************************************************)
EXTENDS ApiClient, FiniteSets

CONSTANTS
  MaxImages,    \* MAX_IMAGE_ATTACHMENTS
  MaxDrafts,    \* bound: drafts typed
  MaxPicked     \* bound: images picked

ASSUME ComposerAssumption ==
  /\ MaxImages \in Nat \ {0}
  /\ {MaxDrafts, MaxPicked} \subseteq Nat

VARIABLES
  value,      \* the draft: 0 is an empty one
  drafts,     \* drafts typed so far
  images,     \* pendingAttachments
  picked,     \* images picked so far
  chooser,    \* is the file chooser open?
  at,         \* where submit() is; preparingAttachments is at # "idle"
  job,        \* what it took from the composer
  carried     \* what the POST of a turn carries

composerVars == <<value, drafts, images, picked, chooser, at, job, carried>>

Empty == [text |-> 0, images |-> {}]

ComposerInit ==
  /\ Init
  /\ value = 0 /\ drafts = 0
  /\ images = {} /\ picked = 0
  /\ chooser = FALSE
  /\ at = "idle"
  /\ job = Empty
  /\ carried = [c \in Mutations |-> Empty]

-----------------------------------------------------------------------------
(* The user                                                                 *)

Type ==
  /\ drafts < MaxDrafts
  /\ drafts' = drafts + 1
  /\ value' = drafts + 1
  /\ UNCHANGED <<images, picked, chooser, at, job, carried, vars>>

(* attachDisabled                                                           *)
OpenChooser ==
  /\ at = "idle" /\ Cardinality(images) < MaxImages
  /\ ~chooser /\ chooser' = TRUE
  /\ UNCHANGED <<value, drafts, images, picked, at, job, carried, vars>>

(* handleSelectImages, or the chooser is closed with nothing.  As many      *)
(* images as there are slots left.                                          *)
SelectImages ==
  /\ chooser /\ chooser' = FALSE
  /\ \E n \in 0..MaxPicked :
       LET taken == {k \in 1..n : k <= MaxImages - Cardinality(images)} IN
       /\ picked + n <= MaxPicked
       /\ picked' = picked + n
       /\ images' = images \cup {picked + k : k \in taken}
  /\ UNCHANGED <<value, drafts, at, job, carried, vars>>

(* handleRemoveAttachment                                                   *)
RemoveAttachment(i) ==
  /\ i \in images
  /\ images' = images \ {i}
  /\ UNCHANGED <<value, drafts, picked, chooser, at, job, carried, vars>>

-----------------------------------------------------------------------------
(* submit                                                                   *)

Submit ==
  /\ at = "idle"
  /\ value # 0 \/ images # {}
  /\ at' = "optimizing"
  /\ job' = [text |-> value, images |-> images]
  /\ UNCHANGED <<value, drafts, images, picked, chooser, carried, vars>>

(* optimizeImageToDataUrl of one image fails: an error is shown, and all    *)
(* stays for another try.                                                   *)
OptimizeFails ==
  /\ at = "optimizing" /\ job.images # {}
  /\ at' = "idle" /\ job' = Empty
  /\ UNCHANGED <<value, drafts, images, picked, chooser, carried, vars>>

Optimized ==
  /\ at = "optimizing"
  /\ at' = "ensuring"
  /\ UNCHANGED <<value, drafts, images, picked, chooser, job, carried, vars>>

(* setValue("") and clearPendingAttachments, whatever they hold by now.     *)
EmptyComposer == value' = 0 /\ images' = {} /\ at' = "idle" /\ job' = Empty

(* handleSend: ensureThread rejects.                                        *)
EnsureFails ==
  /\ at = "ensuring"
  /\ EmptyComposer
  /\ UNCHANGED <<drafts, picked, chooser, carried, vars>>

(* handleSend: startTurn.                                                   *)
PostTurn ==
  LET c == CHOOSE c \in Mutations : pc[c] = "idle" IN
  /\ at = "ensuring"
  /\ \E m \in Mutations : pc[m] = "idle"
  /\ Request(c)
  /\ at' = "posting"
  /\ carried' = [carried EXCEPT ![c] = job]
  /\ UNCHANGED <<value, drafts, images, picked, chooser, job>>

(* Mutants, here and below: altered forms of the definition that follows,   *)
(* each of which breaks a property (README, "Mutants").                     *)
FailureKeepsDraft ==
  /\ at = "posting"
  /\ \E c \in Mutations :
       /\ carried[c] = job /\ Settled(c)
       /\ IF outcome[c] = "resolved" THEN EmptyComposer
          ELSE at' = "idle" /\ job' = Empty /\ UNCHANGED <<value, images>>
  /\ UNCHANGED <<drafts, picked, chooser, carried, vars>>

(* handleSend is over, whether the POST resolved or was rejected.           *)
SubmitOver ==
  /\ at = "posting"
  /\ \E c \in Mutations : carried[c] = job /\ Settled(c)
  /\ EmptyComposer
  /\ UNCHANGED <<drafts, picked, chooser, carried, vars>>

ComposerNext ==
  \/ Type \/ OpenChooser \/ SelectImages
  \/ \E i \in images : RemoveAttachment(i)
  \/ Submit \/ Optimized \/ OptimizeFails \/ EnsureFails \/ PostTurn \/ SubmitOver
  \/ (\E c \in Calls : (c \in Gets /\ Request(c)) \/ Continue(c)) /\ UNCHANGED composerVars

allVars == <<vars, composerVars>>

(* Timers fire, and a body that began comes or breaks; nothing is assumed   *)
(* of the network or of the server.  Images are decoded or fail, and the    *)
(* requests of ensureThread settle like any other.                          *)
ComposerSpec ==
  /\ ComposerInit /\ [][ComposerNext]_allVars
  /\ \A c \in Mutations :
       /\ WF_allVars(Timeout(c) /\ UNCHANGED composerVars)
       /\ WF_allVars(ReadBody(c) /\ UNCHANGED composerVars)
  /\ WF_allVars(Optimized)
  /\ WF_allVars(EnsureFails \/ PostTurn)
  /\ WF_allVars(SubmitOver)

-----------------------------------------------------------------------------
(* Properties                                                               *)

(* No draft and no image is sent to codex twice: a POST that timed out or   *)
(* lost its answer may have run, and nothing of what it carried is in the   *)
(* composer afterwards to be sent again, whatever was typed, picked or      *)
(* removed meanwhile.                                                       *)
SentOnce ==
  /\ \A d \in 1..drafts :
       Cardinality({c \in Mutations : executed[c] > 0 /\ carried[c].text = d}) <= 1
  /\ \A i \in 1..picked :
       Cardinality({c \in Mutations : executed[c] > 0 /\ i \in carried[c].images}) <= 1

(* Send is unlocked again, though nobody may answer.                        *)
SubmitEnds == at # "idle" ~> at = "idle"
=============================================================================
