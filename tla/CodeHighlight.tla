--------------------------- MODULE CodeHighlight ----------------------------
(***************************************************************************)
(* CodeHighlight: the code fences of the messages and the highlighting they *)
(* share: a cache, the jobs under way, and a queue that starts one job per  *)
(* animation frame.                                                         *)
(*                                                                         *)
(* A fence is a CodeBlock; the code it is given grows while its message     *)
(* streams in.  A code here stands for text, language and line numbers,     *)
(* which the cache key holds together; its highlighted form, light and      *)
(* dark, is named by the code.  The microtasks that hand a result to those  *)
(* waiting for it run before anything else does, as part of the same step.  *)
(***************************************************************************)
EXTENDS Naturals, Sequences, SequencesExt

CONSTANTS
  Blocks,       \* the code fences
  Codes,        \* what a fence may be given
  NoCode,       \* not mounted; nothing highlighted yet
  MaxCache,     \* MAX_HIGHLIGHT_CACHE_ENTRIES
  MaxCommits,   \* bound: times a fence is given a code
  MaxFailures   \* bound: jobs that fail, the fallback language too

ASSUME CodeHighlightAssumption ==
  /\ NoCode \notin Codes
  /\ MaxCache \in Nat \ {0}
  /\ MaxCommits \in Nat
  /\ MaxFailures \in Nat

VARIABLES
  highlightCache,      \* its codes, the oldest first
  inFlight,            \* the codes of inFlightHighlights
  running,             \* jobs at work on each code
  waiting,             \* <<block, code>>: a then() on the job of the code
  pendingHighlights,   \* the tasks <<block, code>> of the queue
  isProcessingQueue,
  code,                \* what each fence was last given
  mounted,
  requested,           \* highlightRequestedRef of each fence
  hasCleanup,          \* whether its last effect returned a cleanup
  highlightedHtml,     \* the code whose highlighting it shows
  commits, failures,
  outrun               \* history: fences given a code while a task or job for
                       \* an earlier one was under way

jobVars == <<highlightCache, inFlight, running, waiting>>
queueVars == <<pendingHighlights, isProcessingQueue>>
blockVars == <<code, mounted, requested, hasCleanup, commits>>
codeVars == <<jobVars, queueVars, blockVars, highlightedHtml, failures, outrun>>

Cached(k) == Contains(highlightCache, k)

CodeInit ==
  /\ highlightCache = <<>>
  /\ inFlight = {}
  /\ running = [k \in Codes |-> 0]
  /\ waiting = {}
  /\ pendingHighlights = <<>>
  /\ isProcessingQueue = FALSE
  /\ code = [b \in Blocks |-> NoCode]
  /\ mounted = [b \in Blocks |-> TRUE]
  /\ requested = [b \in Blocks |-> FALSE]
  /\ hasCleanup = [b \in Blocks |-> FALSE]
  /\ highlightedHtml = [b \in Blocks |-> NoCode]
  /\ commits = 0
  /\ failures = 0
  /\ outrun = {}

-----------------------------------------------------------------------------
(* highlightCode, and the task that calls it                                *)

(* The job of a code, unless one is in flight.                              *)
StartJob(k) ==
  /\ inFlight' = inFlight \cup {k}
  /\ running' = IF k \in inFlight THEN running ELSE [running EXCEPT ![k] = @ + 1]

(* Mutants, here and below: altered forms of the definition that follows,   *)
(* each of which breaks a property (README, "Mutants").                     *)
HighlightUnseen(b, k) ==
  /\ StartJob(k)
  /\ waiting' = waiting \cup {<<b, k>>}
  /\ UNCHANGED <<highlightCache, highlightedHtml>>

(* A job that was rejected is still in flight; to wait for it is to wait    *)
(* for good.                                                                *)
HighlightCode(b, k) ==
  \/ /\ Cached(k)
     /\ highlightedHtml' = [highlightedHtml EXCEPT ![b] = k]
     /\ UNCHANGED jobVars
  \/ /\ ~Cached(k)
     /\ StartJob(k)
     /\ waiting' = waiting \cup {<<b, k>>}
     /\ UNCHANGED <<highlightCache, highlightedHtml>>

(* The task of block b for code k, if the block still wants a highlighting: *)
(* the ref does not say of which code.                                      *)
RunTask(b, k, isRequested) ==
  \/ /\ isRequested[b]
     /\ HighlightCode(b, k)
  \/ /\ ~isRequested[b]
     /\ UNCHANGED <<jobVars, highlightedHtml>>

(* processHighlightQueue with the tasks it finds: one runs, and a frame is  *)
(* asked for.                                                               *)
ProcessQueue(tasks, isRequested) ==
  \/ /\ tasks = <<>>
     /\ pendingHighlights' = tasks
     /\ isProcessingQueue' = FALSE
     /\ UNCHANGED <<jobVars, highlightedHtml>>
  \/ /\ tasks # <<>>
     /\ RunTask(tasks[1][1], tasks[1][2], isRequested)
     /\ pendingHighlights' = Tail(tasks)
     /\ isProcessingQueue' = TRUE

ScheduleHighlight(b, k, isRequested) ==
  LET tasks == Append(pendingHighlights, <<b, k>>) IN
  \/ /\ isProcessingQueue
     /\ pendingHighlights' = tasks
     /\ UNCHANGED <<isProcessingQueue, jobVars, highlightedHtml>>
  \/ /\ ~isProcessingQueue
     /\ ProcessQueue(tasks, isRequested)

-----------------------------------------------------------------------------
(* The fences                                                               *)

EffectThenCleanup(b) == [requested EXCEPT ![b] = ~hasCleanup[b]]

(* The ref after the cleanup of the last effect, then the effect.           *)
CleanupThenEffect(b) == [requested EXCEPT ![b] = TRUE]

(* Codes whose job was rejected: in flight for good.                        *)
Rejected == {k \in inFlight : running[k] = 0}

(* A task or a job of the fence is under way, and may show something yet.   *)
Busy(b) ==
  \E k \in Codes \ Rejected : <<b, k>> \in waiting \/ Contains(pendingHighlights, <<b, k>>)

(* A fence is mounted or given another code.                                *)
GiveCode(b, k) ==
  LET isRequested == CleanupThenEffect(b) IN
  /\ mounted[b]
  /\ code[b] # k
  /\ commits < MaxCommits
  /\ commits' = commits + 1
  /\ code' = [code EXCEPT ![b] = k]
  /\ requested' = isRequested
  /\ hasCleanup' = [hasCleanup EXCEPT ![b] = ~Cached(k)]
  /\ \/ /\ Cached(k)
        /\ highlightedHtml' = [highlightedHtml EXCEPT ![b] = k]
        /\ UNCHANGED <<jobVars, queueVars>>
     \/ /\ ~Cached(k)
        /\ ScheduleHighlight(b, k, isRequested)
  /\ outrun' = IF Busy(b) THEN outrun \cup {b} ELSE outrun
  /\ UNCHANGED <<mounted, failures>>

Unmount(b) ==
  /\ mounted[b]
  /\ code[b] # NoCode
  /\ mounted' = [mounted EXCEPT ![b] = FALSE]
  /\ requested' = [requested EXCEPT ![b] = @ /\ ~hasCleanup[b]]
  /\ UNCHANGED <<code, hasCleanup, commits, highlightedHtml, jobVars, queueVars,
                 failures, outrun>>

FrameRunsNone ==
  /\ isProcessingQueue
  /\ isProcessingQueue' = FALSE
  /\ UNCHANGED <<pendingHighlights, jobVars, blockVars, highlightedHtml, failures,
                 outrun>>

(* The animation frame asked for: on with the queue.                        *)
Frame ==
  /\ isProcessingQueue
  /\ ProcessQueue(pendingHighlights, requested)
  /\ UNCHANGED <<blockVars, failures, outrun>>

-----------------------------------------------------------------------------
(* The jobs                                                                 *)

(* The new entry goes last; the oldest makes room.                          *)
Store(k) ==
  LET entries == IF Cached(k) THEN highlightCache ELSE Append(highlightCache, k)
  IN  IF Len(entries) > MaxCache THEN Tail(entries) ELSE entries

(* Those waiting show it, unless their fence wants none by now.             *)
ShowToWaiting(k) ==
  highlightedHtml' =
    [b \in Blocks |->
       IF <<b, k>> \in waiting /\ requested[b] THEN k ELSE highlightedHtml[b]]

JobDone(k) ==
  /\ running[k] > 0
  /\ running' = [running EXCEPT ![k] = @ - 1]
  /\ inFlight' = inFlight \ {k}
  /\ highlightCache' = Store(k)
  /\ ShowToWaiting(k)
  /\ waiting' = {w \in waiting : w[2] # k}
  /\ UNCHANGED <<queueVars, blockVars, failures, outrun>>

(* The fallback language failed too: await throws before the entry of       *)
(* inFlightHighlights is deleted.                                           *)
JobFails(k) ==
  /\ running[k] > 0
  /\ failures < MaxFailures
  /\ failures' = failures + 1
  /\ running' = [running EXCEPT ![k] = @ - 1]
  /\ waiting' = {w \in waiting : w[2] # k}
  /\ UNCHANGED <<highlightCache, inFlight, queueVars, blockVars,
                 highlightedHtml, outrun>>

CodeNext ==
  \/ \E b \in Blocks, k \in Codes : GiveCode(b, k)
  \/ \E b \in Blocks : Unmount(b)
  \/ Frame
  \/ \E k \in Codes : JobDone(k) \/ JobFails(k)

CodeSpec == CodeInit /\ [][CodeNext]_codeVars

(* Frames come while the page is visible, and a job ends, one way or the    *)
(* other.                                                                   *)
CodeFairSpec ==
  /\ CodeSpec
  /\ WF_codeVars(Frame)
  /\ \A k \in Codes : WF_codeVars(JobDone(k) \/ JobFails(k))

-----------------------------------------------------------------------------
(* Properties                                                               *)

(* A code is highlighted by one job at a time, and never while its result   *)
(* is in the cache, though the fence that found it missing waited in the    *)
(* queue since.                                                             *)
OneJobPerCode ==
  \A k \in Codes : running[k] <= 1 /\ (running[k] > 0 => ~Cached(k))

(* Nothing is queued, no frame is due and no job runs.                      *)
Quiet ==
  /\ pendingHighlights = <<>>
  /\ ~isProcessingQueue
  /\ \A k \in Codes : running[k] = 0

(* When all is quiet no fence is left with plain text, whatever its code    *)
(* turned into while it waited, and each shows its own code, unless that    *)
(* came while an earlier one was still being highlighted.  The exception to *)
(* both is a code whose job failed.                                         *)
QuietShowsCode ==
  Quiet =>
    \A b \in Blocks :
      mounted[b] /\ code[b] \notin Rejected \cup {NoCode} =>
        /\ highlightedHtml[b] # NoCode
        /\ b \notin outrun => highlightedHtml[b] = code[b]

(* A task in the queue gets its turn even if no fence asks for another.     *)
QueueDrains == <>[]Quiet
=============================================================================
