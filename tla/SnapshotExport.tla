--------------------------- MODULE SnapshotExport ---------------------------
(***************************************************************************)
(* The export of the visual tree (src/tap/tree_export.cpp): an export      *)
(* worker advises a SnapshotCallback, collects what XAML reports on every  *)
(* UI thread, and gives the reported handles back on the thread that       *)
(* reported them, by messages whose send may time out and that may still   *)
(* be dispatched later.  What could not be finished stays published in     *)
(* g_pending, for a later worker.                                          *)
(*                                                                         *)
(* A payload <<t, n>> is the n-th ReleaseBatch made for thread t; late     *)
(* messages hold on to old payloads.  Workers are serialized by            *)
(* DriveTransition (ThemeTransition).                                      *)
(*                                                                         *)
(* External (XAML): a callback is entered only while it is advised; both   *)
(* calls may fail.  Left out: the text of the tree and the temporary file  *)
(* (WriteSnapshot succeeds or fails), windows destroyed with their thread. *)
(***************************************************************************)
EXTENDS Naturals, FiniteSets

CONSTANTS Threads,     \* UI threads
          Handles,     \* XAML instance handles
          MaxWorkers,  \* bounds the workers of a run
          MaxReports,  \* bounds the reports of a run
          NoThread

ASSUME SnapshotAssumption == /\ MaxWorkers \in Nat /\ MaxReports \in Nat
                             /\ NoThread \notin Threads

VARIABLES
  step, goal,  \* where the worker stands, and what follows its current stop
  result,      \* hr: "ok" or "failed"
  workers,     \* counts the workers
  held,        \* g_pending, and g_snapshot_needs_stop with it
  unadvised,   \* SnapshotOperation::unadvised
  normalized,  \* SnapshotOperation::releases_normalized
  todo,        \* threads whose batch the pass has not visited
  target,      \* the thread of the batch being sent or settled
  advised,     \* external: XAML holds the callback
  active,      \* SnapshotCallback::active
  idle,        \* the event SnapshotCallback::idle is set
  at, arg,     \* per thread: where its report stands, and its handles
  reports,     \* counts the reports
  batch,       \* callback.batches: the payload of each thread, 0 if none
  made,        \* counts the payloads of each thread
  phase,       \* ReleaseBatch::phase
  handles,     \* ReleaseBatch::handles
  window,      \* threads whose batch has a window
  sent,        \* messages not yet dispatched to the end
  running,     \* per thread: the payload it releases, 0 if none
  left,        \* per thread: the handles it has not tried yet
  owed,        \* external: handles reported and not unregistered
  disclaimed   \* handles given up by MarkHandleObservationIncomplete

worker == <<step, goal, result, workers, todo, target>>
operation == <<held, unadvised, normalized>>
callback == <<advised, active, idle, at, arg, reports>>
release == <<batch, made, phase, handles, window, sent, running, left>>
account == <<owed, disclaimed>>

vars == <<worker, operation, callback, release, account>>

\* A worker makes at most two payloads for a thread.
Numbers == 1..(2 * MaxWorkers)
Payloads == Threads \X Numbers
Steps == {"idle", "stop", "quiet", "waiting", "recheck", "normalize", "visit", "sending",
          "settle", "open", "advise", "write"}

TypeOK ==
  /\ step \in Steps /\ goal \in {"open", "write", "end"} /\ result \in {"ok", "failed"}
  /\ workers \in 0..MaxWorkers
  /\ {held, unadvised, normalized, advised, idle} \subseteq BOOLEAN
  /\ todo \subseteq Threads /\ target \in Threads \cup {NoThread}
  /\ active \in Nat
  /\ at \in [Threads -> {"out", "first", "inside", "collected", "last"}]
  /\ arg \in [Threads -> SUBSET Handles]
  /\ reports \in 0..MaxReports
  /\ made \in [Threads -> 0..(2 * MaxWorkers)]
  /\ \A t \in Threads : batch[t] \in {0, made[t]} /\ running[t] \in 0..made[t]
  /\ DOMAIN batch = Threads /\ DOMAIN running = Threads
  /\ phase \in [Payloads -> {"Pending", "Running", "Completed", "Canceled"}]
  /\ handles \in [Payloads -> SUBSET Handles]
  /\ window \subseteq Threads
  /\ sent \subseteq Payloads
  /\ left \in [Threads -> SUBSET Handles]
  /\ owed \subseteq Handles /\ disclaimed \subseteq Handles

Init ==
  /\ step = "idle" /\ goal = "end" /\ result = "ok" /\ workers = 0
  /\ held = FALSE /\ unadvised = FALSE /\ normalized = FALSE
  /\ todo = {} /\ target = NoThread
  /\ advised = FALSE /\ active = 0 /\ idle = TRUE
  /\ at = [t \in Threads |-> "out"] /\ arg = [t \in Threads |-> {}]
  /\ reports = 0
  /\ batch = [t \in Threads |-> 0] /\ made = [t \in Threads |-> 0]
  /\ phase = [p \in Payloads |-> "Pending"] /\ handles = [p \in Payloads |-> {}]
  /\ window = {} /\ sent = {}
  /\ running = [t \in Threads |-> 0] /\ left = [t \in Threads |-> {}]
  /\ owed = {} /\ disclaimed = {}

\* The payload a thread has in callback.batches.
Current(t) == <<t, batch[t]>>
Batched == {t \in Threads : batch[t] # 0}

-----------------------------------------------------------------------------
(* Reports, on the UI threads.  SnapshotCallback counts itself before it    *)
(* does anything else, and keeps itself alive through its epilogue.        *)

\* XAML registers the element, and its parent, and enters the callback.
ReportEnters(t, hs) ==
  /\ advised
  /\ at[t] = "out"
  /\ reports < MaxReports
  /\ reports' = reports + 1
  /\ active' = active + 1
  /\ at' = [at EXCEPT ![t] = IF active = 0 THEN "first" ELSE "inside"]
  /\ arg' = [arg EXCEPT ![t] = hs]
  /\ owed' = owed \cup hs
  /\ UNCHANGED <<worker, operation, advised, idle, release, disclaimed>>

ResetIdle(t) ==
  /\ at[t] = "first"
  /\ at' = [at EXCEPT ![t] = "inside"]
  /\ idle' = FALSE
  /\ UNCHANGED <<worker, operation, advised, active, arg, reports, release, account>>

\* Under the data mutex: the thread's batch gets the handles, and a window if it
\* has none and one can be had.  Handles there is no memory for are given up: the
\* observation is marked incomplete.
Collect(t) ==
  /\ at[t] = "inside"
  /\ at' = [at EXCEPT ![t] = "collected"]
  /\ LET new == batch[t] = 0
         n == IF new THEN made[t] + 1 ELSE batch[t]
     IN /\ batch' = [batch EXCEPT ![t] = n]
        /\ made' = [made EXCEPT ![t] = IF new THEN n ELSE @]
        /\ window' \in {window, window \cup {t}}
        /\ \E kept \in SUBSET arg[t] :
             /\ handles' = [handles EXCEPT ![<<t, n>>] = @ \cup kept]
             /\ disclaimed' = disclaimed \cup (arg[t] \ kept)
  /\ UNCHANGED <<worker, operation, advised, active, idle, arg, reports, phase, sent,
                 running, left, owed>>

\* A mutant: the count is compared after it was decremented.
ReportLeavesOffByOne(t) ==
  /\ at[t] = "collected"
  /\ active' = active - 1
  /\ at' = [at EXCEPT ![t] = IF active' = 1 THEN "last" ELSE "out"]
  /\ arg' = [arg EXCEPT ![t] = {}]
  /\ UNCHANGED <<worker, operation, advised, idle, reports, release, account>>

ReportLeaves(t) ==
  /\ at[t] = "collected"
  /\ active' = active - 1
  /\ at' = [at EXCEPT ![t] = IF active = 1 THEN "last" ELSE "out"]
  /\ arg' = [arg EXCEPT ![t] = {}]
  /\ UNCHANGED <<worker, operation, advised, idle, reports, release, account>>

SetIdle(t) ==
  /\ at[t] = "last"
  /\ at' = [at EXCEPT ![t] = "out"]
  /\ idle' = TRUE
  /\ UNCHANGED <<worker, operation, advised, active, arg, reports, release, account>>

-----------------------------------------------------------------------------
(* ReleaseOnOwnerThread, on the thread of the batch.                       *)

\* The message is dispatched: only a pending payload starts to run.
ReleaseOnOwnerThread(p) ==
  /\ p \in sent
  /\ running[p[1]] = 0
  /\ IF phase[p] = "Pending"
     THEN /\ phase' = [phase EXCEPT ![p] = "Running"]
          /\ running' = [running EXCEPT ![p[1]] = p[2]]
          /\ left' = [left EXCEPT ![p[1]] = handles[p]]
          /\ UNCHANGED sent
     ELSE /\ sent' = sent \ {p}
          /\ UNCHANGED <<phase, running, left>>
  /\ UNCHANGED <<worker, operation, callback, batch, made, handles, window, account>>

\* ReleaseHandle succeeds, or fails and the handle is retained.
ReleaseHandle(t, h) ==
  /\ running[t] # 0
  /\ h \in left[t]
  /\ left' = [left EXCEPT ![t] = @ \ {h}]
  /\ \/ /\ handles' = [handles EXCEPT ![<<t, running[t]>>] = @ \ {h}]
        /\ owed' = owed \ {h}
     \/ UNCHANGED <<handles, owed>>
  /\ UNCHANGED <<worker, operation, callback, batch, made, phase, window, sent, running,
                 disclaimed>>

\* The destructor of Done; the message is answered.
BatchDone(t) ==
  /\ running[t] # 0
  /\ left[t] = {}
  /\ phase' = [phase EXCEPT ![<<t, running[t]>>] = "Completed"]
  /\ running' = [running EXCEPT ![t] = 0]
  /\ sent' = sent \ {<<t, running[t]>>}
  /\ UNCHANGED <<worker, operation, callback, batch, made, handles, window, left, account>>

ThreadStep(t) == \/ \E hs \in SUBSET Handles \ {{}} : ReportEnters(t, hs)
                 \/ ResetIdle(t) \/ Collect(t) \/ ReportLeaves(t) \/ SetIdle(t)
                 \/ \E n \in Numbers : ReleaseOnOwnerThread(<<t, n>>)
                 \/ \E h \in Handles : ReleaseHandle(t, h)
                 \/ BatchDone(t)

-----------------------------------------------------------------------------
(* The export worker.                                                      *)

GoOn(next) == step' = next /\ UNCHANGED <<goal, result, workers, todo, target>>

\* It returns hr; what is still held makes it a failure (StartExportWorker).
End(hr) == /\ step' = "idle"
           /\ result' = IF held' THEN "failed" ELSE hr
           /\ todo' = {} /\ target' = NoThread
           /\ UNCHANGED <<goal, workers>>

\* StartExportWorker: ExportTreeToFile, or StopPendingSnapshot alone.
StartExportWorker(export) ==
  /\ step = "idle"
  /\ workers < MaxWorkers
  /\ workers' = workers + 1
  /\ goal' = IF export THEN "open" ELSE "end"
  /\ step' = IF held THEN "stop" ELSE IF export THEN "open" ELSE "idle"
  /\ result' = "ok"
  /\ UNCHANGED <<operation, todo, target, callback, release, account>>

\* StopReporting: a failed Unadvise keeps everything for another worker.
StopReporting ==
  /\ step = "stop"
  /\ UNCHANGED <<held, normalized>>
  /\ \/ unadvised /\ GoOn("quiet") /\ UNCHANGED <<unadvised, advised>>
     \/ ~unadvised /\ unadvised' = TRUE /\ advised' = FALSE /\ GoOn("quiet")
     \/ ~unadvised /\ End("failed") /\ UNCHANGED <<unadvised, advised>>
  /\ UNCHANGED <<active, idle, at, arg, reports, release, account>>

\* What follows when no report is left in the callback.
Stopped == GoOn(IF goal = "write" THEN "write" ELSE "normalize")

\* A mutant: the event is waited for without a timeout.
WaitQuietForever ==
  /\ UNCHANGED <<operation, callback, release, account>>
  /\ \/ step = "quiet" /\ active = 0 /\ Stopped
     \/ step = "quiet" /\ active # 0 /\ GoOn("waiting")
     \/ step = "waiting" /\ idle /\ GoOn("recheck")
     \/ step = "recheck" /\ active = 0 /\ Stopped
     \/ step = "recheck" /\ active # 0 /\ End("failed")

\* WaitQuiet: the count, else the event for five seconds, then the count again.
WaitQuiet ==
  /\ UNCHANGED <<operation, callback, release, account>>
  /\ \/ step = "quiet" /\ active = 0 /\ Stopped
     \/ step = "quiet" /\ active # 0 /\ GoOn("waiting")
     \/ step = "waiting" /\ idle /\ GoOn("recheck")
     \/ step = "waiting" /\ End("failed")
     \/ step = "recheck" /\ active = 0 /\ Stopped
     \/ step = "recheck" /\ active # 0 /\ End("failed")

\* ReleaseSnapshot begins: once, a handle that several threads reported stays in
\* the batch of one of them.
Normalize ==
  /\ step = "normalize"
  /\ normalized' = TRUE
  /\ IF normalized THEN UNCHANGED handles
     ELSE \E keeper \in [Handles -> Threads] :
            /\ \A h \in Handles :
                 (\E t \in Batched : h \in handles[Current(t)]) =>
                   keeper[h] \in Batched /\ h \in handles[Current(keeper[h])]
            /\ handles' = [p \in Payloads |->
                 IF p[2] = batch[p[1]] THEN {h \in handles[p] : keeper[h] = p[1]}
                 ELSE handles[p]]
  /\ step' = "visit"
  /\ todo' = Batched
  /\ UNCHANGED <<goal, result, workers, target, held, unadvised, callback, batch, made, phase,
                 window, sent, running, left, account>>

Erase(t) == batch' = [batch EXCEPT ![t] = 0]

Visited(t) == todo' = todo \ {t} /\ UNCHANGED <<goal, result, workers>>

\* The batches that need no message: one that has nothing left is erased, one
\* that has run through may be tried again by the next worker, one that is still
\* running or has no window is passed over.
SettleBatch(t) ==
  /\ IF handles[Current(t)] = {} /\ phase[Current(t)] \in {"Pending", "Completed"}
     THEN Erase(t) /\ UNCHANGED phase
     ELSE /\ phase' = [phase EXCEPT ![Current(t)] = IF @ = "Completed" THEN "Pending" ELSE @]
          /\ UNCHANGED batch
  /\ UNCHANGED <<operation, callback, made, handles, window, sent, running, left, account>>

PassOver(t) ==
  /\ step = "visit"
  /\ t \in todo
  /\ \/ phase[Current(t)] \in {"Running", "Completed"}
     \/ phase[Current(t)] = "Pending" /\ (handles[Current(t)] = {} \/ t \notin window)
  /\ SettleBatch(t)
  /\ Visited(t)
  /\ UNCHANGED <<step, target>>

\* A canceled payload is replaced by a fresh one, whatever it still holds.
Retry(t) ==
  /\ step = "visit"
  /\ t \in todo
  /\ phase[Current(t)] = "Canceled"
  /\ batch' = [batch EXCEPT ![t] = made[t] + 1]
  /\ made' = [made EXCEPT ![t] = @ + 1]
  /\ handles' = [handles EXCEPT ![<<t, made[t] + 1>>] = handles[Current(t)]]
  /\ UNCHANGED <<worker, operation, callback, phase, window, sent, running, left, account>>

\* RunOwnedOnWindowThread sends the payload to its thread...
SendBatch(t) ==
  /\ step = "visit"
  /\ t \in todo
  /\ phase[Current(t)] = "Pending" /\ handles[Current(t)] # {} /\ t \in window
  /\ sent' = sent \cup {Current(t)}
  /\ step' = "sending"
  /\ target' = t
  /\ UNCHANGED <<goal, result, workers, todo, operation, callback, batch, made, phase, handles,
                 window, running, left, account>>

\* ... and returns when it is answered,
SendReturns ==
  /\ step = "sending"
  /\ Current(target) \notin sent
  /\ GoOn("settle")
  /\ UNCHANGED <<operation, callback, release, account>>

\* A mutant: the payload is canceled even if it has begun to run.
SendFailsCanceling ==
  /\ step = "sending"
  /\ phase' = [phase EXCEPT ![Current(target)] = "Canceled"]
  /\ GoOn("settle")
  /\ UNCHANGED <<operation, callback, batch, made, handles, window, sent, running, left,
                 account>>

\* or fails, after the timeout or at once: a payload not yet begun is canceled.
SendFails ==
  /\ step = "sending"
  /\ phase' = [phase EXCEPT ![Current(target)] = IF @ = "Pending" THEN "Canceled" ELSE @]
  /\ GoOn("settle")
  /\ UNCHANGED <<operation, callback, batch, made, handles, window, sent, running, left,
                 account>>

\* A mutant: a batch that has run through is erased with what it retains.
SettleForgetting ==
  /\ step = "settle"
  /\ IF phase[Current(target)] = "Completed" THEN Erase(target) ELSE UNCHANGED batch
  /\ UNCHANGED <<operation, callback, made, phase, handles, window, sent, running, left, account>>
  /\ Visited(target)
  /\ step' = "visit"
  /\ target' = NoThread

Settle ==
  /\ step = "settle"
  /\ SettleBatch(target)
  /\ Visited(target)
  /\ step' = "visit"
  /\ target' = NoThread

\* A mutant: the operation is forgotten with batches left.
PassEndsAnyway ==
  /\ step = "visit"
  /\ todo = {}
  /\ held' = FALSE
  /\ IF goal = "open" THEN GoOn("open") ELSE End(result)
  /\ UNCHANGED <<unadvised, normalized, callback, release, account>>

\* When no batch is left, the operation is over.
PassEnds ==
  /\ step = "visit"
  /\ todo = {}
  /\ IF Batched = {}
     THEN /\ held' = FALSE
          /\ IF goal = "open" THEN GoOn("open") ELSE End(result)
     ELSE /\ UNCHANGED held
          /\ End("failed")
  /\ UNCHANGED <<unadvised, normalized, callback, release, account>>

\* A new operation with a callback of its own, if there is a session and a
\* service.  A report still in its epilogue sets the event of the callback before.
Open ==
  /\ step = "open"
  /\ \/ /\ held' = TRUE /\ unadvised' = FALSE /\ normalized' = FALSE
        /\ advised' = TRUE /\ idle' = TRUE /\ at' = [t \in Threads |-> "out"]
        /\ window' = {}
        /\ goal' = "write" /\ step' = "advise"
        /\ UNCHANGED <<result, workers, todo, target>>
     \/ /\ UNCHANGED <<operation, advised, idle, at, window>>
        /\ End("failed")
  /\ UNCHANGED <<active, arg, reports, batch, made, phase, handles, sent, running, left,
                 account>>

\* AdviseVisualTreeChange returns; its callback is stopped in either case.
AdviseReturns ==
  /\ step = "advise"
  /\ step' = "stop"
  /\ result' \in {"ok", "failed"}
  /\ UNCHANGED <<goal, workers, todo, target, operation, callback, release, account>>

\* WriteSnapshot, of a tree that is complete; the handles are released after it.
WriteSnapshot ==
  /\ step = "write"
  /\ result' \in {"failed", result}
  /\ goal' = "end"
  /\ step' = "stop"
  /\ UNCHANGED <<workers, todo, target, operation, callback, release, account>>

WorkerStep == \/ StopReporting \/ WaitQuiet \/ Normalize
              \/ \E t \in Threads : PassOver(t) \/ Retry(t) \/ SendBatch(t)
              \/ SendReturns \/ SendFails \/ Settle \/ PassEnds
              \/ Open \/ AdviseReturns \/ WriteSnapshot

Next == \/ \E export \in BOOLEAN : StartExportWorker(export)
        \/ WorkerStep
        \/ \E t \in Threads : ThreadStep(t)

Spec == Init /\ [][Next]_vars

\* The worker runs on: COM calls return, and waits and sends time out.  UI threads
\* may stall anywhere.
FairSpec == Spec /\ WF_vars(WorkerStep)

-----------------------------------------------------------------------------
\* While the snapshot is collected, sent, timed out, canceled and tried again, no
\* handle falls out: what XAML has reported and not unregistered is with its
\* report or in its batch, or the ledger says that it is incomplete.
Reporting(t) == at[t] \in {"first", "inside"}

HandlesKept ==
  owed \subseteq (UNION {arg[t] : t \in {u \in Threads : Reporting(u)}})
                 \cup (UNION {handles[Current(t)] : t \in Batched}) \cup disclaimed

\* A canceled payload never runs, and a payload that runs is not replaced: the
\* worker and the thread, or two threads, never work on one handle.
OneReleaser ==
  /\ \A t \in Threads : running[t] # 0 => running[t] = batch[t]
  /\ held /\ normalized => \A t, u \in Batched :
       t # u => handles[Current(t)] \cap handles[Current(u)] = {}

\* When SnapshotNeedsStop is false, which lets the next subscription start,
\* XAML has let the callback go, no report is inside, no thread is still releasing
\* and every handle is released.
NothingLeftBehind ==
  ~held => /\ ~advised /\ active = 0
           /\ Batched = {} /\ \A t \in Threads : running[t] = 0
           /\ owed \subseteq disclaimed

\* When all reports have left, the event is set, however their resets and
\* sets interleave: WaitQuiet does not sit out its timeout.
IdleIsSignalled == (\A t \in Threads : at[t] = "out") => idle

\* The worker ends, even if a UI thread stalls in a report or a release: the
\* transition that waits for it (theme_session.cpp) can go on.
WorkerEnds == step # "idle" ~> step = "idle"
=============================================================================
