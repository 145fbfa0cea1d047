------------------------ MODULE SnapshotExportProofs ------------------------
(* What holds of the export of a snapshot for any number of threads,        *)
(* handles, reports and workers, whatever is late, times out or fails.      *)
EXTENDS SnapshotExport, FiniteSetTheorems, TLAPS

(* TypeOK, in parts.                                                        *)
PayloadTypes ==
  /\ at \in [Threads -> {"out", "first", "inside", "collected", "last"}]
  /\ arg \in [Threads -> SUBSET Handles]
  /\ made \in [Threads -> 0..(2 * MaxWorkers)]
  /\ \A t \in Threads : batch[t] \in {0, made[t]} /\ running[t] \in 0..made[t]
  /\ DOMAIN batch = Threads /\ DOMAIN running = Threads
  /\ phase \in [Payloads -> {"Pending", "Running", "Completed", "Canceled"}]
  /\ handles \in [Payloads -> SUBSET Handles]
  /\ window \subseteq Threads
  /\ sent \subseteq Payloads
  /\ left \in [Threads -> SUBSET Handles]
Registers ==
  /\ step \in Steps /\ goal \in {"open", "write", "end"} /\ result \in {"ok", "failed"}
  /\ workers \in 0..MaxWorkers
  /\ {held, unadvised, normalized, advised, idle} \subseteq BOOLEAN
  /\ todo \subseteq Threads /\ target \in Threads \cup {NoThread}
  /\ active \in Nat
  /\ reports \in 0..MaxReports
  /\ owed \subseteq Handles /\ disclaimed \subseteq Handles

(* The reports that are counted.                                            *)
Inside == {t \in Threads : at[t] \in {"first", "inside", "collected"}}

Counted == IsFiniteSet(Inside) /\ active = Cardinality(Inside)

(* Who takes the count to zero is about to set the event.                   *)
Signalled == active = 0 => idle \/ \E t \in Threads : at[t] = "last"

(* What has come to rest when the worker stands at a step.                  *)
Passing == {"visit", "sending", "settle"}
Stopping ==
  /\ advised => held /\ ~unadvised
  /\ step \in {"stop", "advise"} => held
  /\ step \in {"quiet", "waiting", "recheck"} => held /\ unadvised
  /\ step \in {"normalize", "write"} \cup Passing => held /\ unadvised /\ active = 0
  /\ step \in Passing => normalized
  /\ step = "open" => ~held /\ goal = "open"
  /\ step \in {"advise", "write"} => goal = "write"
  /\ step \in {"normalize"} \cup Passing => goal # "write"
  /\ goal = "write" /\ step # "idle" => ~normalized
  /\ held /\ normalized => unadvised /\ active = 0
  /\ ~held => active = 0 /\ Batched = {}

Visiting ==
  /\ step \in Passing => todo \subseteq Batched
  /\ step \in {"sending", "settle"} => target \in todo

(* The life of a payload: one not made is blank, one that runs is current,  *)
(* and only the one being sent can still begin.                             *)
Life(t, n) ==
  /\ n > made[t] => /\ phase[<<t, n>>] = "Pending" /\ handles[<<t, n>>] = {}
                    /\ <<t, n>> \notin sent
  /\ phase[<<t, n>>] = "Running" <=> running[t] = n
  /\ phase[<<t, n>>] = "Running" => n = batch[t]
  /\ phase[<<t, n>>] = "Completed" => <<t, n>> \notin sent
  /\ phase[<<t, n>>] = "Pending" /\ <<t, n>> \in sent
       => step = "sending" /\ target = t /\ n = batch[t]
  /\ phase[<<t, n>>] = "Canceled" /\ n = batch[t] /\ held => normalized

Lives == \A t \in Threads, n \in Numbers : Life(t, n)

(* The payloads a thread may still be given: the retry of a canceled one,   *)
(* the batch of a report that comes, that of the export to be opened.       *)
Retriable(t) ==
  /\ batch[t] # 0 /\ phase[Current(t)] = "Canceled"
  /\ \/ step \in {"stop", "quiet", "waiting", "recheck", "normalize"}
     \/ step \in Passing /\ t \in todo /\ (step # "visit" => t # target)
Collectable(t) == batch[t] = 0 /\ held /\ (advised \/ active > 0)
Reserved == goal = "open" /\ step # "idle"

One(b) == IF b THEN 1 ELSE 0
Afforded == \A t \in Threads :
  made[t] + One(Retriable(t)) + One(Collectable(t)) + One(Reserved) <= 2 * workers

(* Once normalized, a handle is in the batch of one thread.                 *)
Normalized == held /\ normalized => \A t, u \in Batched :
                t # u => handles[Current(t)] \cap handles[Current(u)] = {}

Found(h) == \/ \E t \in Threads : Reporting(t) /\ h \in arg[t]
            \/ \E t \in Batched : h \in handles[Current(t)]
            \/ h \in disclaimed
Kept == \A h \in owed : Found(h)

Inv == TypeOK /\ Counted /\ Signalled /\ Stopping /\ Visiting /\ Lives /\ Afforded
         /\ Normalized /\ Kept

-----------------------------------------------------------------------------
(* The count of the reports.                                                *)

LEMMA CountMeaning ==
  ASSUME Inv
  PROVE  /\ active = 0 <=> Inside = {}
         /\ \A t \in Threads : at[t] \in {"first", "inside", "collected"} => active > 0
<1>1. active = 0 <=> Inside = {}
  BY FS_EmptySet DEF Inv, Counted
<1> QED BY <1>1 DEF Inv, TypeOK, Inside

LEMMA CountedStep == ASSUME Inv, [Next]_vars PROVE Counted'
<1> USE DEF Inv, TypeOK, Counted
<1>1. ASSUME Inside' = Inside, active' = active PROVE Counted'
  BY <1>1
<1>2. ASSUME NEW t \in Threads, NEW hs \in SUBSET Handles, ReportEnters(t, hs) PROVE Counted'
  <2>1. t \notin Inside /\ Inside' = Inside \cup {t} /\ active' = active + 1
    BY <1>2 DEF ReportEnters, Inside
  <2> QED BY <2>1, FS_AddElement
<1>3. ASSUME NEW t \in Threads, ReportLeaves(t) PROVE Counted'
  <2>1. t \in Inside /\ Inside' = Inside \ {t} /\ active' = active - 1
    BY <1>3 DEF ReportLeaves, Inside
  <2> QED BY <2>1, FS_RemoveElement
<1>4. CASE Open
  <2>1. CASE UNCHANGED at
    BY <1>1, <1>4, <2>1 DEF Open, Inside
  <2>2. CASE at' = [t \in Threads |-> "out"]
    <3>1. active = 0 /\ Inside = {}
      BY <1>4, CountMeaning DEF Open, Stopping
    <3>2. Inside' = {} /\ active' = active
      BY <1>4, <2>2 DEF Open, Inside
    <3> QED BY <1>1, <3>1, <3>2
  <2> QED BY <1>4, <2>1, <2>2 DEF Open
<1>5. CASE \E t \in Threads : ResetIdle(t) \/ Collect(t) \/ SetIdle(t)
  <2>1. Inside' = Inside /\ active' = active
    BY <1>5 DEF ResetIdle, Collect, SetIdle, Inside
  <2> QED BY <1>1, <2>1
<1>6. CASE UNCHANGED <<at, active>>
  BY <1>1, <1>6 DEF Inside
<1> HIDE DEF Inv, TypeOK, Counted
<1>7. CASE WorkerStep /\ ~Open
  BY <1>6, <1>7 DEF WorkerStep, StopReporting, WaitQuiet, Normalize, PassOver, Retry, SendBatch,
           SendReturns, SendFails, Settle, PassEnds, AdviseReturns, WriteSnapshot, SettleBatch,
           callback
<1>8. CASE \E t \in Threads : \/ \E n \in Numbers : ReleaseOnOwnerThread(<<t, n>>)
                              \/ \E h \in Handles : ReleaseHandle(t, h)
                              \/ BatchDone(t)
  BY <1>6, <1>8 DEF ReleaseOnOwnerThread, ReleaseHandle, BatchDone, callback
<1>9. CASE \/ UNCHANGED vars \/ \E export \in BOOLEAN : StartExportWorker(export)
  BY <1>6, <1>9 DEF vars, callback, StartExportWorker
<1> QED BY <1>2, <1>3, <1>4, <1>5, <1>7, <1>8, <1>9 DEF Next, ThreadStep

-----------------------------------------------------------------------------
(* What the operations do to the payloads.                                  *)

LEMMA CurrentIsPayload ==
  ASSUME Inv, NEW t \in Batched
  PROVE  /\ t \in Threads /\ batch[t] \in Numbers /\ batch[t] = made[t]
         /\ Current(t) \in Payloads
<1>1. /\ t \in Threads /\ batch[t] # 0 /\ batch[t] \in {0, made[t]}
      /\ made[t] \in 0..(2 * MaxWorkers)
  BY DEF Inv, TypeOK, Batched
<1> QED BY <1>1, SnapshotAssumption DEF Numbers, Payloads, Current

LEMMA Room ==
  ASSUME Inv, NEW t \in Threads, Retriable(t) \/ Collectable(t)
  PROVE  made[t] + 1 \in Numbers
<1>1. made[t] + 1 <= 2 * workers
  BY DEF Inv, TypeOK, Afforded, One
<1>2. made[t] \in Nat /\ workers \in Nat /\ workers <= MaxWorkers /\ MaxWorkers \in Nat
  BY SnapshotAssumption DEF Inv, TypeOK
<1> QED BY <1>1, <1>2 DEF Numbers

(* A canceled payload is replaced by a new one with its handles.            *)
Retried(t) ==
  /\ PayloadTypes'
  /\ step = "visit" /\ t \in todo /\ t \in Batched /\ phase[Current(t)] = "Canceled"
  /\ made[t] + 1 \in Numbers
  /\ \A u \in Threads : /\ batch'[u] = IF u = t THEN made[t] + 1 ELSE batch[u]
                        /\ made'[u] = IF u = t THEN made[t] + 1 ELSE made[u]
  /\ \A u \in Threads, n \in Numbers :
       handles'[<<u, n>>] = IF u = t /\ n = made[t] + 1 THEN handles[Current(t)]
                            ELSE handles[<<u, n>>]
  /\ UNCHANGED <<worker, operation, callback, phase, window, sent, running, left, account>>

LEMMA RetryEffect == ASSUME Inv, NEW t \in Threads, Retry(t) PROVE Retried(t)
<1>1. /\ step = "visit" /\ t \in todo /\ phase[Current(t)] = "Canceled"
      /\ batch' = [batch EXCEPT ![t] = made[t] + 1]
      /\ made' = [made EXCEPT ![t] = made[t] + 1]
      /\ handles' = [handles EXCEPT ![<<t, made[t] + 1>>] = handles[Current(t)]]
      /\ UNCHANGED <<worker, operation, callback, phase, window, sent, running, left, account>>
  BY DEF Retry
<1>2. t \in Batched
  BY <1>1 DEF Inv, Visiting, Passing
<1>3. Retriable(t)
  BY <1>1, <1>2 DEF Retriable, Passing, Batched
<1>4. made[t] + 1 \in Numbers /\ Current(t) \in Payloads
  BY <1>3, <1>2, Room, CurrentIsPayload
<1>5. <<t, made[t] + 1>> \in Payloads
  BY <1>4 DEF Payloads
<1>6. handles \in [Payloads -> SUBSET Handles]
  BY DEF Inv, TypeOK
<1>7. handles' \in [Payloads -> SUBSET Handles]
  BY <1>1, <1>4, <1>6
<1>8. \A u \in Threads, n \in Numbers :
        handles'[<<u, n>>] = IF u = t /\ n = made[t] + 1 THEN handles[Current(t)]
                             ELSE handles[<<u, n>>]
  BY <1>1, <1>5, <1>6 DEF Payloads
<1>9. /\ made \in [Threads -> 0..(2 * MaxWorkers)]
      /\ \A u \in Threads : batch[u] \in {0, made[u]} /\ running[u] \in 0..made[u]
      /\ DOMAIN batch = Threads /\ DOMAIN running = Threads
  BY DEF Inv, TypeOK
<1>10. \A u \in Threads : /\ batch'[u] = IF u = t THEN made[t] + 1 ELSE batch[u]
                          /\ made'[u] = IF u = t THEN made[t] + 1 ELSE made[u]
  BY <1>1, <1>9
<1>11. made' \in [Threads -> 0..(2 * MaxWorkers)] /\ DOMAIN batch' = Threads
  BY <1>1, <1>4, <1>9, SnapshotAssumption DEF Numbers
<1>12. \A u \in Threads : batch'[u] \in {0, made'[u]} /\ running'[u] \in 0..made'[u]
  BY <1>1, <1>4, <1>9, <1>10, SnapshotAssumption DEF Numbers, release
<1>13. PayloadTypes'
  BY <1>1, <1>7, <1>9, <1>11, <1>12 DEF PayloadTypes, Inv, TypeOK, callback
<1> QED BY <1>1, <1>2, <1>4, <1>8, <1>10, <1>13 DEF Retried

(* The handles of a report go to the current payload of its thread, the     *)
(* first report's to a new one; the rest is given up.                       *)
Collected(t) ==
  /\ PayloadTypes'
  /\ at[t] = "inside" /\ active > 0 /\ held /\ ~normalized
  /\ \A u \in Threads : at'[u] = IF u = t THEN "collected" ELSE at[u]
  /\ \E n \in Numbers, kept \in SUBSET arg[t] :
       /\ n = IF batch[t] = 0 THEN made[t] + 1 ELSE made[t]
       /\ \A u \in Threads : /\ batch'[u] = IF u = t THEN n ELSE batch[u]
                             /\ made'[u] = IF u = t THEN n ELSE made[u]
       /\ \A u \in Threads, m \in Numbers :
            handles'[<<u, m>>] = IF u = t /\ m = n THEN handles[<<t, n>>] \cup kept
                                 ELSE handles[<<u, m>>]
       /\ disclaimed' = disclaimed \cup (arg[t] \ kept)
  /\ UNCHANGED <<worker, operation, advised, active, idle, arg, reports, phase, sent,
                 running, left, owed>>

LEMMA CollectEffect == ASSUME Inv, NEW t \in Threads, Collect(t) PROVE Collected(t)
<1>1. at[t] = "inside" /\ active > 0 /\ held /\ ~normalized
  BY CountMeaning DEF Collect, Inv, Stopping
<1> DEFINE n == IF batch[t] = 0 THEN made[t] + 1 ELSE batch[t]
<1>2. PICK kept \in SUBSET arg[t] :
        /\ handles' = [handles EXCEPT ![<<t, n>>] = @ \cup kept]
        /\ disclaimed' = disclaimed \cup (arg[t] \ kept)
        /\ batch' = [batch EXCEPT ![t] = n]
        /\ made' = [made EXCEPT ![t] = IF batch[t] = 0 THEN n ELSE @]
        /\ at' = [at EXCEPT ![t] = "collected"]
        /\ window' \in {window, window \cup {t}}
        /\ UNCHANGED <<worker, operation, advised, active, idle, arg, reports, phase, sent,
                       running, left, owed>>
  BY DEF Collect
<1>3. n \in Numbers /\ n = IF batch[t] = 0 THEN made[t] + 1 ELSE made[t]
  <2>1. CASE batch[t] = 0
    <3>1. Collectable(t)
      BY <1>1, <2>1 DEF Collectable
    <3> QED BY <2>1, <3>1, Room
  <2>2. CASE batch[t] # 0
    BY <2>2, CurrentIsPayload DEF Batched
  <2> QED BY <2>1, <2>2 DEF Collected
<1> HIDE DEF n
<1>4. /\ handles \in [Payloads -> SUBSET Handles] /\ at \in [Threads ->
           {"out", "first", "inside", "collected", "last"}]
      /\ arg[t] \subseteq Handles /\ window \subseteq Threads
      /\ made \in [Threads -> 0..(2 * MaxWorkers)]
      /\ \A u \in Threads : batch[u] \in {0, made[u]} /\ running[u] \in 0..made[u]
      /\ DOMAIN batch = Threads /\ DOMAIN running = Threads
  BY DEF Inv, TypeOK
<1>5. <<t, n>> \in Payloads
  BY <1>3 DEF Payloads
<1>6. handles' \in [Payloads -> SUBSET Handles]
  BY <1>2, <1>4, <1>5
<1>7. \A u \in Threads, m \in Numbers :
        handles'[<<u, m>>] = IF u = t /\ m = n THEN handles[<<t, n>>] \cup kept
                             ELSE handles[<<u, m>>]
  BY <1>2, <1>4, <1>5 DEF Payloads
<1>8. \A u \in Threads : /\ batch'[u] = IF u = t THEN n ELSE batch[u]
                         /\ made'[u] = IF u = t THEN n ELSE made[u]
                         /\ at'[u] = IF u = t THEN "collected" ELSE at[u]
  BY <1>2, <1>3, <1>4
<1>9. made' \in [Threads -> 0..(2 * MaxWorkers)] /\ DOMAIN batch' = Threads
  BY <1>2, <1>3, <1>4, SnapshotAssumption DEF Numbers
<1>10. \A u \in Threads : batch'[u] \in {0, made'[u]} /\ running'[u] \in 0..made'[u]
  BY <1>2, <1>3, <1>4, <1>8, SnapshotAssumption DEF Numbers
<1>11. at' \in [Threads -> {"out", "first", "inside", "collected", "last"}]
       /\ window' \subseteq Threads
  BY <1>2, <1>4
<1>12. PayloadTypes'
  BY <1>2, <1>6, <1>9, <1>10, <1>11 DEF PayloadTypes, Inv, TypeOK
<1> QED BY <1>1, <1>2, <1>3, <1>7, <1>8, <1>12 DEF Collected

(* A batch is erased when it has nothing left and does not run; one that    *)
(* has run through may be tried again.                                      *)
Settled(t) ==
  /\ PayloadTypes'
  /\ t \in Batched
  /\ \/ /\ handles[Current(t)] = {} /\ phase[Current(t)] \in {"Pending", "Completed"}
        /\ \A u \in Threads : batch'[u] = IF u = t THEN 0 ELSE batch[u]
        /\ phase' = phase
     \/ /\ batch' = batch
        /\ \A u \in Threads, n \in Numbers :
             phase'[<<u, n>>] = IF /\ u = t /\ n = batch[t]
                                   /\ phase[<<u, n>>] = "Completed"
                                THEN "Pending" ELSE phase[<<u, n>>]
  /\ UNCHANGED <<operation, callback, made, handles, window, sent, running, left, account>>

LEMMA SettleEffect == ASSUME Inv, step \in Passing, NEW t \in todo, SettleBatch(t) PROVE Settled(t)
<1>1. t \in Batched
  BY DEF Inv, Visiting
<1>2. t \in Threads /\ batch[t] \in Numbers /\ Current(t) \in Payloads
  BY <1>1, CurrentIsPayload
<1>3. /\ phase \in [Payloads -> {"Pending", "Running", "Completed", "Canceled"}]
      /\ \A u \in Threads : batch[u] \in {0, made[u]}
      /\ DOMAIN batch = Threads
  BY DEF Inv, TypeOK
<1>4. UNCHANGED <<operation, callback, made, handles, window, sent, running, left, account>>
  BY DEF SettleBatch
<1>5. CASE handles[Current(t)] = {} /\ phase[Current(t)] \in {"Pending", "Completed"}
  <2>1. batch' = [batch EXCEPT ![t] = 0] /\ phase' = phase
    BY <1>5 DEF SettleBatch, Erase
  <2>2. \A u \in Threads : batch'[u] = IF u = t THEN 0 ELSE batch[u]
    BY <1>3, <2>1
  <2>3. DOMAIN batch' = Threads /\ \A u \in Threads : batch'[u] \in {0, made'[u]}
    BY <1>3, <1>4, <2>1, <2>2
  <2>4. PayloadTypes'
    BY <1>4, <2>1, <2>3 DEF PayloadTypes, Inv, TypeOK, callback
  <2> QED BY <1>1, <1>4, <1>5, <2>1, <2>2, <2>4 DEF Settled
<1>6. CASE ~(handles[Current(t)] = {} /\ phase[Current(t)] \in {"Pending", "Completed"})
  <2>1. /\ phase' = [phase EXCEPT ![Current(t)] = IF @ = "Completed" THEN "Pending" ELSE @]
        /\ batch' = batch
    BY <1>6 DEF SettleBatch
  <2>2. phase' \in [Payloads -> {"Pending", "Running", "Completed", "Canceled"}]
    BY <1>2, <1>3, <2>1
  <2>3. \A u \in Threads, n \in Numbers :
          phase'[<<u, n>>] = IF u = t /\ n = batch[t] /\ phase[<<u, n>>] = "Completed"
                             THEN "Pending" ELSE phase[<<u, n>>]
    BY <1>2, <1>3, <2>1 DEF Payloads, Current
  <2>4. PayloadTypes'
    BY <1>4, <2>1, <2>2 DEF PayloadTypes, Inv, TypeOK, callback
  <2> QED BY <1>1, <1>4, <2>1, <2>3, <2>4 DEF Settled
<1> QED BY <1>5, <1>6 DEF Settled

(* A payload that is dispatched begins only while it is pending.            *)
Dispatched(t, n) ==
  /\ PayloadTypes'
  /\ <<t, n>> \in sent /\ running[t] = 0
  /\ \/ /\ phase[<<t, n>>] = "Pending" /\ sent' = sent
        /\ \A u \in Threads : running'[u] = IF u = t THEN n ELSE running[u]
        /\ \A u \in Threads, m \in Numbers :
             phase'[<<u, m>>] = IF u = t /\ m = n THEN "Running" ELSE phase[<<u, m>>]
     \/ /\ phase[<<t, n>>] # "Pending" /\ sent' = sent \ {<<t, n>>}
        /\ UNCHANGED <<phase, running>>
  /\ UNCHANGED <<worker, operation, callback, batch, made, handles, window, account>>

LEMMA DispatchEffect == ASSUME Inv, NEW t \in Threads, NEW n \in Numbers, ReleaseOnOwnerThread(<<t, n>>) PROVE Dispatched(t, n)
<1>1. <<t, n>> \in Payloads /\ <<t, n>>[1] = t /\ <<t, n>>[2] = n
  BY DEF Payloads
<1>2. /\ <<t, n>> \in sent /\ running[t] = 0
      /\ UNCHANGED <<worker, operation, callback, batch, made, handles, window, account>>
  BY <1>1 DEF ReleaseOnOwnerThread
<1>3. /\ phase \in [Payloads -> {"Pending", "Running", "Completed", "Canceled"}]
      /\ handles \in [Payloads -> SUBSET Handles] /\ sent \subseteq Payloads
      /\ made \in [Threads -> 0..(2 * MaxWorkers)]
      /\ \A u \in Threads : batch[u] \in {0, made[u]} /\ running[u] \in 0..made[u]
      /\ DOMAIN batch = Threads /\ DOMAIN running = Threads
      /\ left \in [Threads -> SUBSET Handles]
  BY DEF Inv, TypeOK
<1>4. CASE phase[<<t, n>>] = "Pending"
  <2>1. /\ phase' = [phase EXCEPT ![<<t, n>>] = "Running"] /\ sent' = sent
        /\ running' = [running EXCEPT ![t] = n]
        /\ left' = [left EXCEPT ![t] = handles[<<t, n>>]]
    BY <1>1, <1>4 DEF ReleaseOnOwnerThread
  <2>2. n <= made[t]
    BY <1>2, <1>3 DEF Inv, Lives, Life, Numbers
  <2>3. \A u \in Threads : running'[u] = IF u = t THEN n ELSE running[u]
    BY <1>3, <2>1
  <2>4. DOMAIN running' = Threads /\ \A u \in Threads : running'[u] \in 0..made'[u]
    BY <1>2, <1>3, <2>1, <2>2, <2>3 DEF Numbers
  <2>5. \A u \in Threads, m \in Numbers :
          phase'[<<u, m>>] = IF u = t /\ m = n THEN "Running" ELSE phase[<<u, m>>]
    BY <1>1, <1>3, <2>1 DEF Payloads
  <2>6. /\ phase' \in [Payloads -> {"Pending", "Running", "Completed", "Canceled"}]
        /\ left' \in [Threads -> SUBSET Handles]
    BY <1>1, <1>3, <2>1
  <2>7. PayloadTypes'
    BY <1>2, <2>1, <2>4, <2>6 DEF PayloadTypes, Inv, TypeOK, callback
  <2> QED BY <1>2, <1>4, <2>1, <2>3, <2>5, <2>7 DEF Dispatched
<1>5. CASE phase[<<t, n>>] # "Pending"
  <2>1. sent' = sent \ {<<t, n>>} /\ UNCHANGED <<phase, running, left>>
    BY <1>5 DEF ReleaseOnOwnerThread
  <2>2. PayloadTypes'
    BY <1>2, <1>3, <2>1 DEF PayloadTypes, Inv, TypeOK, callback
  <2> QED BY <1>2, <1>5, <2>1, <2>2 DEF Dispatched
<1> QED BY <1>4, <1>5 DEF Dispatched

(* A payload that runs is the current one of its thread.                    *)
LEMMA RunningIsCurrent ==
  ASSUME Inv, NEW t \in Threads, running[t] # 0
  PROVE  /\ t \in Batched /\ running[t] = batch[t] /\ running[t] \in Numbers
         /\ Current(t) \in Payloads /\ phase[Current(t)] = "Running"
<1>1. running[t] \in Numbers
  BY SnapshotAssumption DEF Inv, TypeOK, Numbers
<1>2. phase[<<t, running[t]>>] = "Running" /\ running[t] = batch[t]
  BY <1>1 DEF Inv, Lives, Life
<1> QED BY <1>1, <1>2, CurrentIsPayload DEF Batched, Current

(* A handle leaves the payload, or is retained by it.                       *)
Released(t, h) ==
  /\ PayloadTypes'
  /\ t \in Batched
  /\ \/ /\ owed' = owed \ {h}
        /\ \A u \in Threads, n \in Numbers :
             handles'[<<u, n>>] = IF u = t /\ n = batch[t] THEN handles[<<u, n>>] \ {h}
                                  ELSE handles[<<u, n>>]
     \/ UNCHANGED <<handles, owed>>
  /\ UNCHANGED <<worker, operation, callback, batch, made, phase, window, sent, running,
                 disclaimed>>

LEMMA ReleaseEffect == ASSUME Inv, NEW t \in Threads, NEW h \in Handles, ReleaseHandle(t, h) PROVE Released(t, h)
<1>1. t \in Batched /\ running[t] = batch[t] /\ Current(t) \in Payloads
  BY RunningIsCurrent DEF ReleaseHandle
<1>2. handles \in [Payloads -> SUBSET Handles] /\ left \in [Threads -> SUBSET Handles]
  BY DEF Inv, TypeOK
<1>3. UNCHANGED <<worker, operation, callback, batch, made, phase, window, sent, running,
                  disclaimed>>
      /\ left' = [left EXCEPT ![t] = @ \ {h}]
  BY DEF ReleaseHandle
<1>4. left' \in [Threads -> SUBSET Handles]
  BY <1>2, <1>3
<1>5. CASE UNCHANGED <<handles, owed>>
  <2>1. PayloadTypes'
    BY <1>3, <1>4, <1>5 DEF PayloadTypes, Inv, TypeOK, callback
  <2> QED BY <1>1, <1>3, <1>5, <2>1 DEF Released
<1>6. CASE /\ handles' = [handles EXCEPT ![Current(t)] = @ \ {h}]
           /\ owed' = owed \ {h}
  <2>1. handles' \in [Payloads -> SUBSET Handles]
    BY <1>1, <1>2, <1>6
  <2>2. \A u \in Threads, n \in Numbers :
          handles'[<<u, n>>] = IF u = t /\ n = batch[t] THEN handles[<<u, n>>] \ {h}
                               ELSE handles[<<u, n>>]
    BY <1>1, <1>2, <1>6 DEF Payloads, Current
  <2>3. PayloadTypes'
    BY <1>3, <1>4, <2>1 DEF PayloadTypes, Inv, TypeOK, callback
  <2> QED BY <1>1, <1>3, <1>6, <2>2, <2>3 DEF Released
<1> QED BY <1>1, <1>5, <1>6 DEF ReleaseHandle, Current, Released

Finished(t) ==
  /\ PayloadTypes'
  /\ t \in Batched /\ running[t] = batch[t] /\ phase[Current(t)] = "Running"
  /\ \A u \in Threads : running'[u] = IF u = t THEN 0 ELSE running[u]
  /\ \A u \in Threads, n \in Numbers :
       phase'[<<u, n>>] = IF u = t /\ n = batch[t] THEN "Completed" ELSE phase[<<u, n>>]
  /\ sent' = sent \ {Current(t)}
  /\ UNCHANGED <<worker, operation, callback, batch, made, handles, window, left, account>>

LEMMA DoneEffect == ASSUME Inv, NEW t \in Threads, BatchDone(t) PROVE Finished(t)
<1>1. /\ t \in Batched /\ running[t] = batch[t] /\ Current(t) \in Payloads
      /\ phase[Current(t)] = "Running"
  BY RunningIsCurrent DEF BatchDone
<1>2. /\ phase' = [phase EXCEPT ![Current(t)] = "Completed"]
      /\ running' = [running EXCEPT ![t] = 0]
      /\ sent' = sent \ {Current(t)}
      /\ UNCHANGED <<worker, operation, callback, batch, made, handles, window, left, account>>
  BY <1>1 DEF BatchDone, Current
<1>3. /\ phase \in [Payloads -> {"Pending", "Running", "Completed", "Canceled"}]
      /\ sent \subseteq Payloads /\ made \in [Threads -> 0..(2 * MaxWorkers)]
      /\ DOMAIN running = Threads /\ \A u \in Threads : running[u] \in 0..made[u]
  BY DEF Inv, TypeOK
<1>4. /\ phase' \in [Payloads -> {"Pending", "Running", "Completed", "Canceled"}]
      /\ sent' \subseteq Payloads
  BY <1>1, <1>2, <1>3
<1>5. /\ DOMAIN running' = Threads
      /\ \A u \in Threads : running'[u] = IF u = t THEN 0 ELSE running[u]
  BY <1>2, <1>3
<1>6. \A u \in Threads : running'[u] \in 0..made'[u]
  BY <1>2, <1>3, <1>5, SnapshotAssumption
<1>7. \A u \in Threads, n \in Numbers :
        phase'[<<u, n>>] = IF u = t /\ n = batch[t] THEN "Completed" ELSE phase[<<u, n>>]
  BY <1>1, <1>2, <1>3 DEF Payloads, Current
<1>8. PayloadTypes'
  BY <1>2, <1>4, <1>5, <1>6 DEF PayloadTypes, Inv, TypeOK, callback
<1> QED BY <1>1, <1>2, <1>5, <1>7, <1>8 DEF Finished

(* Of a handle that several batches hold, one keeps it.                     *)
Distributed ==
  /\ PayloadTypes'
  /\ step = "normalize" /\ step' = "visit" /\ todo' = Batched /\ normalized' = TRUE
  /\ \/ normalized /\ handles' = handles
     \/ /\ ~normalized
        /\ \E keeper \in [Handles -> Threads] :
             /\ \A h \in Handles : \A t \in Batched :
                  h \in handles[Current(t)] =>
                    keeper[h] \in Batched /\ h \in handles[Current(keeper[h])]
             /\ \A t \in Threads, n \in Numbers :
                  handles'[<<t, n>>] = IF n = batch[t]
                                       THEN {h \in handles[<<t, n>>] : keeper[h] = t}
                                       ELSE handles[<<t, n>>]
  /\ UNCHANGED <<goal, result, workers, target, held, unadvised, callback, batch, made,
                 phase, window, sent, running, left, account>>

LEMMA NormalizeEffect == ASSUME Inv, Normalize PROVE Distributed
<1>1. /\ step = "normalize" /\ step' = "visit" /\ todo' = Batched /\ normalized' = TRUE
      /\ UNCHANGED <<goal, result, workers, target, held, unadvised, callback, batch, made,
                     phase, window, sent, running, left, account>>
  BY DEF Normalize
<1>2. CASE normalized
  <2>1. handles' = handles
    BY <1>2 DEF Normalize
  <2>2. PayloadTypes'
    BY <1>1, <2>1 DEF PayloadTypes, Inv, TypeOK, callback
  <2> QED BY <1>1, <1>2, <2>1, <2>2 DEF Distributed
<1>3. CASE ~normalized
  <2>1. PICK keeper \in [Handles -> Threads] :
          /\ \A h \in Handles :
               (\E t \in Batched : h \in handles[Current(t)]) =>
                 keeper[h] \in Batched /\ h \in handles[Current(keeper[h])]
          /\ handles' = [p \in Payloads |->
               IF p[2] = batch[p[1]] THEN {h \in handles[p] : keeper[h] = p[1]}
               ELSE handles[p]]
    BY <1>3 DEF Normalize
  <2>2. ASSUME NEW t \in Threads, NEW n \in Numbers
        PROVE  handles'[<<t, n>>] = IF n = batch[t] THEN {h \in handles[<<t, n>>] : keeper[h] = t}
                                    ELSE handles[<<t, n>>]
    BY <2>1, <2>2 DEF Payloads
  <2>3. handles \in [Payloads -> SUBSET Handles]
    BY DEF Inv, TypeOK
  <2>4. handles' \in [Payloads -> SUBSET Handles]
    BY <2>1, <2>3
  <2>5. PayloadTypes'
    BY <1>1, <2>4 DEF PayloadTypes, Inv, TypeOK, callback
  <2> QED BY <1>1, <1>3, <2>1, <2>2, <2>5 DEF Distributed
<1> QED BY <1>2, <1>3 DEF Distributed

(* A failed send cancels a payload that has not begun.                      *)
SendFailed ==
  /\ PayloadTypes'
  /\ step = "sending" /\ step' = "settle" /\ target \in Batched /\ target \in todo
  /\ \A t \in Threads, n \in Numbers :
       phase'[<<t, n>>] = IF /\ t = target /\ n = batch[t]
                             /\ phase[<<t, n>>] = "Pending"
                          THEN "Canceled" ELSE phase[<<t, n>>]
  /\ UNCHANGED <<goal, result, workers, todo, target, operation, callback, batch, made,
                 handles, window, sent, running, left, account>>

LEMMA SendFailsEffect == ASSUME Inv, SendFails PROVE SendFailed
<1>1. /\ step = "sending" /\ step' = "settle"
      /\ phase' = [phase EXCEPT ![Current(target)] = IF @ = "Pending" THEN "Canceled" ELSE @]
      /\ UNCHANGED <<goal, result, workers, todo, target, operation, callback, batch, made,
                     handles, window, sent, running, left, account>>
  BY DEF SendFails, GoOn
<1>2. target \in Batched /\ target \in todo
  BY <1>1 DEF Inv, Visiting, Passing
<1>3. target \in Threads /\ batch[target] \in Numbers /\ Current(target) \in Payloads
  BY <1>2, CurrentIsPayload
<1>4. phase \in [Payloads -> {"Pending", "Running", "Completed", "Canceled"}]
  BY DEF Inv, TypeOK
<1>5. phase' \in [Payloads -> {"Pending", "Running", "Completed", "Canceled"}]
  BY <1>1, <1>3, <1>4
<1>6. \A t \in Threads, n \in Numbers :
        phase'[<<t, n>>] = IF t = target /\ n = batch[t] /\ phase[<<t, n>>] = "Pending"
                           THEN "Canceled" ELSE phase[<<t, n>>]
  BY <1>1, <1>3, <1>4 DEF Payloads, Current
<1>7. PayloadTypes'
  BY <1>1, <1>5 DEF PayloadTypes, Inv, TypeOK, callback
<1> QED BY <1>1, <1>2, <1>6, <1>7 DEF SendFailed

BatchSent(t) ==
  /\ PayloadTypes'
  /\ step = "visit" /\ step' = "sending" /\ target' = t /\ t \in todo /\ t \in Batched
  /\ phase[Current(t)] = "Pending" /\ sent' = sent \cup {Current(t)}
  /\ UNCHANGED <<goal, result, workers, todo, operation, callback, batch, made, phase,
                 handles, window, running, left, account>>

LEMMA SendBatchEffect == ASSUME Inv, NEW t \in Threads, SendBatch(t) PROVE BatchSent(t)
<1>1. t \in Batched
  BY DEF SendBatch, Inv, Visiting, Passing
<1>2. Current(t) \in Payloads
  BY <1>1, CurrentIsPayload
<1>3. PayloadTypes'
  BY <1>2 DEF SendBatch, PayloadTypes, Inv, TypeOK, callback
<1> QED BY <1>1, <1>3 DEF SendBatch, BatchSent

(* A new operation begins with no batch and no report.                      *)
Opened ==
  /\ step = "open" /\ ~held /\ ~advised /\ active = 0 /\ Batched = {}
  /\ \A t \in Threads : at[t] \in {"out", "last"} /\ batch[t] = 0 /\ running[t] = 0
  /\ \/ /\ held' /\ ~unadvised' /\ ~normalized' /\ advised' /\ idle'
        /\ at' = [t \in Threads |-> "out"] /\ window' = {}
        /\ goal' = "write" /\ step' = "advise"
        /\ UNCHANGED <<result, workers, todo, target>>
     \/ /\ step' = "idle" /\ todo' = {} /\ target' = NoThread /\ result' = "failed"
        /\ UNCHANGED <<goal, workers, operation, advised, idle, at, window>>
  /\ UNCHANGED <<active, arg, reports, batch, made, phase, handles, sent, running, left,
                 account>>

LEMMA OpenEffect == ASSUME Inv, Open PROVE Opened
<1>1. step = "open" /\ ~held /\ ~advised /\ active = 0 /\ Batched = {}
  BY DEF Open, Inv, Stopping
<1>2. \A t \in Threads : at[t] \in {"out", "last"} /\ batch[t] = 0
  BY <1>1, CountMeaning DEF Inv, TypeOK, Batched
<1>3. \A t \in Threads : running[t] = 0
  BY <1>1, RunningIsCurrent
<1> QED BY <1>1, <1>2, <1>3 DEF Open, End, Opened

-----------------------------------------------------------------------------
(* The steps.                                                               *)

(* Payloads, batches and reports keep their types.                          *)
LEMMA PayloadTypesStep == ASSUME Inv, [Next]_vars PROVE PayloadTypes'
<1> USE SnapshotAssumption DEF worker, operation, callback, release, account
<1>1. CASE \/ StopReporting \/ WaitQuiet \/ SendReturns \/ PassEnds \/ AdviseReturns
           \/ WriteSnapshot \/ UNCHANGED vars
           \/ \E export \in BOOLEAN : StartExportWorker(export)
  <2>1. UNCHANGED <<batch, made, phase, handles, sent, running, left, window, at, arg>>
    BY <1>1 DEF StartExportWorker, StopReporting, WaitQuiet, SendReturns, PassEnds,
           AdviseReturns, WriteSnapshot, vars, End, GoOn, Stopped
  <2> QED BY <2>1 DEF Inv, TypeOK, PayloadTypes
<1> USE DEF Inv, TypeOK, PayloadTypes, Payloads
<1>2. CASE Normalize
  BY <1>2, NormalizeEffect DEF Distributed
<1>3. CASE \E t \in Threads : PassOver(t)
  BY <1>3, SettleEffect DEF Settled, PassOver, Passing
<1>4. CASE \E t \in Threads : Retry(t)
  BY <1>4, RetryEffect DEF Retried
<1>5. CASE \E t \in Threads : SendBatch(t)
  BY <1>5, SendBatchEffect DEF BatchSent
<1>6. CASE SendFails
  BY <1>6, SendFailsEffect DEF SendFailed
<1>7. CASE Settle
  BY <1>7, SettleEffect DEF Settled, Settle, Passing, Visiting
<1>8. CASE Open
  BY <1>8 DEF Open, End
<1>9. CASE \E t \in Threads, hs \in SUBSET Handles : ReportEnters(t, hs)
  BY <1>9 DEF ReportEnters
<1>10. CASE \E t \in Threads : ResetIdle(t)
  BY <1>10 DEF ResetIdle
<1>11. CASE \E t \in Threads : Collect(t)
  BY <1>11, CollectEffect DEF Collected
<1>12. CASE \E t \in Threads : ReportLeaves(t)
  BY <1>12 DEF ReportLeaves
<1>13. CASE \E t \in Threads : SetIdle(t)
  BY <1>13 DEF SetIdle
<1>14. CASE \E t \in Threads, n \in Numbers : ReleaseOnOwnerThread(<<t, n>>)
  BY <1>14, DispatchEffect DEF Dispatched
<1>15. CASE \E t \in Threads, x \in Handles : ReleaseHandle(t, x)
  BY <1>15, ReleaseEffect DEF Released
<1>16. CASE \E t \in Threads : BatchDone(t)
  BY <1>16, DoneEffect DEF Finished
<1> QED BY <1>1, <1>2, <1>3, <1>4, <1>5, <1>6, <1>7, <1>8, <1>9, <1>10, <1>11, <1>12, <1>13,
       <1>14, <1>15, <1>16 DEF Next, WorkerStep, ThreadStep

(* The worker's registers and the counts keep their types.                  *)
LEMMA RegistersStep == ASSUME Inv, [Next]_vars PROVE Registers'
<1> USE SnapshotAssumption DEF worker, operation, callback, release, account
<1>1. CASE \/ UNCHANGED vars
           \/ \E t \in Threads, n \in Numbers : ReleaseOnOwnerThread(<<t, n>>)
           \/ \E t \in Threads : Retry(t) \/ BatchDone(t)
  <2>1. UNCHANGED <<step, goal, result, workers, held, unadvised, normalized, todo, target, advised, active, idle, reports, owed, disclaimed>>
    BY <1>1 DEF Retry, ReleaseOnOwnerThread, BatchDone, vars
  <2> QED BY <2>1 DEF Inv, TypeOK, Registers
<1> USE DEF Inv, TypeOK, Registers, Steps, Batched
<1>2. CASE \E export \in BOOLEAN : StartExportWorker(export)
  BY <1>2 DEF StartExportWorker
<1>3. CASE StopReporting
  BY <1>3 DEF StopReporting, GoOn, End
<1>4. CASE WaitQuiet
  BY <1>4 DEF WaitQuiet, GoOn, End, Stopped
<1>5. CASE Normalize
  BY <1>5 DEF Normalize
<1>6. CASE \E t \in Threads : PassOver(t)
  BY <1>6 DEF PassOver, SettleBatch, Visited, Erase
<1>7. CASE \E t \in Threads : SendBatch(t)
  BY <1>7 DEF SendBatch
<1>8. CASE SendReturns
  BY <1>8 DEF SendReturns, GoOn
<1>9. CASE SendFails
  BY <1>9 DEF SendFails, GoOn
<1>10. CASE Settle
  BY <1>10 DEF Settle, SettleBatch, Visited, Erase
<1>11. CASE PassEnds
  BY <1>11 DEF PassEnds, GoOn, End
<1>12. CASE Open
  BY <1>12 DEF Open, End
<1>13. CASE AdviseReturns
  BY <1>13 DEF AdviseReturns
<1>14. CASE WriteSnapshot
  BY <1>14 DEF WriteSnapshot
<1>15. CASE \E t \in Threads, hs \in SUBSET Handles : ReportEnters(t, hs)
  BY <1>15 DEF ReportEnters
<1>16. CASE \E t \in Threads : ResetIdle(t)
  BY <1>16 DEF ResetIdle
<1>17. CASE \E t \in Threads : Collect(t)
  BY <1>17 DEF Collect
<1>18. CASE \E t \in Threads : ReportLeaves(t)
  BY <1>18, CountMeaning DEF ReportLeaves
<1>19. CASE \E t \in Threads : SetIdle(t)
  BY <1>19 DEF SetIdle
<1>20. CASE \E t \in Threads, x \in Handles : ReleaseHandle(t, x)
  BY <1>20 DEF ReleaseHandle
<1> QED BY <1>1, <1>2, <1>3, <1>4, <1>5, <1>6, <1>7, <1>8, <1>9, <1>10, <1>11, <1>12, <1>13,
       <1>14, <1>15, <1>16, <1>17, <1>18, <1>19, <1>20 DEF Next, WorkerStep, ThreadStep

(* The worker moves on only over a callback that is unadvised and, when the *)
(* handles are touched, empty; an operation is given up only with no batch  *)
(* left.                                                                    *)
LEMMA StoppingStep == ASSUME Inv, [Next]_vars PROVE Stopping'
<1> USE SnapshotAssumption DEF worker, operation, callback, release, account
<1>1. CASE \/ UNCHANGED vars
           \/ \E t \in Threads, n \in Numbers : ReleaseOnOwnerThread(<<t, n>>)
           \/ \E t \in Threads, x \in Handles : ReleaseHandle(t, x)
           \/ \E t \in Threads : ResetIdle(t) \/ SetIdle(t) \/ BatchDone(t)
  <2>1. UNCHANGED <<advised, held, unadvised, step, active, normalized, batch, goal>>
    BY <1>1 DEF ResetIdle, SetIdle, ReleaseOnOwnerThread, ReleaseHandle, BatchDone, vars
  <2> QED BY <2>1 DEF Inv, Stopping, Batched
<1> USE DEF Inv, TypeOK, Stopping, Passing, Steps, Batched
<1>2. CASE \E export \in BOOLEAN : StartExportWorker(export)
  BY <1>2 DEF StartExportWorker
<1>3. CASE StopReporting
  BY <1>3 DEF StopReporting, GoOn, End
<1>4. CASE WaitQuiet
  BY <1>4 DEF WaitQuiet, GoOn, End, Stopped
<1>5. CASE Normalize
  BY <1>5 DEF Normalize
<1>6. CASE \E t \in Threads : PassOver(t)
  BY <1>6 DEF PassOver, SettleBatch, Visited, Erase
<1>7. CASE \E t \in Threads : Retry(t)
  BY <1>7 DEF Retry
<1>8. CASE \E t \in Threads : SendBatch(t)
  BY <1>8 DEF SendBatch
<1>9. CASE SendReturns
  BY <1>9 DEF SendReturns, GoOn
<1>10. CASE SendFails
  BY <1>10 DEF SendFails, GoOn
<1>11. CASE Settle
  BY <1>11 DEF Settle, SettleBatch, Visited, Erase
<1>12. CASE PassEnds
  BY <1>12 DEF PassEnds, GoOn, End
<1>13. CASE Open
  BY <1>13 DEF Open, End
<1>14. CASE AdviseReturns
  BY <1>14 DEF AdviseReturns
<1>15. CASE WriteSnapshot
  BY <1>15 DEF WriteSnapshot
<1>16. CASE \E t \in Threads, hs \in SUBSET Handles : ReportEnters(t, hs)
  BY <1>16 DEF ReportEnters
<1>17. CASE \E t \in Threads : Collect(t)
  BY <1>17, CollectEffect DEF Collected
<1>18. CASE \E t \in Threads : ReportLeaves(t)
  BY <1>18, CountMeaning DEF ReportLeaves
<1> QED BY <1>1, <1>2, <1>3, <1>4, <1>5, <1>6, <1>7, <1>8, <1>9, <1>10, <1>11, <1>12, <1>13,
       <1>14, <1>15, <1>16, <1>17, <1>18 DEF Next, WorkerStep, ThreadStep

(* A pass visits batches that are there.                                    *)
LEMMA VisitingStep == ASSUME Inv, [Next]_vars PROVE Visiting'
<1> USE SnapshotAssumption DEF worker, operation, callback, release, account
<1>1. CASE \/ UNCHANGED vars
           \/ \E t \in Threads, hs \in SUBSET Handles : ReportEnters(t, hs)
           \/ \E t \in Threads, n \in Numbers : ReleaseOnOwnerThread(<<t, n>>)
           \/ \E t \in Threads, x \in Handles : ReleaseHandle(t, x)
           \/ \E t \in Threads : ResetIdle(t) \/ ReportLeaves(t) \/ SetIdle(t) \/ BatchDone(t)
  <2>1. UNCHANGED <<step, todo, batch, target>>
    BY <1>1 DEF ReportEnters, ResetIdle, ReportLeaves, SetIdle, ReleaseOnOwnerThread,
           ReleaseHandle, BatchDone, vars
  <2> QED BY <2>1 DEF Inv, Visiting, Batched
<1> USE DEF Inv, TypeOK, Visiting, Passing, Batched, Stopping
<1>2. CASE \E export \in BOOLEAN : StartExportWorker(export)
  BY <1>2 DEF StartExportWorker
<1>3. CASE StopReporting
  BY <1>3 DEF StopReporting, GoOn, End
<1>4. CASE WaitQuiet
  BY <1>4 DEF WaitQuiet, GoOn, End, Stopped
<1>5. CASE Normalize
  BY <1>5 DEF Normalize
<1>6. CASE \E t \in Threads : PassOver(t)
  BY <1>6 DEF PassOver, SettleBatch, Visited, Erase
<1>7. CASE \E t \in Threads : Retry(t)
  BY <1>7 DEF Retry
<1>8. CASE \E t \in Threads : SendBatch(t)
  BY <1>8 DEF SendBatch
<1>9. CASE SendReturns
  BY <1>9 DEF SendReturns, GoOn
<1>10. CASE SendFails
  BY <1>10 DEF SendFails, GoOn
<1>11. CASE Settle
  BY <1>11 DEF Settle, SettleBatch, Visited, Erase
<1>12. CASE PassEnds
  BY <1>12 DEF PassEnds, GoOn, End
<1>13. CASE Open
  BY <1>13 DEF Open, End
<1>14. CASE AdviseReturns
  BY <1>14 DEF AdviseReturns
<1>15. CASE WriteSnapshot
  BY <1>15 DEF WriteSnapshot
<1>16. CASE \E t \in Threads : Collect(t)
  BY <1>16 DEF Collect
<1> QED BY <1>1, <1>2, <1>3, <1>4, <1>5, <1>6, <1>7, <1>8, <1>9, <1>10, <1>11, <1>12, <1>13,
       <1>14, <1>15, <1>16 DEF Next, WorkerStep, ThreadStep

(* Who cancels, runs, sends, replaces or erases a payload finds it in a     *)
(* state in which nobody else is at work on it.                             *)
LEMMA LivesStep == ASSUME Inv, [Next]_vars PROVE Lives'
<1> USE SnapshotAssumption DEF worker, operation, callback, release, account
<1> SUFFICES ASSUME NEW u \in Threads, NEW k \in Numbers PROVE Life(u, k)'
  BY DEF Lives
<1>1. Life(u, k)
  BY DEF Inv, Lives
<1>2. /\ made[u] \in Nat /\ batch[u] \in {0, made[u]} /\ running[u] \in 0..made[u] /\ k \in Nat \ {0}
  BY SnapshotAssumption DEF Inv, TypeOK, Numbers
<1>3. ASSUME step # "sending", step' # "sending", UNCHANGED release,
             normalized' = normalized, held' => held
      PROVE  Life(u, k)'
  BY <1>1, <1>3 DEF Life, release
<1>4. CASE \/ UNCHANGED vars
           \/ \E t \in Threads, hs \in SUBSET Handles : ReportEnters(t, hs)
           \/ \E t \in Threads : ResetIdle(t) \/ ReportLeaves(t) \/ SetIdle(t)
  <2>1. UNCHANGED <<made, phase, handles, sent, running, batch, step, target, held, normalized>>
    BY <1>4 DEF ReportEnters, ResetIdle, ReportLeaves, SetIdle, vars
  <2> QED BY <1>1, <2>1 DEF Life
<1>5. CASE \E export \in BOOLEAN : StartExportWorker(export)
  BY <1>3, <1>5 DEF StartExportWorker
<1>6. CASE StopReporting
  BY <1>3, <1>6 DEF StopReporting, GoOn, End
<1>7. CASE WaitQuiet
  BY <1>3, <1>7 DEF WaitQuiet, GoOn, End, Stopped
<1>8. CASE Normalize
  BY <1>1, <1>2, <1>8, NormalizeEffect DEF Distributed, Life, Inv, Stopping
<1>9. CASE \E t \in Threads : PassOver(t)
  <2>1. PICK t \in todo : Settled(t) /\ step = "visit" /\ step' = step /\ target' = target
    BY <1>9, SettleEffect DEF PassOver, Passing
  <2> QED BY <1>1, <1>2, <2>1 DEF Settled, Life, Passing, Current
<1>10. CASE \E t \in Threads : Retry(t)
  <2>1. PICK t \in Threads : Retried(t)
    BY <1>10, RetryEffect
  <2> QED BY <1>1, <1>2, <2>1, CurrentIsPayload DEF Retried, Life, Current
<1>11. CASE \E t \in Threads : SendBatch(t)
  <2>1. PICK t \in Threads : BatchSent(t)
    BY <1>11, SendBatchEffect
  <2> QED BY <1>1, <1>2, <2>1, CurrentIsPayload DEF BatchSent, Life, Current
<1>12. CASE SendReturns
  BY <1>1, <1>2, <1>12 DEF SendReturns, GoOn, Life, Current
<1>13. CASE SendFails
  BY <1>1, <1>2, <1>13, SendFailsEffect DEF SendFailed, Life, Inv, Stopping, Passing
<1>14. CASE Settle
  <2>1. target \in todo /\ Settled(target) /\ step = "settle" /\ step' = "visit"
    BY <1>14, SettleEffect DEF Settle, Passing, Inv, Visiting
  <2> QED BY <1>1, <1>2, <2>1 DEF Settled, Life, Passing, Current
<1>15. CASE PassEnds
  BY <1>3, <1>15 DEF PassEnds, GoOn, End
<1>16. CASE Open
  BY <1>1, <1>2, <1>16, OpenEffect DEF Opened, Life
<1>17. CASE AdviseReturns
  BY <1>3, <1>17 DEF AdviseReturns
<1>18. CASE WriteSnapshot
  BY <1>3, <1>18 DEF WriteSnapshot
<1>19. CASE \E t \in Threads : Collect(t)
  <2>1. PICK t \in Threads : Collected(t)
    BY <1>19, CollectEffect
  <2> QED BY <1>1, <1>2, <2>1 DEF Collected, Life
<1>20. CASE \E t \in Threads, n \in Numbers : ReleaseOnOwnerThread(<<t, n>>)
  <2>1. PICK t \in Threads, m \in Numbers : Dispatched(t, m)
    BY <1>20, DispatchEffect
  <2> QED BY <1>1, <1>2, <2>1 DEF Dispatched, Life
<1>21. CASE \E t \in Threads, x \in Handles : ReleaseHandle(t, x)
  <2>1. PICK t \in Threads, x \in Handles : Released(t, x)
    BY <1>21, ReleaseEffect
  <2> QED BY <1>1, <1>2, <2>1 DEF Released, Life
<1>22. CASE \E t \in Threads : BatchDone(t)
  <2>1. PICK t \in Threads : Finished(t)
    BY <1>22, DoneEffect
  <2> QED BY <1>1, <1>2, <2>1 DEF Finished, Life, Current
<1> QED BY <1>4, <1>5, <1>6, <1>7, <1>8, <1>9, <1>10, <1>11, <1>12, <1>13, <1>14, <1>15, <1>16,
       <1>17, <1>18, <1>19, <1>20, <1>21, <1>22 DEF Next, WorkerStep, ThreadStep

(* A worker makes at most two payloads for a thread: one in place of a      *)
(* canceled one, one for the operation that it opens.                       *)
LEMMA AffordedStep == ASSUME Inv, [Next]_vars PROVE Afforded'
<1> USE SnapshotAssumption DEF worker, operation, callback, release, account
<1> SUFFICES ASSUME NEW u \in Threads
             PROVE  (made[u] + One(Retriable(u)) + One(Collectable(u)) + One(Reserved)
                       <= 2 * workers)'
  BY DEF Afforded
<1>1. /\ made[u] + One(Retriable(u)) + One(Collectable(u)) + One(Reserved) <= 2 * workers
      /\ made[u] \in Nat /\ workers \in Nat
  BY DEF Inv, TypeOK, Afforded
<1>2. /\ batch[u] \in {0, made[u]} /\ \A n \in Numbers : Life(u, n)
  BY DEF Inv, TypeOK, Lives
<1>3. batch[u] # 0 => batch[u] \in Numbers
  BY CurrentIsPayload DEF Batched
<1>4. CASE \/ UNCHANGED vars
           \/ \E t \in Threads, x \in Handles : ReleaseHandle(t, x)
           \/ \E t \in Threads : ResetIdle(t) \/ SetIdle(t)
  <2>1. UNCHANGED <<made, batch, phase, step, todo, target, held, advised, active, goal, workers>>
    BY <1>4 DEF ResetIdle, SetIdle, ReleaseHandle, vars
  <2> QED BY <1>1, <2>1 DEF Afforded, Retriable, Collectable, Reserved, Current
<1>5. CASE \E export \in BOOLEAN : StartExportWorker(export)
  BY <1>1, <1>5 DEF StartExportWorker, Retriable, Collectable, Reserved, One, Current, Passing
<1>6. CASE StopReporting
  BY <1>1, <1>6 DEF StopReporting, GoOn, End, Retriable, Collectable, Reserved, One, Current, Passing
<1>7. CASE WaitQuiet
  BY <1>1, <1>7 DEF WaitQuiet, GoOn, End, Stopped, Retriable, Collectable, Reserved, One, Current, Passing
<1>8. CASE Normalize
  BY <1>1, <1>8 DEF Normalize, Retriable, Collectable, Reserved, One, Current, Passing
<1>9. CASE \E t \in Threads : PassOver(t)
  <2>1. PICK t \in todo : /\ Settled(t) /\ step = "visit" /\ step' = step
                           /\ todo' = todo \ {t} /\ UNCHANGED <<goal, workers>>
    BY <1>9, SettleEffect DEF PassOver, Visited, Passing
  <2>2. Retriable(u)' => Retriable(u)
    BY <1>3, <2>1 DEF Settled, Retriable, Current, Passing
  <2>3. Collectable(u)' => Collectable(u)
    BY <2>1 DEF Settled, Collectable, Inv, Stopping, Passing
  <2> QED BY <1>1, <2>1, <2>2, <2>3 DEF Settled, One, Reserved, Passing
<1>10. CASE \E t \in Threads : Retry(t)
  <2>1. PICK t \in Threads : Retried(t)
    BY <1>10, RetryEffect
  <2>2. CASE u = t
    <3>1. phase[<<t, made[t] + 1>>] = "Pending"
      BY <1>1, <1>2, <2>1, <2>2 DEF Retried, Life
    <3>2. ~Retriable(t)' /\ ~Collectable(t)'
      BY <1>1, <2>1, <2>2, <3>1 DEF Retried, Retriable, Collectable, Current
    <3>3. Retriable(t)
      BY <2>1 DEF Retried, Retriable, Passing, Batched
    <3> QED BY <1>1, <2>1, <2>2, <3>2, <3>3 DEF Retried, One, Reserved
  <2>3. CASE u # t
    BY <1>1, <1>3, <2>1, <2>3 DEF Retried, Retriable, Collectable, Reserved, One, Current
  <2> QED BY <2>2, <2>3
<1>11. CASE \E t \in Threads : SendBatch(t)
  BY <1>1, <1>11 DEF SendBatch, Retriable, Collectable, Reserved, One, Current, Passing
<1>12. CASE SendReturns
  BY <1>1, <1>12 DEF SendReturns, GoOn, Retriable, Collectable, Reserved, One, Current, Passing
<1>13. CASE SendFails
  <2>1. Retriable(u)' => Retriable(u)
    BY <1>2, <1>13, SendFailsEffect, CurrentIsPayload DEF SendFailed, Retriable, Current, Batched, Passing
  <2> QED BY <1>1, <1>13, <2>1, SendFailsEffect DEF SendFailed, One, Collectable, Reserved
<1>14. CASE Settle
  <2>1. /\ target \in todo /\ Settled(target) /\ step = "settle" /\ step' = "visit"
        /\ todo' = todo \ {target} /\ UNCHANGED <<goal, workers>>
    BY <1>14, SettleEffect DEF Settle, Visited, Passing, Inv, Visiting
  <2>2. Retriable(u)' => Retriable(u)
    BY <1>3, <2>1 DEF Settled, Retriable, Current, Passing
  <2>3. Collectable(u)' => Collectable(u)
    BY <2>1 DEF Settled, Collectable, Inv, Stopping, Passing
  <2> QED BY <1>1, <2>1, <2>2, <2>3 DEF Settled, One, Reserved, Passing
<1>15. CASE PassEnds
  <2>1. ~Retriable(u)' /\ (Collectable(u)' => Collectable(u)) /\ (Reserved' => Reserved)
    BY <1>15 DEF PassEnds, GoOn, End, Retriable, Collectable, Reserved, Passing
  <2> QED BY <1>1, <1>15, <2>1 DEF PassEnds, GoOn, End, One
<1>16. CASE Open
  <2>1. Reserved /\ ~Reserved' /\ ~Retriable(u)' /\ ~Collectable(u)
    BY <1>16, OpenEffect DEF Opened, Retriable, Collectable, Reserved, Passing, Inv, Stopping, TypeOK
  <2> QED BY <1>1, <1>16, <2>1, OpenEffect DEF Opened, One
<1>17. CASE AdviseReturns
  <2>1. ~normalized /\ held
    BY <1>17 DEF AdviseReturns, Inv, Stopping
  <2>2. ~(batch[u] # 0 /\ phase[Current(u)] = "Canceled")
    BY <2>1, CurrentIsPayload DEF Inv, Lives, Life, Batched, Current
  <2>3. ~Retriable(u)' /\ (Collectable(u)' => Collectable(u)) /\ (Reserved' => Reserved)
    BY <1>17, <2>2 DEF AdviseReturns, Retriable, Collectable, Reserved, Current
  <2> QED BY <1>1, <1>17, <2>3 DEF AdviseReturns, One
<1>18. CASE WriteSnapshot
  <2>1. ~normalized /\ held
    BY <1>18 DEF WriteSnapshot, Inv, Stopping
  <2>2. ~(batch[u] # 0 /\ phase[Current(u)] = "Canceled")
    BY <2>1, CurrentIsPayload DEF Inv, Lives, Life, Batched, Current
  <2>3. ~Retriable(u)' /\ (Collectable(u)' => Collectable(u)) /\ (Reserved' => Reserved)
    BY <1>18, <2>2 DEF WriteSnapshot, Retriable, Collectable, Reserved, Current
  <2> QED BY <1>1, <1>18, <2>3 DEF WriteSnapshot, One
<1>19. CASE \E t \in Threads, hs \in SUBSET Handles : ReportEnters(t, hs)
  BY <1>1, <1>19 DEF ReportEnters, Retriable, Collectable, Reserved, One, Current, Passing
<1>20. CASE \E t \in Threads : Collect(t)
  <2>1. PICK t \in Threads : Collected(t)
    BY <1>20, CollectEffect
  <2>2. PICK n \in Numbers :
          /\ n = IF batch[t] = 0 THEN made[t] + 1 ELSE made[t]
          /\ \A v \in Threads : /\ batch'[v] = IF v = t THEN n ELSE batch[v]
                                /\ made'[v] = IF v = t THEN n ELSE made[v]
    BY <2>1 DEF Collected
  <2>3. /\ held /\ active > 0 /\ ~normalized
        /\ UNCHANGED <<held, active, advised, phase, goal, step, workers, todo, target>>
    BY <2>1 DEF Collected
  <2>4. batch'[u] # 0 => phase[<<u, batch'[u]>>] # "Canceled"
    BY <1>1, <1>2, <1>3, <2>2, <2>3 DEF Life
  <2>5. ~Retriable(u)'
    BY <2>3, <2>4 DEF Retriable, Current
  <2>6. CASE u = t /\ batch[t] = 0
    <3>1. Collectable(u) /\ ~Collectable(u)'
      BY <2>2, <2>3, <2>6 DEF Collectable, Numbers
    <3> QED BY <1>1, <2>2, <2>3, <2>5, <2>6, <3>1 DEF One, Reserved
  <2>7. CASE ~(u = t /\ batch[t] = 0)
    <3>1. made'[u] = made[u] /\ (Collectable(u)' => Collectable(u))
      BY <2>2, <2>3, <2>7 DEF Collectable, Numbers
    <3> QED BY <1>1, <2>3, <2>5, <3>1 DEF One, Reserved
  <2> QED BY <2>6, <2>7
<1>21. CASE \E t \in Threads : ReportLeaves(t)
  <2>1. /\ active' > 0 => active > 0
        /\ UNCHANGED <<worker, operation, advised, release>>
    BY <1>21 DEF ReportLeaves, Inv, TypeOK
  <2> QED BY <1>1, <2>1 DEF One, Retriable, Collectable, Reserved, Current
<1>22. CASE \E t \in Threads, n \in Numbers : ReleaseOnOwnerThread(<<t, n>>)
  <2>1. PICK t \in Threads, m \in Numbers : Dispatched(t, m)
    BY <1>22, DispatchEffect
  <2>2. Retriable(u)' => Retriable(u)
    BY <1>2, <2>1, CurrentIsPayload DEF Dispatched, Retriable, Current, Batched
  <2> QED BY <1>1, <2>1, <2>2 DEF Dispatched, One, Collectable, Reserved
<1>23. CASE \E t \in Threads : BatchDone(t)
  <2>1. PICK t \in Threads : Finished(t)
    BY <1>23, DoneEffect
  <2>2. Retriable(u)' => Retriable(u)
    BY <1>2, <2>1, CurrentIsPayload DEF Finished, Retriable, Current, Batched
  <2> QED BY <1>1, <2>1, <2>2 DEF Finished, One, Collectable, Reserved
<1> QED BY <1>4, <1>5, <1>6, <1>7, <1>8, <1>9, <1>10, <1>11, <1>12, <1>13, <1>14, <1>15, <1>16,
       <1>17, <1>18, <1>19, <1>20, <1>21, <1>22, <1>23 DEF Next, WorkerStep, ThreadStep

(* After the normalization no report adds to a batch, and a retry takes     *)
(* over the handles of its own thread only.                                 *)
LEMMA NormalizedStep == ASSUME Inv, [Next]_vars PROVE Normalized'
<1> USE SnapshotAssumption DEF worker, operation, callback, release, account
<1>1. CASE \/ StopReporting \/ WaitQuiet \/ SendReturns \/ SendFails \/ AdviseReturns
           \/ WriteSnapshot \/ UNCHANGED vars
           \/ \E export \in BOOLEAN : StartExportWorker(export)
           \/ \E t \in Threads, hs \in SUBSET Handles : ReportEnters(t, hs)
           \/ \E t \in Threads, n \in Numbers : ReleaseOnOwnerThread(<<t, n>>)
           \/ \E t \in Threads : \/ SendBatch(t) \/ ResetIdle(t) \/ ReportLeaves(t) \/ SetIdle(t)
                                 \/ BatchDone(t)
  <2>1. UNCHANGED <<held, normalized, batch, handles>>
    BY <1>1 DEF StartExportWorker, StopReporting, WaitQuiet, SendBatch, SendReturns, SendFails,
           AdviseReturns, WriteSnapshot, ReportEnters, ResetIdle, ReportLeaves, SetIdle,
           ReleaseOnOwnerThread, BatchDone, vars, End, GoOn, Stopped
  <2> QED BY <2>1 DEF Inv, Normalized, Batched, Current
<1>2. CASE Normalize
  <2>1. CASE normalized
    BY <1>2, <2>1, NormalizeEffect DEF Distributed, Inv, Normalized, Batched, Current
  <2>2. CASE ~normalized
    <3>1. Distributed
      BY <1>2, NormalizeEffect
    <3>2. PICK keeper \in [Handles -> Threads] :
            \A t \in Threads, n \in Numbers :
              handles'[<<t, n>>] = IF n = batch[t] THEN {x \in handles[<<t, n>>] : keeper[x] = t}
                                   ELSE handles[<<t, n>>]
      BY <2>2, <3>1 DEF Distributed
    <3>3. ASSUME NEW t \in Batched PROVE \A x \in handles'[Current(t)] : keeper[x] = t
      <4>1. t \in Threads /\ batch[t] \in Numbers
        BY CurrentIsPayload
      <4>2. handles'[<<t, batch[t]>>] = {x \in handles[<<t, batch[t]>>] : keeper[x] = t}
        BY <3>2, <4>1
      <4> QED BY <4>2 DEF Current
    <3> QED BY <3>1, <3>3 DEF Distributed, Normalized, Batched, Current
  <2> QED BY <2>1, <2>2
<1>3. CASE \E t \in Threads : PassOver(t)
  <2>1. PICK t \in todo : Settled(t) /\ step \in Passing
    BY <1>3, SettleEffect DEF PassOver, Passing
  <2> QED BY <2>1 DEF Settled, Inv, Normalized, Batched, Current
<1>4. CASE \E t \in Threads : Retry(t)
  <2>1. PICK t \in Threads : Retried(t)
    BY <1>4, RetryEffect
  <2> QED BY <2>1, CurrentIsPayload DEF Retried, Inv, Normalized, Batched, Current
<1>5. CASE Settle
  <2>1. target \in todo /\ Settled(target) /\ step \in Passing
    BY <1>5, SettleEffect DEF Settle, Passing, Inv, Visiting
  <2> QED BY <2>1 DEF Settled, Inv, Normalized, Batched, Current
<1>6. CASE PassEnds
  BY <1>6 DEF PassEnds, GoOn, End, Inv, TypeOK, Normalized, Batched, Current
<1>7. CASE Open
  BY <1>7, OpenEffect DEF Opened, Inv, Normalized
<1>8. CASE \E t \in Threads : Collect(t)
  BY <1>8, CollectEffect DEF Collected, Normalized
<1>9. CASE \E t \in Threads, x \in Handles : ReleaseHandle(t, x)
  <2>1. PICK t \in Threads, x \in Handles : Released(t, x)
    BY <1>9, ReleaseEffect
  <2>2. \A v \in Batched : handles'[Current(v)] \subseteq handles[Current(v)]
    BY <2>1, CurrentIsPayload DEF Released, Current
  <2> QED BY <2>1, <2>2 DEF Released, Inv, Normalized, Batched, Current
<1> QED BY <1>1, <1>2, <1>3, <1>4, <1>5, <1>6, <1>7, <1>8, <1>9 DEF Next, WorkerStep, ThreadStep

(* A handle that leaves a report is in a batch or given up, one that leaves *)
(* a batch is released.                                                     *)
LEMMA KeptStep == ASSUME Inv, [Next]_vars PROVE Kept'
<1> USE SnapshotAssumption DEF worker, operation, callback, release, account
<1> SUFFICES ASSUME NEW h \in owed' PROVE Found(h)'
  BY DEF Kept
<1>1. h \in owed => Found(h)
  BY DEF Inv, Kept
<1>2. CASE \/ StopReporting \/ WaitQuiet \/ SendReturns \/ SendFails \/ PassEnds
           \/ AdviseReturns \/ WriteSnapshot \/ UNCHANGED vars
           \/ \E export \in BOOLEAN : StartExportWorker(export)
           \/ \E t \in Threads, n \in Numbers : ReleaseOnOwnerThread(<<t, n>>)
           \/ \E t \in Threads : SendBatch(t) \/ BatchDone(t)
  <2>1. UNCHANGED <<owed, at, arg, batch, handles, disclaimed>>
    BY <1>2 DEF StartExportWorker, StopReporting, WaitQuiet, SendBatch, SendReturns, SendFails,
           PassEnds, AdviseReturns, WriteSnapshot, ReleaseOnOwnerThread, BatchDone, vars, End,
           GoOn, Stopped
  <2> QED BY <1>1, <2>1 DEF Found, Batched, Current, Reporting
<1>3. CASE Normalize
  <2>1. CASE normalized
    BY <1>1, <1>3, <2>1, NormalizeEffect DEF Distributed, Found, Batched, Current, Reporting
  <2>2. CASE ~normalized
    <3>1. Distributed
      BY <1>3, NormalizeEffect
    <3>2. h \in Handles
      BY <3>1 DEF Distributed, Inv, TypeOK
    <3>3. PICK keeper \in [Handles -> Threads] :
            /\ \A t \in Batched : h \in handles[Current(t)] =>
                 keeper[h] \in Batched /\ h \in handles[Current(keeper[h])]
            /\ \A t \in Threads, n \in Numbers :
                 handles'[<<t, n>>] = IF n = batch[t]
                                      THEN {x \in handles[<<t, n>>] : keeper[x] = t}
                                      ELSE handles[<<t, n>>]
      BY <2>2, <3>1, <3>2 DEF Distributed
    <3>4. CASE \E t \in Batched : h \in handles[Current(t)]
      <4>1. keeper[h] \in Batched /\ h \in handles[Current(keeper[h])]
        BY <3>3, <3>4
      <4>2. h \in handles'[<<keeper[h], batch[keeper[h]]>>]
        BY <3>3, <4>1, CurrentIsPayload DEF Current
      <4> QED BY <1>3, <4>1, <4>2, NormalizeEffect DEF Distributed, Found, Batched, Current
    <3> QED BY <1>1, <1>3, <3>4, NormalizeEffect DEF Distributed, Found, Reporting
  <2> QED BY <2>1, <2>2
<1>4. CASE \E t \in Threads : PassOver(t)
  <2>1. PICK t \in todo : Settled(t) /\ step \in Passing
    BY <1>4, SettleEffect DEF PassOver, Passing
  <2> QED BY <1>1, <2>1 DEF Settled, Found, Batched, Current, Reporting
<1>5. CASE \E t \in Threads : Retry(t)
  <2>1. PICK t \in Threads : Retried(t)
    BY <1>5, RetryEffect
  <2>2. h \in owed /\ UNCHANGED <<at, arg, disclaimed>>
    BY <2>1 DEF Retried
  <2>3. CASE \E v \in Batched : h \in handles[Current(v)]
    <3>1. PICK v \in Batched : h \in handles[Current(v)]
      BY <2>3
    <3>2. v \in Batched' /\ h \in handles'[<<v, batch'[v]>>]
      BY <2>1, <3>1, CurrentIsPayload DEF Retried, Batched, Current, Numbers
    <3> QED BY <3>2 DEF Found, Current
  <2> QED BY <1>1, <2>2, <2>3 DEF Found, Reporting
<1>6. CASE Settle
  <2>1. target \in todo /\ Settled(target) /\ step \in Passing
    BY <1>6, SettleEffect DEF Settle, Passing, Inv, Visiting
  <2> QED BY <1>1, <2>1 DEF Settled, Found, Batched, Current, Reporting
<1>7. CASE Open
  BY <1>1, <1>7, OpenEffect DEF Opened, Found, Batched, Current, Reporting
<1>8. CASE \E t \in Threads, hs \in SUBSET Handles : ReportEnters(t, hs)
  <2>1. PICK t \in Threads, hs \in SUBSET Handles : ReportEnters(t, hs)
    BY <1>8
  <2>2. Reporting(t)' /\ arg'[t] = hs
    BY <2>1 DEF ReportEnters, Reporting, Inv, TypeOK
  <2>3. CASE h \in hs
    BY <2>2, <2>3 DEF Found
  <2>4. CASE h \notin hs
    BY <1>1, <2>1, <2>4 DEF ReportEnters, Found, Reporting, Batched, Current, Inv, TypeOK
  <2> QED BY <2>3, <2>4
<1>9. CASE \E t \in Threads : ResetIdle(t)
  BY <1>1, <1>9 DEF ResetIdle, Found, Reporting, Batched, Current, Inv, TypeOK
<1>10. CASE \E t \in Threads : Collect(t)
  <2>1. PICK t \in Threads : Collected(t)
    BY <1>10, CollectEffect
  <2>2. PICK n \in Numbers, kept \in SUBSET arg[t] :
          /\ n = IF batch[t] = 0 THEN made[t] + 1 ELSE made[t]
          /\ \A v \in Threads : /\ batch'[v] = IF v = t THEN n ELSE batch[v]
                                /\ made'[v] = IF v = t THEN n ELSE made[v]
          /\ \A v \in Threads, m \in Numbers :
               handles'[<<v, m>>] = IF v = t /\ m = n THEN handles[<<t, n>>] \cup kept
                                    ELSE handles[<<v, m>>]
          /\ disclaimed' = disclaimed \cup (arg[t] \ kept)
    BY <2>1 DEF Collected
  <2>3. /\ h \in owed /\ UNCHANGED arg
        /\ \A v \in Threads : at'[v] = IF v = t THEN "collected" ELSE at[v]
    BY <2>1 DEF Collected
  <2>4. CASE h \in arg[t]
    <3>1. t \in Batched' /\ Current(t)' = <<t, n>>
      BY <2>2 DEF Batched, Current, Numbers
    <3> QED BY <2>2, <2>4, <3>1 DEF Found
  <2>5. CASE \E v \in Batched : h \in handles[Current(v)]
    <3>1. PICK v \in Batched : h \in handles[Current(v)]
      BY <2>5
    <3>2. v \in Threads /\ batch[v] \in Numbers /\ batch[v] = made[v] /\ batch[v] # 0
      BY <3>1, CurrentIsPayload DEF Batched
    <3>3. v \in Batched' /\ Current(v)' = Current(v)
      BY <2>2, <3>2 DEF Batched, Current
    <3>4. h \in handles'[<<v, batch[v]>>]
      BY <2>2, <3>1, <3>2 DEF Current
    <3> QED BY <3>3, <3>4 DEF Found, Current
  <2>6. CASE h \in disclaimed
    BY <2>2, <2>6 DEF Found
  <2> QED BY <1>1, <2>3, <2>4, <2>5, <2>6 DEF Found, Reporting
<1>11. CASE \E t \in Threads : ReportLeaves(t)
  <2>1. PICK t \in Threads : ReportLeaves(t)
    BY <1>11
  <2>2. \A v \in Threads : v # t => at'[v] = at[v] /\ arg'[v] = arg[v]
    BY <2>1 DEF ReportLeaves, Inv, TypeOK
  <2> QED BY <1>1, <2>1, <2>2 DEF ReportLeaves, Found, Reporting, Batched, Current
<1>12. CASE \E t \in Threads : SetIdle(t)
  BY <1>1, <1>12 DEF SetIdle, Found, Reporting, Batched, Current, Inv, TypeOK
<1>13. CASE \E t \in Threads, x \in Handles : ReleaseHandle(t, x)
  <2>1. PICK t \in Threads, x \in Handles : Released(t, x)
    BY <1>13, ReleaseEffect
  <2> QED BY <1>1, <2>1, CurrentIsPayload
          DEF Released, Found, Batched, Current, Reporting, callback
<1> QED BY <1>2, <1>3, <1>4, <1>5, <1>6, <1>7, <1>8, <1>9, <1>10, <1>11, <1>12, <1>13 DEF Next,
       WorkerStep, ThreadStep

(* Nobody resets the event after the last report has been counted out.      *)
LEMMA SignalledStep == ASSUME Inv, [Next]_vars PROVE Signalled'
<1> USE SnapshotAssumption DEF worker, operation, callback, release, account
<1>1. CASE \/ StopReporting \/ WaitQuiet \/ Normalize \/ SendReturns \/ SendFails \/ Settle
           \/ PassEnds \/ AdviseReturns \/ WriteSnapshot \/ UNCHANGED vars
           \/ \E export \in BOOLEAN : StartExportWorker(export)
           \/ \E t \in Threads, n \in Numbers : ReleaseOnOwnerThread(<<t, n>>)
           \/ \E t \in Threads, x \in Handles : ReleaseHandle(t, x)
           \/ \E t \in Threads : PassOver(t) \/ Retry(t) \/ SendBatch(t) \/ BatchDone(t)
  <2>1. UNCHANGED <<active, idle, at>>
    BY <1>1 DEF StartExportWorker, StopReporting, WaitQuiet, Normalize, PassOver, Retry,
           SendBatch, SendReturns, SendFails, Settle, PassEnds, AdviseReturns, WriteSnapshot,
           ReleaseOnOwnerThread, ReleaseHandle, BatchDone, vars, End, GoOn, SettleBatch,
           Stopped, Visited
  <2> QED BY <2>1 DEF Inv, Signalled
<1> USE DEF Inv, TypeOK, Signalled
<1>2. CASE Open
  BY <1>2 DEF Open, End
<1>3. CASE \E t \in Threads, hs \in SUBSET Handles : ReportEnters(t, hs)
  BY <1>3 DEF ReportEnters
<1>4. CASE \E t \in Threads : ResetIdle(t)
  BY <1>4, CountMeaning DEF ResetIdle
<1>5. CASE \E t \in Threads : Collect(t)
  BY <1>5, CountMeaning DEF Collect
<1>6. CASE \E t \in Threads : ReportLeaves(t)
  <2>1. PICK t \in Threads : ReportLeaves(t)
    BY <1>6
  <2>2. active' = 0 => at'[t] = "last"
    BY <2>1, CountMeaning DEF ReportLeaves, Inv, TypeOK
  <2> QED BY <2>2 DEF Signalled
<1>7. CASE \E t \in Threads : SetIdle(t)
  BY <1>7 DEF SetIdle
<1> QED BY <1>1, <1>2, <1>3, <1>4, <1>5, <1>6, <1>7 DEF Next, WorkerStep, ThreadStep

-----------------------------------------------------------------------------
LEMMA InitInv == Init => Inv
<1> SUFFICES ASSUME Init PROVE Inv
  OBVIOUS
<1> USE SnapshotAssumption DEF Init
<1>1. PayloadTypes
  BY DEF PayloadTypes, Payloads
<1>2. Registers
  <2>1. {held, unadvised, normalized, advised, idle} \subseteq BOOLEAN
    BY Zenon
  <2> QED BY <2>1 DEF Registers, Steps
<1>3. Inside = {} /\ Batched = {}
  BY DEF Inside, Batched
<1>4. Counted /\ Signalled
  BY <1>3, FS_EmptySet DEF Counted, Signalled
<1>5. Stopping /\ Visiting
  BY <1>3 DEF Stopping, Visiting, Passing
<1>6. Lives
  BY DEF Lives, Life, Payloads, Numbers
<1>7. Afforded
  BY DEF Afforded, Retriable, Collectable, Reserved, One
<1>8. Normalized /\ Kept
  BY DEF Normalized, Kept
<1> QED BY <1>1, <1>2, <1>4, <1>5, <1>6, <1>7, <1>8
        DEF Inv, TypeOK, PayloadTypes, Registers

LEMMA StepInv == Inv /\ [Next]_vars => Inv'
<1> SUFFICES ASSUME Inv, [Next]_vars PROVE Inv'
  OBVIOUS
<1>1. TypeOK'
  BY PayloadTypesStep, RegistersStep DEF TypeOK, PayloadTypes, Registers
<1> QED BY <1>1, CountedStep, SignalledStep, StoppingStep, VisitingStep, LivesStep,
           AffordedStep, NormalizedStep, KeptStep DEF Inv

LEMMA Invariance == Spec => []Inv
BY InitInv, StepInv, PTL DEF Spec

-----------------------------------------------------------------------------
(* The worker, its callback and the payloads keep to their types; no more   *)
(* payloads are made than the numbers provide for.                          *)
THEOREM SnapshotTypeCorrect == Spec => []TypeOK
<1>1. Inv => TypeOK
  BY DEF Inv
<1> QED BY <1>1, Invariance, PTL

(* The handles that XAML reports stay with their report, in the batch of a  *)
(* thread or with the ledger, through time-outs, cancellations, retries,    *)
(* failed releases and workers that give up (tree_export.cpp).              *)
THEOREM HandlesAlwaysKept == Spec => []HandlesKept
<1> DEFINE Reported == {arg[t] : t \in {u \in Threads : Reporting(u)}}
           Parcels == {handles[Current(t)] : t \in Batched}
<1>1. ASSUME NEW S \in Reported \cup Parcels, NEW h \in S
      PROVE  h \in (UNION Reported) \cup (UNION Parcels) \cup disclaimed
  <2> HIDE DEF Reported, Parcels
  <2> QED BY <1>1
<1>2. ASSUME Kept, NEW h \in owed
      PROVE  h \in (UNION Reported) \cup (UNION Parcels) \cup disclaimed
  <2>1. CASE \E t \in Threads : Reporting(t) /\ h \in arg[t]
    <3>1. PICK t \in Threads : Reporting(t) /\ h \in arg[t]
      BY <2>1
    <3>2. arg[t] \in Reported
      BY <3>1
    <3> QED BY <3>1, <3>2, <1>1
  <2>2. CASE \E t \in Batched : h \in handles[Current(t)]
    <3>1. PICK t \in Batched : h \in handles[Current(t)]
      BY <2>2
    <3>2. handles[Current(t)] \in Parcels
      BY <3>1
    <3> HIDE DEF Reported, Parcels
    <3> QED BY <3>1, <3>2, <1>1
  <2> HIDE DEF Reported, Parcels
  <2>3. CASE h \in disclaimed
    BY <2>3
  <2> QED BY <1>2, <2>1, <2>2, <2>3 DEF Kept, Found
<1>3. Inv => owed \subseteq (UNION Reported) \cup (UNION Parcels) \cup disclaimed
  <2> HIDE DEF Reported, Parcels
  <2> QED BY <1>2 DEF Inv
<1>4. Inv => HandlesKept
  BY <1>3 DEF HandlesKept
<1> QED BY <1>4, Invariance, PTL

(* A release that runs is that of the batch in place, and no two batches    *)
(* hold a handle: the compare-and-exchange on the phase decides between the *)
(* worker's cancellation and the thread that begins (ReleaseOnOwnerThread,  *)
(* ReleaseSnapshot).                                                        *)
THEOREM OneReleaserAlways == Spec => []OneReleaser
<1>1. Inv => \A t \in Threads : running[t] # 0 => running[t] = batch[t]
  BY RunningIsCurrent
<1>2. Inv => OneReleaser
  BY <1>1 DEF Inv, Normalized, OneReleaser
<1> QED BY <1>2, Invariance, PTL

(* When no operation is held, nothing of one is left: SnapshotNeedsStop     *)
(* lets the next subscription start.                                        *)
THEOREM NothingEverLeftBehind == Spec => []NothingLeftBehind
<1>1. ASSUME Inv, ~held
      PROVE  /\ ~advised /\ active = 0
             /\ Batched = {} /\ \A t \in Threads : running[t] = 0
             /\ owed \subseteq disclaimed
  <2>1. ~advised /\ active = 0 /\ Batched = {}
    BY <1>1 DEF Inv, Stopping
  <2>2. \A t \in Threads : running[t] = 0
    BY <1>1, <2>1, RunningIsCurrent
  <2>3. \A t \in Threads : ~Reporting(t)
    BY <1>1, <2>1, CountMeaning DEF Reporting
  <2>4. \A h \in owed : Found(h)
    BY <1>1 DEF Inv, Kept
  <2> QED BY <2>1, <2>2, <2>3, <2>4 DEF Found
<1>2. Inv => NothingLeftBehind
  BY <1>1 DEF NothingLeftBehind
<1> QED BY <1>2, Invariance, PTL

(* With every report gone the event is set, although the first report       *)
(* resets it and the last one sets it outside of the count                  *)
(* (SnapshotCallback::OnVisualTreeChange).                                  *)
THEOREM IdleAlwaysSignalled == Spec => []IdleIsSignalled
<1>1. ASSUME Inv, \A t \in Threads : at[t] = "out" PROVE idle
  <2>1. Inside = {}
    BY <1>1 DEF Inside
  <2> QED BY <1>1, <2>1, CountMeaning DEF Inv, Signalled
<1>2. Inv => IdleIsSignalled
  BY <1>1 DEF IdleIsSignalled
<1> QED BY <1>2, Invariance, PTL
=============================================================================
