---------------------------- MODULE ReleaseQueue ---------------------------
(* The deferred releases of one UI thread (release_queue.cpp, on            *)
(* owned_release_queue.h) with the registry that names its elements         *)
(* (element_registry.cpp).  A report only queues the handles it registers;  *)
(* a one-shot timer drains them once reports have been quiet, and a drain   *)
(* releases every handle whose element holds no style state.                *)
(*                                                                          *)
(* The thread is single, but a report that styles, a removal that restores  *)
(* and a release call into XAML, which may report, remove or let the timer  *)
(* tick underneath: frames 1..depth are the reports, removals and drains    *)
(* under way, the innermost last.                                           *)
EXTENDS Naturals, FiniteSets

CONSTANTS
  Handles,     \* instance handles: an address may serve another object later
  MaxOwner,    \* diagnostics sessions, one after the other
  MaxObject,   \* objects a handle stands for, one after the other
  MaxReports,  \* bound: reports and removals
  MaxDepth     \* bound: reports, removals and drains nested in one another

ASSUME ReleaseAssumption ==
  MaxOwner \in Nat \ {0} /\ MaxObject \in Nat /\ MaxReports \in Nat /\ MaxDepth \in Nat

VARIABLES
  current,     \* the current session
  pending,     \* t_pending: pairs <<owner, handle>>
  frames, depth,
  armed,       \* t_drain_armed
  timer,       \* the timer runs
  recent,      \* a handle was queued less than kQuietMs ago
  incomplete,  \* the observation was marked incomplete
  threw,       \* a drain has thrown
  fresh,       \* pairs queued by a report that no drain has examined since
  registered,  \* pairs XAML has registered: reported and not released since
  ids,         \* t_ids: handle -> [id, object], the weak reference's target
  lastId,      \* t_last_id
  styled,      \* ids with style state (t_state of the engine)
  object,      \* the live object at each handle, 0 when there is none
  born,        \* how many objects each handle has stood for
  reports,
  readded      \* history: an element was reported inside its own removal

queueVars == <<pending, frames, depth, armed, timer, recent, incomplete, threw, fresh>>
registryVars == <<ids, lastId, styled>>
worldVars == <<current, registered, object, born, reports, readded>>
vars == <<queueVars, registryVars, worldVars>>

Pairs == (1..MaxOwner) \X Handles
Frame == [kind : {"free", "report", "removal", "drain"},
          batch : SUBSET Pairs, entry : SUBSET Pairs, id : Nat]
FrameOf(kind, batch, entry, id) ==
  [kind |-> kind, batch |-> batch, entry |-> entry, id |-> id]
Free == FrameOf("free", {}, {}, 0)
NoId == [id |-> 0, object |-> 0]

(* The frames above the innermost one are free, and only a drain has a      *)
(* handle taken out of its batch.                                           *)
FramesNested ==
  \A d \in 1..MaxDepth : /\ d > depth => frames[d] = Free
                         /\ frames[d].kind # "drain" => frames[d].entry = {}

RegistryTyped ==
  /\ ids \in [Handles -> [id : Nat, object : Nat]] /\ lastId \in Nat
  /\ object \in [Handles -> Nat] /\ born \in [Handles -> Nat]

TypeOK ==
  /\ pending \in SUBSET Pairs /\ fresh \in SUBSET Pairs /\ registered \in SUBSET Pairs
  /\ frames \in [1..MaxDepth -> Frame]
  /\ depth \in 0..MaxDepth
  /\ FramesNested
  /\ armed \in BOOLEAN /\ timer \in BOOLEAN /\ recent \in BOOLEAN
  /\ incomplete \in BOOLEAN /\ threw \in BOOLEAN
  /\ current \in 1..MaxOwner
  /\ RegistryTyped

Init ==
  /\ current = 1 /\ registered = {} /\ reports = 0 /\ readded = FALSE
  /\ pending = {} /\ fresh = {}
  /\ frames = [d \in 1..MaxDepth |-> Free] /\ depth = 0
  /\ armed = FALSE /\ timer = FALSE /\ recent = FALSE
  /\ incomplete = FALSE /\ threw = FALSE
  /\ ids = [h \in Handles |-> NoId] /\ lastId = 0 /\ styled = {}
  /\ object = [h \in Handles |-> 1] /\ born = [h \in Handles |-> 1]

-----------------------------------------------------------------------------
Top == frames[depth]
Push(frame) == /\ depth' = depth + 1
               /\ frames' = [frames EXCEPT ![depth + 1] = frame]
Pop == /\ depth' = depth - 1
       /\ frames' = [frames EXCEPT ![depth] = Free]

(* FlushReleasesIfQuiet after `queued` is pending: nothing when the drain   *)
(* is armed; otherwise the timer is started, or that fails (no dispatcher   *)
(* queue, or the timer throws) and the observation is incomplete.           *)
FlushIfQuiet(queued, isArmed) ==
  IF queued = {} \/ isArmed
  THEN armed' = isArmed /\ UNCHANGED <<timer, incomplete>>
  ELSE \/ armed' = TRUE /\ timer' = TRUE /\ UNCHANGED incomplete
       \/ armed' = isArmed /\ incomplete' = TRUE /\ UNCHANGED timer

(* QueueRelease for each pair of qs.                                        *)
QueueRelease(qs) ==
  /\ pending' = pending \cup qs
  /\ fresh' = fresh \cup qs
  /\ recent' = TRUE
  /\ FlushIfQuiet(pending \cup qs, armed)

(* GetOrCreateElementId: the known id while it names the same live object,  *)
(* else the next one.                                                       *)
Known(h) == ids[h] # NoId /\ ids[h].object = object[h]
Identified(h) ==
  IF Known(h) THEN UNCHANGED <<ids, lastId>>
  ELSE /\ lastId' = lastId + 1
       /\ ids' = [ids EXCEPT ![h] = [id |-> lastId + 1, object |-> object[h]]]

(* OnVisualTreeChange, Add: the element's handle and its parent's are       *)
(* registered; the element may be left unresolved, be identified only, or   *)
(* be styled, which may re-enter before the handles are queued.             *)
Leaving(h) ==
  \E d \in 1..depth : frames[d].kind = "removal" /\ \E x \in frames[d].batch : x[2] = h

ReportBegins(h, parent) ==
  /\ reports < MaxReports /\ depth < MaxDepth
  /\ object[h] # 0 /\ object[parent] # 0
  /\ reports' = reports + 1
  /\ registered' = registered \cup {<<current, h>>, <<current, parent>>}
  /\ readded' = (readded \/ Leaving(h))
  /\ Push(FrameOf("report", {<<current, h>>, <<current, parent>>}, {}, 0))
  /\ \/ UNCHANGED registryVars
     \/ Identified(h) /\ UNCHANGED styled
     \/ Identified(h) /\ styled' = styled \cup {IF Known(h) THEN ids[h].id ELSE lastId + 1}
  /\ UNCHANGED <<pending, armed, timer, recent, incomplete, threw, fresh,
                 current, object, born>>

(* DispatchObservedReport queues whether or not the styling has thrown.     *)
ReportQueues ==
  /\ depth > 0 /\ Top.kind = "report"
  /\ QueueRelease(Top.batch)
  /\ Pop
  /\ UNCHANGED <<threw, registryVars, worldVars>>

(* The removal that forgets the id before it has found the element's state. *)
RemovalForgetsFirst(h) ==
  /\ reports < MaxReports /\ depth < MaxDepth /\ object[h] # 0
  /\ reports' = reports + 1
  /\ registered' = registered \cup {<<current, h>>}
  /\ ids' = [ids EXCEPT ![h] = NoId]
  /\ Push(FrameOf("removal", {<<current, h>>}, {}, 0))
  /\ UNCHANGED <<pending, armed, timer, recent, incomplete, threw, fresh,
                 lastId, styled, current, object, born, readded>>

(* OnVisualTreeChange, Remove: the id is looked up; forgetting its          *)
(* variables and restoring its element call XAML.                           *)
RemovalBegins(h) ==
  /\ reports < MaxReports /\ depth < MaxDepth /\ object[h] # 0
  /\ reports' = reports + 1
  /\ registered' = registered \cup {<<current, h>>}
  /\ Push(FrameOf("removal", {<<current, h>>}, {}, ids[h].id))
  /\ UNCHANGED <<pending, armed, timer, recent, incomplete, threw, fresh,
                 registryVars, current, object, born, readded>>

(* The state of that id is gone, the handle queued, and whatever id the     *)
(* handle has by now is forgotten.                                          *)
RemovalEnds ==
  /\ depth > 0 /\ Top.kind = "removal"
  /\ styled' = styled \ {Top.id}
  /\ ids' = [h \in Handles |-> IF \E x \in Top.batch : x[2] = h THEN NoId ELSE ids[h]]
  /\ QueueRelease(Top.batch)
  /\ Pop
  /\ UNCHANGED <<threw, lastId, worldVars>>

-----------------------------------------------------------------------------
(* Drains.                                                                  *)

DrainFrame(batch, entry) == FrameOf("drain", batch, entry, 0)

(* FlushReleasesNow, up to the swap of the batch.                           *)
BeginDrain ==
  /\ depth < MaxDepth
  /\ armed' = FALSE
  /\ Push(DrainFrame(pending, {}))
  /\ pending' = {}

(* The tick that finds reports not quiet yet, and forgets that its one shot *)
(* is spent.                                                                *)
TickKeepsArmed ==
  /\ timer /\ recent
  /\ timer' = FALSE
  /\ UNCHANGED <<armed, incomplete, pending, frames, depth, recent, threw,
                 fresh, registryVars, worldVars>>

(* The tick: too early, it arms the timer again.                            *)
TickTooEarly ==
  /\ timer /\ recent
  /\ \/ pending = {} /\ timer' = FALSE /\ armed' = FALSE /\ UNCHANGED incomplete
     \/ pending # {} /\ timer' = TRUE /\ armed' = TRUE /\ UNCHANGED incomplete
     \/ pending # {} /\ timer' = FALSE /\ armed' = FALSE /\ incomplete' = TRUE
  /\ UNCHANGED <<pending, frames, depth, recent, threw, fresh, registryVars, worldVars>>

TickDrains ==
  /\ timer /\ ~recent
  /\ timer' = FALSE
  /\ BeginDrain
  /\ UNCHANGED <<recent, incomplete, threw, fresh, registryVars, worldVars>>

(* StopReleaseQueueOnThisThread, in a transition: the timer goes, and a     *)
(* last drain runs.  The thread has restored its elements before.           *)
StopDrains ==
  /\ depth = 0 /\ styled = {}
  /\ timer' = FALSE
  /\ BeginDrain
  /\ UNCHANGED <<recent, incomplete, threw, fresh, registryVars, worldVars>>

Draining == depth > 0 /\ Top.kind = "drain"

(* The drain's `held`: the element of a handle of the current session has   *)
(* state.                                                                   *)
Held(x) == x[1] = current /\ ids[x[2]].id \in styled

(* One pair is extracted from the batch: held back, or to be released.      *)
Examine(x) ==
  /\ Draining /\ Top.entry = {} /\ x \in Top.batch
  /\ fresh' = fresh \ {x}
  /\ IF Held(x)
     THEN /\ pending' = pending \cup {x}
          /\ frames' = [frames EXCEPT ![depth] = DrainFrame(Top.batch \ {x}, {})]
     ELSE /\ frames' = [frames EXCEPT ![depth] = DrainFrame(Top.batch \ {x}, {x})]
          /\ UNCHANGED pending
  /\ UNCHANGED <<depth, armed, timer, recent, incomplete, threw, registryVars, worldVars>>

(* A pair that a nested report has queued again, wherever it is by now.     *)
Requeued(x) ==
  x \in pending \/ \E d \in 1..depth - 1 : x \in frames[d].batch \cup frames[d].entry

(* ReleaseHandle has unregistered the handle; a dead element's id goes with *)
(* it (ForgetElementIdIfDead).                                              *)
ReleaseSucceeds ==
  /\ Draining /\ Top.entry # {}
  /\ frames' = [frames EXCEPT ![depth] = DrainFrame(Top.batch, {})]
  /\ registered' = {y \in registered : y \in Top.entry => Requeued(y)}
  /\ ids' = [h \in Handles |-> IF (\E x \in Top.entry : x[2] = h) /\ ~Known(h)
                               THEN NoId ELSE ids[h]]
  /\ UNCHANGED <<pending, depth, armed, timer, recent, incomplete, threw, fresh,
                 lastId, styled, current, object, born, reports, readded>>

(* ReleaseHandle has returned false: the pair is retained.                  *)
ReleaseFails ==
  /\ Draining /\ Top.entry # {}
  /\ frames' = [frames EXCEPT ![depth] = DrainFrame(Top.batch, {})]
  /\ pending' = pending \cup Top.entry
  /\ UNCHANGED <<depth, armed, timer, recent, incomplete, threw, fresh,
                 registryVars, worldVars>>

(* The drain that throws without merging the rest of its batch.             *)
ReleaseThrowsAway ==
  /\ Draining /\ Top.entry # {}
  /\ pending' = pending \cup Top.entry
  /\ threw' = TRUE
  /\ Pop
  /\ UNCHANGED <<armed, timer, recent, incomplete, fresh, registryVars, worldVars>>

(* ReleaseHandle throws: everything not done goes back, the drain ends, and *)
(* nothing arms the timer.                                                  *)
ReleaseThrows ==
  /\ Draining /\ Top.entry # {}
  /\ pending' = pending \cup Top.entry \cup Top.batch
  /\ threw' = TRUE
  /\ Pop
  /\ UNCHANGED <<armed, timer, recent, incomplete, fresh, registryVars, worldVars>>

(* The batch is empty.  The reaper runs when the registry has outgrown its  *)
(* threshold: an id without a live element goes, and its state with it.     *)
Dead == {h \in Handles : ids[h] # NoId /\ ~Known(h)}

DrainEnds ==
  /\ Draining /\ Top.entry = {} /\ Top.batch = {}
  /\ Pop
  /\ \/ UNCHANGED <<ids, styled>>
     \/ /\ ids' = [h \in Handles |-> IF h \in Dead THEN NoId ELSE ids[h]]
        /\ styled' = styled \ {ids[h].id : h \in Dead}
  /\ UNCHANGED <<pending, armed, timer, recent, incomplete, threw, fresh, lastId, worldVars>>

-----------------------------------------------------------------------------
(* The world.  XAML keeps a registered element alive; the control thread    *)
(* replaces the session only after the elements have been restored.         *)

Dies(h) ==
  /\ object[h] # 0 /\ \A x \in registered : x[2] # h
  /\ object' = [object EXCEPT ![h] = 0]
  /\ UNCHANGED <<queueVars, registryVars, current, registered, born, reports, readded>>

IsBorn(h) ==
  /\ object[h] = 0 /\ born[h] < MaxObject
  /\ born' = [born EXCEPT ![h] = @ + 1]
  /\ object' = [object EXCEPT ![h] = born[h] + 1]
  /\ UNCHANGED <<queueVars, registryVars, current, registered, reports, readded>>

SessionReplaced ==
  /\ depth = 0 /\ styled = {} /\ current < MaxOwner
  /\ current' = current + 1
  /\ UNCHANGED <<queueVars, registryVars, registered, object, born, reports, readded>>

(* RestoreAllOnThisThread, and a single element that loses its state.       *)
Restores ==
  /\ depth = 0 /\ styled # {}
  /\ styled' = {}
  /\ UNCHANGED <<queueVars, ids, lastId, worldVars>>

QuietElapses ==
  /\ recent
  /\ recent' = FALSE
  /\ UNCHANGED <<pending, frames, depth, armed, timer, incomplete, threw, fresh,
                 registryVars, worldVars>>

Next ==
  \/ \E h, p \in Handles : ReportBegins(h, p)
  \/ ReportQueues
  \/ \E h \in Handles : RemovalBegins(h)
  \/ RemovalEnds
  \/ TickTooEarly \/ TickDrains \/ StopDrains
  \/ \E x \in Pairs : Examine(x)
  \/ ReleaseSucceeds \/ ReleaseFails \/ ReleaseThrows \/ DrainEnds
  \/ \E h \in Handles : Dies(h) \/ IsBorn(h)
  \/ SessionReplaced \/ Restores \/ QuietElapses

(* The dispatcher runs a timer that is due and time passes; a report, a     *)
(* removal and a release return from XAML, one way or another.              *)
Fairness ==
  /\ WF_vars(ReportQueues)
  /\ WF_vars(RemovalEnds)
  /\ WF_vars(QuietElapses)
  /\ WF_vars(TickDrains)
  /\ WF_vars(TickTooEarly)
  /\ WF_vars(\E x \in Pairs : Examine(x))
  /\ WF_vars(ReleaseSucceeds \/ ReleaseFails \/ ReleaseThrows)
  /\ WF_vars(DrainEnds)

Spec == Init /\ [][Next]_vars
FairSpec == Spec /\ Fairness

-----------------------------------------------------------------------------
InFlight == UNION {frames[d].batch \cup frames[d].entry : d \in 1..MaxDepth}

(* A handle that XAML has registered for a report is in the queue, in the   *)
(* batch of a drain under way, or with a report that is about to queue it:  *)
(* no nested report, nested drain, failure or exception drops it            *)
(* ("swapping the batch also preserves reentrant reports").                 *)
NothingLost == registered \subseteq pending \cup InFlight

(* An element with style state is one that its handle still finds, alive    *)
(* and registered, so that its removal will be reported and restore it      *)
(* (release_policy.h: released while styled, its state would be stranded).  *)
(* (An element that is reported inside its own removal may be styled under  *)
(* an id that the removal then forgets: see the README.)                    *)
StateFound ==
  \A i \in styled : \E h \in Handles :
    /\ ids[h].id = i /\ Known(h) /\ object[h] # 0
    /\ <<current, h>> \in registered

NoStateStranded == ~readded => StateFound

(* A handle that a report has queued is examined by a drain without another *)
(* report, unless the timer could not be armed or some drain has thrown     *)
(* (release_queue.h: a burst that ends in complete idleness still drains).  *)
BurstDrains ==
  \A x \in Pairs : x \in fresh ~> (x \notin fresh \/ incomplete \/ threw)
=============================================================================
