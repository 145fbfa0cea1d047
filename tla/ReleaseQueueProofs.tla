----------------------- MODULE ReleaseQueueProofs -----------------------
(* No handle that XAML has registered is lost by the queue, and none is     *)
(* given back that an element with style state needs, whatever the handles, *)
(* the sessions and the depth of the re-entrance.                           *)
EXTENDS ReleaseQueue, TLAPS

(* A pair that some report or drain under way holds.                        *)
Carried(x) == \E d \in 1..MaxDepth : x \in frames[d].batch \/ x \in frames[d].entry

Kept == \A x \in registered : x \in pending \/ Carried(x)

IInv == TypeOK /\ Kept

(* NothingLost, pair by pair.                                               *)
LEMMA KeptMeaning == ASSUME Kept PROVE NothingLost
<1>1. ASSUME NEW x \in registered PROVE x \in pending \cup InFlight
  <2>1. CASE x \in pending
    BY <2>1
  <2>2. CASE Carried(x)
    <3>1. PICK d \in 1..MaxDepth : x \in frames[d].batch \/ x \in frames[d].entry
      BY <2>2 DEF Carried
    <3>2. x \in frames[d].batch \cup frames[d].entry
      BY <3>1
    <3> QED BY <3>2 DEF InFlight
  <2> QED BY <1>1, <2>1, <2>2 DEF Kept
<1> QED BY <1>1 DEF NothingLost

(* The empty queue is well formed.                                          *)
LEMMA InitIInv == Init => IInv
<1> SUFFICES ASSUME Init PROVE IInv
  OBVIOUS
<1> USE ReleaseAssumption
<1>1. Free \in Frame /\ Free.kind = "free" /\ Free.entry = {}
  BY DEF Free, FrameOf, Frame
<1>2. frames \in [1..MaxDepth -> Frame] /\ depth \in 0..MaxDepth /\ FramesNested
  BY <1>1 DEF Init, FramesNested
<1>3. TypeOK
  <2>1. current \in 1..MaxOwner
    BY DEF Init
  <2>2. /\ pending \in SUBSET Pairs /\ fresh \in SUBSET Pairs /\ registered \in SUBSET Pairs
        /\ armed \in BOOLEAN /\ timer \in BOOLEAN /\ recent \in BOOLEAN
        /\ incomplete \in BOOLEAN /\ threw \in BOOLEAN
    BY Zenon DEF Init
  <2>3. RegistryTyped
    BY DEF Init, RegistryTyped, NoId
  <2> QED BY <1>2, <2>1, <2>2, <2>3 DEF TypeOK
<1>4. Kept
  BY DEF Init, Kept
<1> QED BY <1>3, <1>4 DEF IInv

(* The frames once a well-formed one is entered, and once one is left.      *)
LEMMA PushTypes ==
  ASSUME TypeOK, NEW frame \in Frame, depth < MaxDepth, Push(frame),
         frame.kind # "drain" => frame.entry = {}
  PROVE  /\ frames' \in [1..MaxDepth -> Frame]
         /\ depth' \in 0..MaxDepth
         /\ FramesNested'
         /\ \A d \in 1..depth : frames'[d] = frames[d]
         /\ depth + 1 \in 1..MaxDepth /\ frames'[depth + 1] = frame
<1> USE ReleaseAssumption
<1>1. /\ depth \in Nat /\ depth + 1 \in 1..MaxDepth
      /\ depth' = depth + 1 /\ frames' = [frames EXCEPT ![depth + 1] = frame]
      /\ frames \in [1..MaxDepth -> Frame]
  BY DEF TypeOK, Push
<1>2. \A d \in 1..MaxDepth : frames'[d] = IF d = depth + 1 THEN frame ELSE frames[d]
  BY <1>1
<1>3. frames' \in [1..MaxDepth -> Frame] /\ depth' \in 0..MaxDepth
  BY <1>1
<1>4. \A d \in 1..MaxDepth : /\ d > depth => frames[d] = Free
                             /\ frames[d].kind # "drain" => frames[d].entry = {}
  BY DEF TypeOK, FramesNested
<1>5. \A d \in 1..MaxDepth : /\ d > depth' => frames'[d] = Free
                             /\ frames'[d].kind # "drain" => frames'[d].entry = {}
  BY <1>1, <1>2, <1>4
<1> QED BY <1>1, <1>2, <1>3, <1>5 DEF FramesNested

LEMMA PopTypes ==
  ASSUME TypeOK, depth > 0, Pop
  PROVE  /\ frames' \in [1..MaxDepth -> Frame]
         /\ depth' \in 0..MaxDepth
         /\ FramesNested'
         /\ depth \in 1..MaxDepth
         /\ \A d \in 1..MaxDepth : d # depth => frames'[d] = frames[d]
<1> USE ReleaseAssumption
<1>0. Free \in Frame /\ Free.kind = "free" /\ Free.entry = {}
  BY DEF Free, FrameOf, Frame
<1>1. /\ depth \in 1..MaxDepth
      /\ depth' = depth - 1 /\ frames' = [frames EXCEPT ![depth] = Free]
      /\ frames \in [1..MaxDepth -> Frame]
  BY DEF TypeOK, Pop
<1>2. \A d \in 1..MaxDepth : frames'[d] = IF d = depth THEN Free ELSE frames[d]
  BY <1>1
<1>3. frames' \in [1..MaxDepth -> Frame] /\ depth' \in 0..MaxDepth
  BY <1>0, <1>1
<1>4. \A d \in 1..MaxDepth : /\ d > depth => frames[d] = Free
                             /\ frames[d].kind # "drain" => frames[d].entry = {}
  BY DEF TypeOK, FramesNested
<1>5. \A d \in 1..MaxDepth : /\ d > depth' => frames'[d] = Free
                             /\ frames'[d].kind # "drain" => frames'[d].entry = {}
  BY <1>0, <1>1, <1>2, <1>4
<1> QED BY <1>1, <1>2, <1>3, <1>5 DEF FramesNested

(* A step that enters a frame keeps every pair: the frame overwritten was   *)
(* free, so what was registered is still carried or in the new batch.       *)
LEMMA PushKeeps ==
  ASSUME TypeOK, Kept, NEW frame \in Frame, depth < MaxDepth, Push(frame),
         frame.kind # "drain" => frame.entry = {},
         pending \subseteq pending' \cup frame.batch,
         registered' \subseteq registered \cup frame.batch
  PROVE  Kept'
<1> USE ReleaseAssumption
<1>1. /\ depth + 1 \in 1..MaxDepth /\ frames'[depth + 1] = frame
      /\ \A d \in 1..depth : frames'[d] = frames[d]
  BY PushTypes
<1>2. \A d \in 1..MaxDepth : d > depth => frames[d].batch = {} /\ frames[d].entry = {}
  BY DEF TypeOK, FramesNested, Free, FrameOf
<1>3. ASSUME NEW x \in registered' PROVE x \in pending' \/ Carried(x)'
  <2>1. CASE x \in frame.batch
    BY <1>1, <2>1 DEF Carried
  <2>2. CASE x \notin frame.batch
    <3>1. x \in pending \/ Carried(x)
      BY <2>2 DEF Kept
    <3>2. CASE x \in pending
      BY <2>2, <3>2
    <3>3. CASE Carried(x)
      <4>1. PICK d \in 1..MaxDepth : x \in frames[d].batch \/ x \in frames[d].entry
        BY <3>3 DEF Carried
      <4>2. depth \in Nat /\ d \in 1..depth
        BY <1>2, <4>1 DEF TypeOK
      <4> QED BY <1>1, <4>1, <4>2 DEF Carried
    <3> QED BY <3>1, <3>2, <3>3
  <2> QED BY <2>1, <2>2
<1> QED BY <1>3 DEF Kept

(* A step that leaves a frame keeps every pair when the frame's pairs are   *)
(* pending after it.                                                        *)
LEMMA PopKeeps ==
  ASSUME TypeOK, Kept, depth > 0, Pop,
         pending \subseteq pending', Top.batch \cup Top.entry \subseteq pending',
         registered' = registered
  PROVE  Kept'
<1>1. \A d \in 1..MaxDepth : d # depth => frames'[d] = frames[d]
  BY PopTypes
<1>2. ASSUME NEW x \in registered' PROVE x \in pending' \/ Carried(x)'
  <2>1. x \in pending \/ Carried(x)
    BY DEF Kept
  <2>2. CASE x \in pending
    BY <2>2
  <2>3. CASE Carried(x)
    <3>1. PICK d \in 1..MaxDepth : x \in frames[d].batch \/ x \in frames[d].entry
      BY <2>3 DEF Carried
    <3>2. CASE d = depth
      BY <3>1, <3>2 DEF Top
    <3>3. CASE d # depth
      BY <1>1, <3>1, <3>3 DEF Carried
    <3> QED BY <3>2, <3>3
  <2> QED BY <2>1, <2>2, <2>3
<1> QED BY <1>2 DEF Kept

(* A step that leaves the frames alone keeps every pair when none leaves    *)
(* the queue and a newly registered one enters it.                          *)
LEMMA SameFramesKeep ==
  ASSUME Kept, UNCHANGED frames, pending \subseteq pending',
         registered' \subseteq registered \cup pending'
  PROVE  Kept'
  BY DEF Kept, Carried

(* Queueing keeps the types of the queue's own flags.                       *)
LEMMA QueueTypes ==
  ASSUME TypeOK, NEW qs \in SUBSET Pairs, QueueRelease(qs)
  PROVE  /\ pending' \in SUBSET Pairs /\ fresh' \in SUBSET Pairs
         /\ armed' \in BOOLEAN /\ timer' \in BOOLEAN /\ recent' \in BOOLEAN
         /\ incomplete' \in BOOLEAN
         /\ pending \subseteq pending' /\ qs \subseteq pending'
<1>1. /\ pending' = pending \cup qs /\ fresh' = fresh \cup qs /\ recent' = TRUE
      /\ armed' \in BOOLEAN /\ timer' \in BOOLEAN /\ incomplete' \in BOOLEAN
  <2> USE DEF TypeOK, QueueRelease, FlushIfQuiet
  <2>1. pending' = pending \cup qs /\ fresh' = fresh \cup qs /\ recent' = TRUE
    OBVIOUS
  <2>2. CASE pending \cup qs = {} \/ armed
    BY <2>2
  <2>3. CASE ~(pending \cup qs = {} \/ armed)
    BY <2>3
  <2> QED BY <2>1, <2>2, <2>3
<1> QED BY <1>1 DEF TypeOK

-----------------------------------------------------------------------------
(* One lemma per kind of step.                                              *)

LEMMA ReportBeginsStep ==
  ASSUME IInv, RegistryTyped', NEW h \in Handles, NEW p \in Handles, ReportBegins(h, p)
  PROVE  IInv'
<1> DEFINE qs == {<<current, h>>, <<current, p>>}
<1> DEFINE frame == FrameOf("report", qs, {}, 0)
<1> USE DEF IInv
<1>1. qs \in SUBSET Pairs
  BY DEF TypeOK, Pairs
<1>2. frame \in Frame /\ frame.entry = {} /\ frame.batch = qs
  BY <1>1 DEF Frame, FrameOf
<1>3. /\ depth < MaxDepth /\ Push(frame) /\ registered' = registered \cup qs
      /\ UNCHANGED <<pending, armed, timer, recent, incomplete, threw, fresh, current>>
  BY DEF ReportBegins
<1> HIDE DEF qs, frame
<1>4. /\ frames' \in [1..MaxDepth -> Frame] /\ depth' \in 0..MaxDepth /\ FramesNested'
  BY <1>2, <1>3, PushTypes
<1>5. TypeOK'
  BY <1>1, <1>3, <1>4 DEF TypeOK, Pairs
<1>6. Kept'
  BY <1>2, <1>3, PushKeeps
<1> QED BY <1>5, <1>6

LEMMA RemovalBeginsStep ==
  ASSUME IInv, RegistryTyped', NEW h \in Handles, RemovalBegins(h)
  PROVE  IInv'
<1> DEFINE qs == {<<current, h>>}
<1> DEFINE frame == FrameOf("removal", qs, {}, ids[h].id)
<1> USE DEF IInv
<1>1. qs \in SUBSET Pairs /\ ids[h].id \in Nat
  BY DEF TypeOK, Pairs, RegistryTyped
<1>2. frame \in Frame /\ frame.entry = {} /\ frame.batch = qs
  BY <1>1 DEF Frame, FrameOf
<1>3. /\ depth < MaxDepth /\ Push(frame) /\ registered' = registered \cup qs
      /\ UNCHANGED <<pending, armed, timer, recent, incomplete, threw, fresh, current>>
  BY DEF RemovalBegins
<1> HIDE DEF qs, frame
<1>4. /\ frames' \in [1..MaxDepth -> Frame] /\ depth' \in 0..MaxDepth /\ FramesNested'
  BY <1>2, <1>3, PushTypes
<1>5. TypeOK'
  BY <1>1, <1>3, <1>4 DEF TypeOK, Pairs
<1>6. Kept'
  BY <1>2, <1>3, PushKeeps
<1> QED BY <1>5, <1>6

(* A report and a removal queue what they hold.                             *)
LEMMA FrameQueuesStep ==
  ASSUME IInv, RegistryTyped', depth > 0, Top.kind # "drain", QueueRelease(Top.batch), Pop,
         UNCHANGED <<threw, current, registered>>
  PROVE  IInv'
<1> USE DEF IInv
<1>2. depth \in 1..MaxDepth /\ Top \in Frame
  BY ReleaseAssumption DEF TypeOK, Top
<1>3. Top.batch \in SUBSET Pairs /\ Top.entry = {}
  BY <1>2 DEF TypeOK, FramesNested, Top, Frame
<1>4. /\ pending' \in SUBSET Pairs /\ fresh' \in SUBSET Pairs
      /\ armed' \in BOOLEAN /\ timer' \in BOOLEAN /\ recent' \in BOOLEAN
      /\ incomplete' \in BOOLEAN
      /\ pending \subseteq pending' /\ Top.batch \subseteq pending'
  BY <1>3, QueueTypes
<1>5. /\ frames' \in [1..MaxDepth -> Frame] /\ depth' \in 0..MaxDepth /\ FramesNested'
  BY PopTypes
<1>6. TypeOK'
  BY <1>4, <1>5 DEF TypeOK, Pairs
<1>7. Kept'
  BY <1>3, <1>4, PopKeeps
<1> QED BY <1>6, <1>7

(* A drain takes the whole queue into its frame.                            *)
LEMMA BeginDrainStep ==
  ASSUME IInv, RegistryTyped', BeginDrain, timer' = FALSE,
         UNCHANGED <<recent, incomplete, threw, fresh, current, registered>>
  PROVE  IInv'
<1> USE DEF IInv
<1> DEFINE frame == DrainFrame(pending, {})
<1>1. frame \in Frame /\ frame.kind = "drain" /\ frame.batch = pending
  BY DEF Frame, TypeOK, DrainFrame, FrameOf
<1>2. depth < MaxDepth /\ armed' = FALSE /\ Push(frame) /\ pending' = {}
  BY DEF BeginDrain
<1> HIDE DEF frame
<1>3. /\ frames' \in [1..MaxDepth -> Frame] /\ depth' \in 0..MaxDepth /\ FramesNested'
  BY <1>1, <1>2, PushTypes
<1>4. TypeOK'
  BY <1>2, <1>3 DEF TypeOK, Pairs
<1>5. Kept'
  BY <1>1, <1>2, PushKeeps
<1> QED BY <1>4, <1>5

(* A step within a drain that changes its own frame only.                   *)
LEMMA TopTypes ==
  ASSUME TypeOK, Draining, UNCHANGED depth,
         NEW batch \in SUBSET Pairs, NEW entry \in SUBSET Pairs,
         frames' = [frames EXCEPT ![depth] = DrainFrame(batch, entry)]
  PROVE  /\ depth \in 1..MaxDepth
         /\ frames' \in [1..MaxDepth -> Frame] /\ FramesNested'
         /\ frames'[depth].batch = batch /\ frames'[depth].entry = entry
         /\ \A d \in 1..MaxDepth : d # depth => frames'[d] = frames[d]
<1> USE ReleaseAssumption
<1> DEFINE frame == DrainFrame(batch, entry)
<1>1. /\ frame \in Frame /\ frame.kind = "drain" /\ frame.batch = batch
      /\ frame.entry = entry
  BY DEF Frame, DrainFrame, FrameOf
<1>2. depth \in 1..MaxDepth /\ frames \in [1..MaxDepth -> Frame] /\ FramesNested
  BY DEF TypeOK, Draining
<1> HIDE DEF frame
<1>3. frames' = [frames EXCEPT ![depth] = frame]
  BY DEF frame
<1>4. frames' \in [1..MaxDepth -> Frame] /\ frames'[depth] = frame
  BY <1>1, <1>2, <1>3
<1>5. \A d \in 1..MaxDepth : d # depth => frames'[d] = frames[d]
  BY <1>2, <1>3
<1>6. FramesNested'
  BY <1>1, <1>2, <1>4, <1>5 DEF FramesNested
<1> QED BY <1>1, <1>2, <1>4, <1>5, <1>6

(* The innermost frame, during a drain.                                     *)
LEMMA TopDrain ==
  ASSUME TypeOK, Draining
  PROVE  /\ depth \in 1..MaxDepth /\ frames \in [1..MaxDepth -> Frame]
         /\ Top.batch \in SUBSET Pairs /\ Top.entry \in SUBSET Pairs
<1> USE ReleaseAssumption
<1>1. depth \in 1..MaxDepth /\ frames \in [1..MaxDepth -> Frame]
  BY DEF TypeOK, Draining
<1>2. Top \in Frame /\ Top.kind = "drain"
  BY <1>1 DEF Top, Draining
<1> QED BY <1>1, <1>2 DEF Frame

(* A step of a drain that only moves pairs of its frame: to the queue, to   *)
(* the entry, or out because they are no longer registered or are queued    *)
(* elsewhere.                                                               *)
LEMMA TopKeeps ==
  ASSUME TypeOK, Kept, Draining, UNCHANGED depth,
         NEW batch \in SUBSET Pairs, NEW entry \in SUBSET Pairs,
         frames' = [frames EXCEPT ![depth] = DrainFrame(batch, entry)],
         pending \subseteq pending', registered' \subseteq registered,
         \A x \in registered' : x \in Top.batch \cup Top.entry =>
            x \in pending' \cup batch \cup entry
            \/ \E d \in 1..depth - 1 : x \in frames[d].batch \cup frames[d].entry
  PROVE  Kept'
<1>1. /\ depth \in 1..MaxDepth
      /\ frames'[depth].batch = batch /\ frames'[depth].entry = entry
      /\ \A d \in 1..MaxDepth : d # depth => frames'[d] = frames[d]
  BY TopTypes
<1>2. ASSUME NEW x \in registered' PROVE x \in pending' \/ Carried(x)'
  <2>1. CASE x \in Top.batch \cup Top.entry
    <3>1. CASE x \in pending' \cup batch \cup entry
      BY <1>1, <3>1 DEF Carried
    <3>2. CASE \E d \in 1..depth - 1 : x \in frames[d].batch \cup frames[d].entry
      <4>1. PICK d \in 1..depth - 1 : x \in frames[d].batch \cup frames[d].entry
        BY <3>2
      <4>2. d \in 1..MaxDepth /\ d # depth
        BY <1>1, ReleaseAssumption
      <4> QED BY <1>1, <4>1, <4>2 DEF Carried
    <3> QED BY <2>1, <3>1, <3>2
  <2>2. CASE x \notin Top.batch \cup Top.entry
    <3>1. x \in pending \/ Carried(x)
      BY DEF Kept
    <3>2. CASE Carried(x)
      <4>1. PICK d \in 1..MaxDepth : x \in frames[d].batch \/ x \in frames[d].entry
        BY <3>2 DEF Carried
      <4>2. d # depth
        BY <2>2, <4>1 DEF Top
      <4> QED BY <1>1, <4>1, <4>2 DEF Carried
    <3> QED BY <3>1, <3>2
  <2> QED BY <2>1, <2>2
<1> QED BY <1>2 DEF Kept

LEMMA ExamineStep == ASSUME IInv, RegistryTyped', NEW x \in Pairs, Examine(x) PROVE IInv'
<1> USE DEF IInv
<1>1. /\ Draining /\ Top.entry = {} /\ x \in Top.batch /\ fresh' = fresh \ {x}
      /\ UNCHANGED <<depth, armed, timer, recent, incomplete, threw, current, registered>>
  BY DEF Examine, worldVars
<1>2. /\ depth \in 1..MaxDepth /\ frames \in [1..MaxDepth -> Frame]
      /\ Top.batch \in SUBSET Pairs /\ Top.entry \in SUBSET Pairs
  BY <1>1, TopDrain
<1> DEFINE batch == Top.batch \ {x}
<1>3. batch \in SUBSET Pairs /\ {x} \in SUBSET Pairs /\ {} \in SUBSET Pairs
  BY <1>2
<1>4. Top.batch = batch \cup {x}
  BY <1>1
<1> HIDE DEF batch
<1>5. CASE Held(x)
  <2>1. pending' = pending \cup {x} /\ frames' = [frames EXCEPT ![depth] = DrainFrame(batch, {})]
    BY <1>5 DEF Examine, batch
  <2>2. frames' \in [1..MaxDepth -> Frame] /\ FramesNested'
    BY <1>1, <1>3, <2>1, TopTypes
  <2>3. TypeOK'
    BY <1>1, <2>1, <2>2 DEF TypeOK, Pairs
  <2>4. \A y \in registered' : y \in Top.batch \cup Top.entry => y \in pending' \cup batch \cup {}
    BY <1>1, <1>4, <2>1
  <2>5. Kept'
    BY <1>1, <1>3, <2>1, <2>4, TopKeeps
  <2> QED BY <2>3, <2>5
<1>6. CASE ~Held(x)
  <2>1. pending' = pending /\ frames' = [frames EXCEPT ![depth] = DrainFrame(batch, {x})]
    BY <1>6 DEF Examine, batch
  <2>2. frames' \in [1..MaxDepth -> Frame] /\ FramesNested'
    BY <1>1, <1>3, <2>1, TopTypes
  <2>3. TypeOK'
    BY <1>1, <2>1, <2>2 DEF TypeOK, Pairs
  <2>4. \A y \in registered' : y \in Top.batch \cup Top.entry => y \in pending' \cup batch \cup {x}
    BY <1>1, <1>4
  <2>5. Kept'
    BY <1>1, <1>3, <2>1, <2>4, TopKeeps
  <2> QED BY <2>3, <2>5
<1> QED BY <1>5, <1>6

(* A handle that was released while a nested report queued it again keeps   *)
(* its registration, and its place.                                         *)
LEMMA ReleaseSucceedsStep == ASSUME IInv, RegistryTyped', ReleaseSucceeds PROVE IInv'
<1> USE DEF IInv
<1>1. /\ Draining
      /\ frames' = [frames EXCEPT ![depth] = DrainFrame(Top.batch, {})]
      /\ registered' = {y \in registered : y \in Top.entry => Requeued(y)}
      /\ UNCHANGED <<pending, depth, armed, timer, recent, incomplete, threw, fresh, current>>
  BY DEF ReleaseSucceeds
<1>2. /\ depth \in 1..MaxDepth /\ frames \in [1..MaxDepth -> Frame]
      /\ Top.batch \in SUBSET Pairs /\ Top.entry \in SUBSET Pairs
  BY <1>1, TopDrain
<1>3. {} \in SUBSET Pairs
  OBVIOUS
<1>4. frames' \in [1..MaxDepth -> Frame] /\ FramesNested'
  BY <1>1, <1>2, <1>3, TopTypes
<1>5. TypeOK'
  BY <1>1, <1>4 DEF TypeOK, Pairs
<1>6. \A y \in registered' : y \in Top.batch \cup Top.entry =>
         y \in pending' \cup Top.batch \cup {}
         \/ \E d \in 1..depth - 1 : y \in frames[d].batch \cup frames[d].entry
  BY <1>1 DEF Requeued
<1>7. Kept'
  BY <1>1, <1>2, <1>3, <1>6, TopKeeps
<1> QED BY <1>5, <1>7

LEMMA ReleaseFailsStep == ASSUME IInv, RegistryTyped', ReleaseFails PROVE IInv'
<1> USE DEF IInv
<1>1. /\ Draining
      /\ frames' = [frames EXCEPT ![depth] = DrainFrame(Top.batch, {})]
      /\ pending' = pending \cup Top.entry
      /\ UNCHANGED <<depth, armed, timer, recent, incomplete, threw, fresh, current,
                     registered>>
  BY DEF ReleaseFails, worldVars
<1>2. /\ depth \in 1..MaxDepth /\ frames \in [1..MaxDepth -> Frame]
      /\ Top.batch \in SUBSET Pairs /\ Top.entry \in SUBSET Pairs
  BY <1>1, TopDrain
<1>3. {} \in SUBSET Pairs
  OBVIOUS
<1>4. frames' \in [1..MaxDepth -> Frame] /\ FramesNested'
  BY <1>1, <1>2, <1>3, TopTypes
<1>5. TypeOK'
  BY <1>1, <1>2, <1>4 DEF TypeOK, Pairs
<1>6. \A y \in registered' : y \in Top.batch \cup Top.entry => y \in pending' \cup Top.batch \cup {}
  BY <1>1
<1>7. Kept'
  BY <1>1, <1>2, <1>3, <1>6, TopKeeps
<1> QED BY <1>5, <1>7

(* The exception puts the whole frame back.                                 *)
LEMMA ReleaseThrowsStep == ASSUME IInv, RegistryTyped', ReleaseThrows PROVE IInv'
<1> USE DEF IInv
<1>1. /\ Draining /\ depth > 0 /\ Pop /\ threw' = TRUE
      /\ pending' = pending \cup Top.entry \cup Top.batch
      /\ UNCHANGED <<armed, timer, recent, incomplete, fresh, current, registered>>
  BY DEF ReleaseThrows, Draining, worldVars
<1>2. Top.batch \in SUBSET Pairs /\ Top.entry \in SUBSET Pairs
  BY <1>1, TopDrain
<1>3. /\ frames' \in [1..MaxDepth -> Frame] /\ depth' \in 0..MaxDepth /\ FramesNested'
  BY <1>1, PopTypes
<1>4. TypeOK'
  BY <1>1, <1>2, <1>3 DEF TypeOK, Pairs
<1>5. Kept'
  BY <1>1, PopKeeps
<1> QED BY <1>4, <1>5

LEMMA DrainEndsStep == ASSUME IInv, RegistryTyped', DrainEnds PROVE IInv'
<1> USE DEF IInv
<1>1. /\ depth > 0 /\ Pop /\ Top.batch = {} /\ Top.entry = {}
      /\ UNCHANGED <<pending, armed, timer, recent, incomplete, threw, fresh, current,
                     registered>>
  BY DEF DrainEnds, Draining, worldVars
<1>2. /\ frames' \in [1..MaxDepth -> Frame] /\ depth' \in 0..MaxDepth /\ FramesNested'
  BY <1>1, PopTypes
<1>3. TypeOK'
  BY <1>1, <1>2 DEF TypeOK, Pairs
<1>4. Kept'
  BY <1>1, PopKeeps
<1> QED BY <1>3, <1>4

LEMMA TickTooEarlyStep == ASSUME IInv, RegistryTyped', TickTooEarly PROVE IInv'
<1> USE DEF IInv
<1>1. /\ UNCHANGED <<pending, frames, depth, recent, threw, fresh, current, registered>>
      /\ armed' \in BOOLEAN /\ timer' \in BOOLEAN /\ incomplete' \in BOOLEAN
  BY DEF TickTooEarly, worldVars, TypeOK
<1>2. TypeOK'
  BY <1>1 DEF TypeOK, FramesNested, Pairs
<1>3. Kept'
  BY <1>1, SameFramesKeep
<1> QED BY <1>2, <1>3

(* The steps of the world change neither the queue nor the registrations.   *)
LEMMA WorldStep ==
  ASSUME IInv, RegistryTyped',
         UNCHANGED <<pending, frames, depth, armed, timer, incomplete, threw, fresh,
                     registered>>,
         recent' \in BOOLEAN, current' \in 1..MaxOwner
  PROVE  IInv'
<1> USE DEF IInv
<1>1. TypeOK'
  BY DEF TypeOK, FramesNested, Pairs
<1>2. Kept'
  BY SameFramesKeep
<1> QED BY <1>1, <1>2

-----------------------------------------------------------------------------
(* Ids, objects and their counters stay numbers.                            *)
LEMMA RegistryTypedStep ==
  ASSUME RegistryTyped, NoId \in [id : Nat, object : Nat], [Next]_vars
  PROVE  RegistryTyped'
<1> USE DEF RegistryTyped
<1>1. CASE \E h, p \in Handles : ReportBegins(h, p)
  <2>1. PICK h \in Handles, p \in Handles : ReportBegins(h, p)
    BY <1>1
  <2>2. UNCHANGED <<ids, lastId>> \/ Identified(h)
    BY <2>1 DEF ReportBegins, registryVars
  <2>3. UNCHANGED <<object, born>>
    BY <2>1 DEF ReportBegins
  <2> QED BY <2>2, <2>3 DEF Identified
<1>2. CASE RemovalEnds \/ ReleaseSucceeds \/ DrainEnds
  <2>1. UNCHANGED <<lastId, object, born>>
    BY <1>2 DEF RemovalEnds, ReleaseSucceeds, DrainEnds, worldVars
  <2>2. ids' \in [Handles -> [id : Nat, object : Nat]]
    <3>1. CASE RemovalEnds
      BY <3>1 DEF RemovalEnds
    <3>2. CASE ReleaseSucceeds
      BY <3>2 DEF ReleaseSucceeds
    <3>3. CASE DrainEnds
      BY <3>3 DEF DrainEnds
    <3> QED BY <1>2, <3>1, <3>2, <3>3
  <2> QED BY <2>1, <2>2
<1>3. CASE \E h \in Handles : Dies(h) \/ IsBorn(h)
  BY <1>3 DEF Dies, IsBorn, registryVars
<1>4. CASE UNCHANGED <<ids, lastId, object, born>>
  BY <1>4
<1>5. ASSUME \/ \E h \in Handles : RemovalBegins(h)
             \/ ReportQueues \/ TickTooEarly \/ TickDrains \/ StopDrains
             \/ \E x \in Pairs : Examine(x)
             \/ ReleaseFails \/ ReleaseThrows \/ SessionReplaced \/ Restores
             \/ QuietElapses \/ UNCHANGED vars
      PROVE  UNCHANGED <<ids, lastId, object, born>>
  BY <1>5 DEF RemovalBegins, ReportQueues, TickTooEarly, TickDrains, StopDrains, Examine,
     ReleaseFails, ReleaseThrows, SessionReplaced, Restores, QuietElapses, vars,
     registryVars, worldVars
<1> QED BY <1>1, <1>2, <1>3, <1>4, <1>5 DEF Next

(* IInv is inductive.                                                       *)
LEMMA NextIInv == ASSUME IInv, [Next]_vars PROVE IInv'
<1> USE DEF queueVars, registryVars, worldVars
<1>0. current \in 1..MaxOwner /\ recent \in BOOLEAN /\ RegistryTyped'
  <2>1. RegistryTyped /\ NoId \in [id : Nat, object : Nat]
    BY DEF IInv, TypeOK, NoId
  <2> QED BY <2>1, RegistryTypedStep DEF IInv, TypeOK
<1>1. CASE \E h, p \in Handles : ReportBegins(h, p)
  BY <1>0, <1>1, ReportBeginsStep
<1>2. CASE ReportQueues \/ RemovalEnds
  BY <1>0, <1>2, FrameQueuesStep DEF ReportQueues, RemovalEnds
<1>3. CASE \E h \in Handles : RemovalBegins(h)
  BY <1>0, <1>3, RemovalBeginsStep
<1>4. CASE TickTooEarly
  BY <1>0, <1>4, TickTooEarlyStep
<1>5. CASE TickDrains
  BY <1>0, <1>5, BeginDrainStep DEF TickDrains
<1>6. CASE StopDrains
  BY <1>0, <1>6, BeginDrainStep DEF StopDrains
<1>7. CASE \E x \in Pairs : Examine(x)
  BY <1>0, <1>7, ExamineStep
<1>8. CASE ReleaseSucceeds
  BY <1>0, <1>8, ReleaseSucceedsStep
<1>9. CASE ReleaseFails
  BY <1>0, <1>9, ReleaseFailsStep
<1>10. CASE ReleaseThrows
  BY <1>0, <1>10, ReleaseThrowsStep
<1>11. CASE DrainEnds
  BY <1>0, <1>11, DrainEndsStep
<1>12. CASE \E h \in Handles : Dies(h) \/ IsBorn(h)
  BY <1>0, <1>12, WorldStep DEF Dies, IsBorn
<1>13. CASE SessionReplaced
  <2>1. current' \in 1..MaxOwner /\ UNCHANGED <<queueVars, registered>>
    BY <1>0, <1>13, ReleaseAssumption DEF SessionReplaced
  <2> QED BY <1>0, <2>1, WorldStep
<1>14. CASE Restores
  BY <1>0, <1>14, WorldStep DEF Restores
<1>15. CASE QuietElapses
  BY <1>0, <1>15, WorldStep DEF QuietElapses
<1>16. CASE UNCHANGED vars
  BY <1>0, <1>16, WorldStep DEF vars
<1> QED
  BY <1>1, <1>2, <1>3, <1>4, <1>5, <1>6, <1>7, <1>8, <1>9, <1>10, <1>11, <1>12,
     <1>13, <1>14, <1>15, <1>16 DEF Next

(* The queue is well formed in every reachable state: frames nest, and the  *)
(* drains' batches hold pairs only.                                         *)
THEOREM ReleaseTypeCorrect == Spec => []TypeOK
<1>1. IInv /\ [Next]_vars => IInv'
  BY NextIInv
<1>2. IInv => TypeOK
  BY DEF IInv
<1> QED BY InitIInv, <1>1, <1>2, PTL DEF Spec

(* Every registered handle is queued, in a drain's batch or with a report   *)
(* about to queue it, however reports, drains, failed releases and          *)
(* exceptions nest (OwnedReleaseQueue::Drain's swap, insert and merge).     *)
THEOREM NothingIsLost == Spec => []NothingLost
<1>1. IInv /\ [Next]_vars => IInv'
  BY NextIInv
<1>2. IInv => NothingLost
  BY KeptMeaning DEF IInv
<1> QED BY InitIInv, <1>1, <1>2, PTL DEF Spec
-----------------------------------------------------------------------------
(* The registry, and the elements with style state.                         *)

RegistryTypes ==
  /\ lastId \in Nat /\ styled \in SUBSET (1..lastId)
  /\ ids \in [Handles -> [id : 0..lastId, object : Nat]]
  /\ object \in [Handles -> Nat] /\ born \in [Handles -> Nat]
  /\ \A h \in Handles : ids[h] # NoId => ids[h].id # 0
  /\ \A g, h \in Handles : ids[g].id = ids[h].id /\ ids[h].id # 0 => g = h

(* A pair that a later drain will examine.                                  *)
Covered(x) == x \in pending \/ \E d \in 1..MaxDepth : x \in frames[d].batch

(* A handle that is being released while its element has state again was    *)
(* reported underneath, and that report has queued it again.                *)
Requeueing ==
  \A d \in 1..MaxDepth : \A x \in frames[d].entry :
    x \notin frames[d].batch /\ (Held(x) => Covered(x))

(* While a handle is being removed, an element found by it has state under  *)
(* no other id than the removal has found.                                  *)
Remembered ==
  \A d \in 1..MaxDepth : frames[d].kind = "removal" =>
    \A x \in frames[d].batch :
      ids[x[2]].id \in styled => ids[x[2]].id = frames[d].id

SInv == IInv /\ RegistryTypes /\ Requeueing /\ Remembered /\ StateFound

(* The handle by which the element i is found.                              *)
Finds(h, i) ==
  /\ ids[h].id = i /\ Known(h) /\ object[h] # 0
  /\ <<current, h>> \in registered

(* No frame gets an entry.                                                  *)
NoEntry ==
  \A d \in 1..MaxDepth :
    \/ frames'[d].entry = {}
    \/ frames'[d].entry \subseteq frames[d].entry /\ frames'[d].batch \subseteq frames[d].batch

LEMMA PushCovers ==
  ASSUME TypeOK, NEW frame \in Frame, depth < MaxDepth, Push(frame), frame.entry = {},
         pending \subseteq pending' \cup frame.batch
  PROVE  /\ NoEntry
         /\ \A x : Covered(x) => Covered(x)'
         /\ \A x \in frame.batch : Covered(x)'
<1>1. /\ depth + 1 \in 1..MaxDepth /\ frames'[depth + 1] = frame
      /\ \A d \in 1..depth : frames'[d] = frames[d]
  BY PushTypes
<1>2. \A d \in 1..MaxDepth : d > depth => frames[d].batch = {} /\ frames[d].entry = {}
  BY DEF TypeOK, FramesNested, Free, FrameOf
<1>3. \A d \in 1..MaxDepth : d # depth + 1 => frames'[d] = frames[d]
  BY ReleaseAssumption DEF Push, TypeOK
<1>4. NoEntry
  BY <1>1, <1>3 DEF NoEntry
<1>5. \A x \in frame.batch : Covered(x)'
  BY <1>1 DEF Covered
<1>6. ASSUME NEW x, Covered(x) PROVE Covered(x)'
  <2>1. CASE x \in pending
    BY <1>5, <2>1 DEF Covered
  <2>2. CASE \E d \in 1..MaxDepth : x \in frames[d].batch
    <3>1. PICK d \in 1..MaxDepth : x \in frames[d].batch
      BY <2>2
    <3>2. d # depth + 1
      BY <1>2, <3>1 DEF TypeOK
    <3> QED BY <1>3, <3>1, <3>2 DEF Covered
  <2> QED BY <1>6, <2>1, <2>2 DEF Covered
<1> QED BY <1>4, <1>5, <1>6

LEMMA PopCovers ==
  ASSUME TypeOK, depth > 0, Pop,
         pending \subseteq pending', Top.batch \subseteq pending'
  PROVE  NoEntry /\ \A x : Covered(x) => Covered(x)'
<1>1. \A d \in 1..MaxDepth : d # depth => frames'[d] = frames[d]
  BY PopTypes
<1>2. depth \in 1..MaxDepth /\ frames'[depth] = Free
  BY ReleaseAssumption DEF Pop, TypeOK
<1>3. NoEntry
  BY <1>1, <1>2 DEF NoEntry, Free, FrameOf
<1>4. ASSUME NEW x, Covered(x) PROVE Covered(x)'
  <2>1. CASE x \in pending
    BY <2>1 DEF Covered
  <2>2. CASE \E d \in 1..MaxDepth : x \in frames[d].batch
    <3>1. PICK d \in 1..MaxDepth : x \in frames[d].batch
      BY <2>2
    <3>2. CASE d = depth
      BY <3>1, <3>2 DEF Covered, Top
    <3>3. CASE d # depth
      BY <1>1, <3>1, <3>3 DEF Covered
    <3> QED BY <3>2, <3>3
  <2> QED BY <1>4, <2>1, <2>2 DEF Covered
<1> QED BY <1>3, <1>4

(* The drain gives its entry up; the batch stays.                           *)
LEMMA EntryGone ==
  ASSUME TypeOK, Draining, UNCHANGED depth, pending \subseteq pending',
         frames' = [frames EXCEPT ![depth] = DrainFrame(Top.batch, {})]
  PROVE  NoEntry /\ \A x : Covered(x) => Covered(x)'
<1>1. /\ depth \in 1..MaxDepth
      /\ Top.batch \in SUBSET Pairs /\ {} \in SUBSET Pairs
  BY TopDrain
<1>2. /\ frames'[depth].batch = Top.batch /\ frames'[depth].entry = {}
      /\ \A d \in 1..MaxDepth : d # depth => frames'[d] = frames[d]
  BY <1>1, TopTypes
<1>3. \A d \in 1..MaxDepth : frames'[d].batch = frames[d].batch
  BY <1>1, <1>2 DEF Top
<1> QED BY <1>2, <1>3 DEF NoEntry, Covered

LEMMA FramesStay ==
  ASSUME UNCHANGED frames, pending \subseteq pending'
  PROVE  NoEntry /\ \A x : Covered(x) => Covered(x)'
BY DEF NoEntry, Covered

(* Requeueing survives a step that enters no handle, keeps what is covered  *)
(* covered, and gives state only to what is covered.                        *)
LEMMA RequeueingKept ==
  ASSUME TypeOK, Requeueing, NoEntry, \A x : Covered(x) => Covered(x)',
         \A x \in Pairs : Held(x)' => Held(x) \/ Covered(x)'
  PROVE  Requeueing'
<1>1. ASSUME NEW d \in 1..MaxDepth, NEW x \in frames'[d].entry
      PROVE  x \notin frames'[d].batch /\ (Held(x)' => Covered(x)')
  <2>1. x \in frames[d].entry /\ frames'[d].batch \subseteq frames[d].batch
    BY <1>1 DEF NoEntry
  <2>2. x \notin frames[d].batch /\ (Held(x) => Covered(x))
    BY <2>1 DEF Requeueing
  <2>3. x \in Pairs
    BY <2>1 DEF TypeOK, Frame
  <2> QED BY <2>1, <2>2, <2>3
<1> QED BY <1>1 DEF Requeueing

(* Elements lose their ids or their state, and none is found differently.   *)
LEMMA NothingNewHeld ==
  ASSUME RegistryTypes, styled' \subseteq styled, UNCHANGED current,
         \A h \in Handles : ids'[h] \in {NoId, ids[h]}
  PROVE  \A x \in Pairs : Held(x)' => Held(x)
<1>1. ASSUME NEW x \in Pairs, Held(x)' PROVE Held(x)
  <2>1. x[1] = current /\ x[2] \in Handles /\ ids'[x[2]].id \in styled
    BY <1>1 DEF Held, Pairs
  <2>2. ids'[x[2]].id # 0
    BY <2>1 DEF RegistryTypes
  <2>3. ids'[x[2]] = ids[x[2]]
    BY <2>1, <2>2 DEF NoId
  <2> QED BY <2>1, <2>3 DEF Held
<1> QED BY <1>1

LEMMA StillFound ==
  ASSUME StateFound, styled' \subseteq styled,
         \A i \in styled' : \A h \in Handles : Finds(h, i) =>
            /\ ids'[h] = ids[h] /\ object'[h] = object[h]
            /\ <<current', h>> \in registered'
  PROVE  StateFound'
<1>1. ASSUME NEW i \in styled'
      PROVE  \E h \in Handles : /\ ids'[h].id = i /\ Known(h)' /\ object'[h] # 0
                                /\ <<current', h>> \in registered'
  <2>1. PICK h \in Handles : Finds(h, i)
    BY <1>1 DEF StateFound, Finds
  <2> QED BY <1>1, <2>1 DEF Finds, Known
<1> QED BY <1>1 DEF StateFound

(* A step that leaves the registry and the world alone.                     *)
LEMMA SameRegistry ==
  ASSUME SInv, IInv', UNCHANGED <<registryVars, object, born, current>>,
         registered \subseteq registered'
  PROVE  /\ RegistryTypes' /\ StateFound'
         /\ \A x \in Pairs : Held(x)' => Held(x)
<1> USE DEF SInv, registryVars
<1>1. RegistryTypes'
  BY DEF RegistryTypes
<1>2. StateFound'
  BY StillFound DEF Finds
<1> QED BY <1>1, <1>2 DEF Held

(* A step that enters no removal, and only takes ids and state away.        *)
LEMMA RememberedKept ==
  ASSUME TypeOK, Remembered, RegistryTypes', styled' \subseteq styled,
         \A d \in 1..MaxDepth : frames'[d].kind = "removal" => frames'[d] = frames[d],
         \A h \in Handles : ids'[h] \in {NoId, ids[h]}
  PROVE  Remembered'
<1>1. ASSUME NEW d \in 1..MaxDepth, frames'[d].kind = "removal",
             NEW x \in frames'[d].batch, ids'[x[2]].id \in styled'
      PROVE  ids'[x[2]].id = frames'[d].id
  <2>1. frames'[d] = frames[d]
    BY <1>1
  <2>2. frames[d] \in Frame
    BY DEF TypeOK
  <2>3. x \in Pairs
    BY <1>1, <2>1, <2>2 DEF Frame
  <2>4. x[2] \in Handles
    BY <2>3 DEF Pairs
  <2>5. ids'[x[2]].id # 0
    BY <1>1 DEF RegistryTypes
  <2>6. ids'[x[2]] = ids[x[2]]
    BY <2>4, <2>5 DEF NoId
  <2>7. ids[x[2]].id \in styled
    BY <1>1, <2>6
  <2> QED BY <1>1, <2>1, <2>6, <2>7 DEF Remembered
<1> QED BY <1>1 DEF Remembered

(* The frame entered or changed is no removal's.                            *)
LEMMA NoRemovalPushed ==
  ASSUME TypeOK, NEW frame \in Frame, depth < MaxDepth, Push(frame), frame.kind # "removal"
  PROVE  \A d \in 1..MaxDepth : frames'[d].kind = "removal" => frames'[d] = frames[d]
<1>1. \A d \in 1..MaxDepth : frames'[d] = IF d = depth + 1 THEN frame ELSE frames[d]
  BY DEF Push, TypeOK
<1> QED BY <1>1

LEMMA NoRemovalPopped ==
  ASSUME TypeOK, depth > 0, Pop
  PROVE  \A d \in 1..MaxDepth : frames'[d].kind = "removal" => frames'[d] = frames[d]
<1>1. \A d \in 1..MaxDepth : frames'[d] = IF d = depth THEN Free ELSE frames[d]
  BY DEF Pop, TypeOK
<1> QED BY <1>1 DEF Free, FrameOf

LEMMA NoRemovalDrained ==
  ASSUME TypeOK, NEW batch, NEW entry,
         frames' = [frames EXCEPT ![depth] = DrainFrame(batch, entry)]
  PROVE  \A d \in 1..MaxDepth : frames'[d].kind = "removal" => frames'[d] = frames[d]
<1>1. \A d \in 1..MaxDepth : frames'[d] = IF d = depth THEN DrainFrame(batch, entry) ELSE frames[d]
  BY DEF TypeOK
<1> QED BY <1>1 DEF DrainFrame, FrameOf

-----------------------------------------------------------------------------
(* A report.  Its element, when it is styled, is in the report's batch.     *)
LEMMA ReportBeginsStyles ==
  ASSUME SInv, ~readded', NEW h \in Handles, NEW p \in Handles, ReportBegins(h, p)
  PROVE  RegistryTypes' /\ Requeueing' /\ Remembered' /\ StateFound'
<1> DEFINE qs == {<<current, h>>, <<current, p>>}
<1> DEFINE frame == FrameOf("report", qs, {}, 0)
<1> USE DEF SInv, IInv
<1>1. frame \in Frame /\ frame.entry = {} /\ frame.batch = qs /\ frame.kind = "report"
  BY DEF Frame, FrameOf, TypeOK, Pairs
<1>2. /\ depth < MaxDepth /\ Push(frame) /\ registered' = registered \cup qs
      /\ object[h] # 0 /\ ~Leaving(h)
      /\ UNCHANGED <<pending, current, object, born>>
  BY DEF ReportBegins
<1>3. <<current, h>> \in qs
  OBVIOUS
<1> HIDE DEF qs, frame
<1>4. NoEntry /\ (\A x : Covered(x) => Covered(x)') /\ \A x \in qs : Covered(x)'
  BY <1>1, <1>2, PushCovers
<1>7. ASSUME NEW d \in 1..MaxDepth, frames'[d].kind = "removal", NEW x \in frames'[d].batch
      PROVE  frames'[d] = frames[d] /\ x[2] # h /\ x[2] \in Handles
  <2>1. frames'[d] = frames[d]
    BY <1>1, <1>2, <1>7, NoRemovalPushed
  <2>2. ~(d > depth)
    BY <1>7, <2>1 DEF TypeOK, FramesNested, Free, FrameOf
  <2>3. d \in 1..depth /\ frames[d] \in Frame
    BY <2>2 DEF TypeOK
  <2>4. x[2] # h
    BY <1>2, <1>7, <2>1, <2>3 DEF Leaving
  <2>5. x \in Pairs
    BY <1>7, <2>1, <2>3 DEF Frame
  <2> QED BY <2>1, <2>4, <2>5 DEF Pairs
<1>5. CASE UNCHANGED registryVars
  <2>2. Remembered'
    BY <1>5, <1>7 DEF Remembered, registryVars
  <2>1. RegistryTypes' /\ StateFound' /\ \A x \in Pairs : Held(x)' => Held(x)
    <3>1. RegistryTypes'
      BY <1>2, <1>5 DEF RegistryTypes, registryVars
    <3>2. StateFound'
      BY <1>2, <1>5, StillFound DEF Finds, registryVars
    <3> QED BY <1>2, <1>5, <3>1, <3>2 DEF Held, registryVars
  <2> QED BY <1>4, <2>1, <2>2, RequeueingKept
<1> DEFINE i == IF Known(h) THEN ids[h].id ELSE lastId + 1
<1>6. CASE Identified(h) /\ styled' \in {styled, styled \cup {i}}
  <2>0. /\ lastId \in Nat /\ DOMAIN ids = Handles
        /\ \A g \in Handles : ids[g].id \in 0..lastId /\ (ids[g] # NoId => ids[g].id # 0)
        /\ styled \subseteq 1..lastId
    BY DEF RegistryTypes
  <2>1. /\ lastId' \in {lastId, lastId + 1}
        /\ ids'[h].id = i /\ Known(h)' /\ i \in 1..lastId'
        /\ Known(h) => ids'[h] = ids[h]
        /\ ~Known(h) => ids'[h].id = lastId + 1
        /\ \A g \in Handles : g # h => ids'[g] = ids[g]
        /\ ids' \in [Handles -> [id : 0..lastId', object : Nat]]
    <3>1. CASE Known(h)
      BY <1>2, <1>6, <2>0, <3>1 DEF Identified, Known, RegistryTypes
    <3>2. CASE ~Known(h)
      <4>1. lastId' = lastId + 1 /\ ids' = [ids EXCEPT ![h] = [id |-> lastId + 1, object |-> object[h]]]
        BY <1>6, <3>2 DEF Identified
      <4>2. ids'[h] = [id |-> lastId + 1, object |-> object[h]]
        BY <2>0, <4>1
      <4>3. /\ ids'[h].id = lastId + 1 /\ ids'[h].object = object[h]
            /\ ids'[h] # NoId
        BY <2>0, <4>2 DEF NoId
      <4>4. \A g \in Handles : g # h => ids'[g] = ids[g]
        BY <2>0, <4>1
      <4>5. object[h] \in Nat /\ ids \in [Handles -> [id : 0..lastId, object : Nat]]
        BY DEF RegistryTypes
      <4>6. ids' \in [Handles -> [id : 0..lastId', object : Nat]]
        BY <2>0, <4>1, <4>5
      <4> QED BY <1>2, <2>0, <3>2, <4>1, <4>3, <4>4, <4>6 DEF Known
    <3> QED BY <3>1, <3>2
  <2>2. RegistryTypes'
    <3>1. lastId' \in Nat /\ styled' \in SUBSET (1..lastId')
      <4>1. lastId' \in Nat /\ 1..lastId \subseteq 1..lastId'
        BY <2>0, <2>1
      <4> HIDE DEF i
      <4> QED BY <1>6, <2>0, <2>1, <4>1
    <3>2. \A g \in Handles : ids'[g] # NoId => ids'[g].id # 0
      BY <2>0, <2>1
    <3>3. ASSUME NEW f \in Handles, NEW g \in Handles, ids'[f].id = ids'[g].id, ids'[g].id # 0
          PROVE  f = g
      BY <2>0, <2>1, <3>3 DEF RegistryTypes
    <3> QED BY <1>2, <2>1, <3>1, <3>2, <3>3 DEF RegistryTypes
  <2>3. ASSUME NEW x \in Pairs, Held(x)' PROVE Held(x) \/ Covered(x)'
    <3>1. PICK g \in Handles : x = <<x[1], g>>
      BY DEF Pairs
    <3>2. x[1] = current /\ x[2] = g /\ ids'[g].id \in styled'
      BY <1>2, <2>3, <3>1 DEF Held
    <3>3. CASE g = h
      BY <1>3, <1>4, <3>1, <3>2, <3>3
    <3>4. CASE g # h
      <4>1. ids[g].id \in styled \cup {i} /\ ids[g].id \in 0..lastId
        BY <1>6, <2>0, <2>1, <3>2, <3>4
      <4>2. ids[g].id # i
        BY <2>0, <3>4, <4>1 DEF RegistryTypes, Known
      <4> QED BY <3>2, <4>1, <4>2 DEF Held
    <3> QED BY <3>3, <3>4
  <2>5. ASSUME NEW d \in 1..MaxDepth, frames'[d].kind = "removal",
               NEW x \in frames'[d].batch, ids'[x[2]].id \in styled'
        PROVE  ids'[x[2]].id = frames'[d].id
    <3>1. PICK g \in Handles : g = x[2] /\ g # h
      BY <1>7, <2>5
    <3>2. ids'[g] = ids[g]
      BY <2>1, <3>1
    <3>3. ids[g].id \in styled \cup {i} /\ ids[g].id \in 0..lastId
      BY <1>6, <2>0, <2>5, <3>1, <3>2
    <3>4. ids[g].id # i
      BY <2>0, <3>1, <3>3 DEF RegistryTypes, Known
    <3> QED BY <1>7, <2>5, <3>1, <3>2, <3>3, <3>4 DEF Remembered
  <2>6. Remembered'
    BY <2>5 DEF Remembered
  <2>4. ASSUME NEW j \in styled'
        PROVE  \E g \in Handles : /\ ids'[g].id = j /\ Known(g)' /\ object'[g] # 0
                                  /\ <<current', g>> \in registered'
    <3>1. CASE j = i
      BY <1>2, <1>3, <2>1, <3>1
    <3>2. CASE j \in styled
      <4>1. PICK g \in Handles : Finds(g, j)
        BY <3>2 DEF StateFound, Finds
      <4>2. ids'[g] = ids[g]
        BY <2>1, <4>1 DEF Finds
      <4> QED BY <1>2, <4>1, <4>2 DEF Finds, Known
    <3> QED BY <1>6, <2>4, <3>1, <3>2
  <2> QED BY <1>4, <2>2, <2>3, <2>4, <2>6, RequeueingKept DEF StateFound
<1> QED BY <1>5, <1>6 DEF ReportBegins

(* A removal begins with the id that its handle has.                        *)
LEMMA RemovalBeginsRemembers ==
  ASSUME SInv, IInv', NEW h \in Handles, RemovalBegins(h)
  PROVE  RegistryTypes' /\ Requeueing' /\ Remembered' /\ StateFound'
<1> DEFINE qs == {<<current, h>>}
<1> DEFINE frame == FrameOf("removal", qs, {}, ids[h].id)
<1> USE DEF SInv, IInv
<1>1. /\ frame \in Frame /\ frame.entry = {} /\ frame.batch = qs /\ frame.id = ids[h].id
      /\ \A x \in qs : x[2] = h
  BY DEF Frame, FrameOf, TypeOK, RegistryTyped, Pairs
<1>2. /\ depth < MaxDepth /\ Push(frame) /\ registered \subseteq registered'
      /\ UNCHANGED <<pending, current, object, born, registryVars>>
  BY DEF RemovalBegins
<1> HIDE DEF qs, frame
<1>3. NoEntry /\ \A x : Covered(x) => Covered(x)'
  BY <1>1, <1>2, PushCovers
<1>4. RegistryTypes' /\ StateFound' /\ \A x \in Pairs : Held(x)' => Held(x)
  BY <1>2, SameRegistry
<1>5. \A d \in 1..MaxDepth : frames'[d] = IF d = depth + 1 THEN frame ELSE frames[d]
  BY <1>2 DEF Push, TypeOK
<1>6. ASSUME NEW d \in 1..MaxDepth, frames'[d].kind = "removal",
             NEW x \in frames'[d].batch, ids[x[2]].id \in styled
      PROVE  ids[x[2]].id = frames'[d].id
  <2>1. CASE d = depth + 1
    BY <1>1, <1>5, <1>6, <2>1
  <2>2. CASE d # depth + 1
    BY <1>5, <1>6, <2>2 DEF Remembered
  <2> QED BY <2>1, <2>2
<1>7. Remembered'
  BY <1>2, <1>6 DEF Remembered, registryVars
<1> QED BY <1>3, <1>4, <1>7, RequeueingKept

(* It ends with the state of that id and whatever id the handle has by now: *)
(* nothing else was found by the handle.                                    *)
LEMMA RemovalEndsUnstyles ==
  ASSUME SInv, RemovalEnds
  PROVE  RegistryTypes' /\ Requeueing' /\ Remembered' /\ StateFound'
<1> USE DEF SInv, IInv
<1>1. /\ depth > 0 /\ Top.kind = "removal" /\ Pop /\ styled' = styled \ {Top.id}
      /\ ids' = [h \in Handles |-> IF \E x \in Top.batch : x[2] = h THEN NoId ELSE ids[h]]
      /\ pending \subseteq pending' /\ Top.batch \subseteq pending'
      /\ UNCHANGED <<lastId, current, object, born, registered>>
  BY DEF RemovalEnds, QueueRelease, worldVars
<1>2. \A h \in Handles : ids'[h] \in {NoId, ids[h]}
  BY <1>1
<1>3. RegistryTypes'
  <2>1. NoId \in [id : 0..lastId, object : Nat] /\ NoId.id = 0
    BY DEF RegistryTypes, NoId
  <2>2. ids' \in [Handles -> [id : 0..lastId, object : Nat]]
    BY <1>1, <2>1 DEF RegistryTypes
  <2> QED BY <1>1, <1>2, <2>1, <2>2 DEF RegistryTypes
<1>4. \A x \in Pairs : Held(x)' => Held(x)
  BY <1>1, <1>2, NothingNewHeld
<1>5. Requeueing'
  BY <1>1, <1>4, PopCovers, RequeueingKept
<1>6. Remembered'
  BY <1>1, <1>2, <1>3, NoRemovalPopped, RememberedKept
<1>7. StateFound'
  <2>1. depth \in 1..MaxDepth
    BY <1>1 DEF TypeOK
  <2>2. ASSUME NEW i \in styled', NEW g \in Handles, Finds(g, i)
        PROVE  /\ ids'[g] = ids[g] /\ object'[g] = object[g]
               /\ <<current', g>> \in registered'
    <3>1. ids[g].id = i /\ i \in styled /\ i # Top.id /\ <<current, g>> \in registered
      BY <1>1, <2>2 DEF Finds
    <3>2. ~ \E x \in Top.batch : x[2] = g
      BY <1>1, <2>1, <3>1 DEF Remembered, Top
    <3> QED BY <1>1, <3>1, <3>2
  <2> QED BY <1>1, <2>2, StillFound
<1> QED BY <1>3, <1>5, <1>6, <1>7

(* A handle is given back only when its element has no state, or was queued *)
(* again by a report that the release itself let in.                        *)
LEMMA ReleaseSucceedsUnstyled ==
  ASSUME SInv, ReleaseSucceeds
  PROVE  RegistryTypes' /\ Requeueing' /\ StateFound'
<1> USE DEF SInv, IInv
<1>1. /\ Draining
      /\ frames' = [frames EXCEPT ![depth] = DrainFrame(Top.batch, {})]
      /\ registered' = {y \in registered : y \in Top.entry => Requeued(y)}
      /\ UNCHANGED <<pending, depth, lastId, styled, current, object, born>>
  BY DEF ReleaseSucceeds
<1>2. \A h \in Handles : ids'[h] = ids[h] \/ (~Known(h) /\ ids'[h] = NoId)
  BY DEF ReleaseSucceeds
<1>3. DOMAIN ids' = Handles /\ ids' = [h \in Handles |-> ids'[h]]
  BY DEF ReleaseSucceeds
<1>4. RegistryTypes'
  <2>1. NoId \in [id : 0..lastId, object : Nat] /\ NoId.id = 0
    BY DEF RegistryTypes, NoId
  <2> QED BY <1>1, <1>2, <1>3, <2>1 DEF RegistryTypes
<1>5. \A x \in Pairs : Held(x)' => Held(x)
  BY <1>1, <1>2, NothingNewHeld
<1>6. Requeueing'
  BY <1>1, <1>5, EntryGone, RequeueingKept
<1>7. ASSUME NEW i \in styled, NEW h \in Handles, Finds(h, i)
      PROVE  <<current, h>> \in registered'
  <2> DEFINE x == <<current, h>>
  <2>1. Held(x) /\ x \in registered
    BY <1>7 DEF Held, Finds
  <2> HIDE DEF x
  <2>2. CASE x \notin Top.entry
    BY <1>1, <2>1, <2>2 DEF x
  <2>3. CASE x \in Top.entry
    <3>1. depth \in 1..MaxDepth /\ x \in frames[depth].entry
      BY <1>1, <2>3, TopDrain DEF Top
    <3>2. x \notin frames[depth].batch /\ Covered(x)
      BY <2>1, <3>1 DEF Requeueing
    <3>3. Requeued(x)
      <4>1. CASE x \in pending
        BY <4>1 DEF Requeued
      <4>2. CASE \E d \in 1..MaxDepth : x \in frames[d].batch
        <5>1. PICK d \in 1..MaxDepth : x \in frames[d].batch
          BY <4>2
        <5>2. ~(d > depth)
          BY <5>1 DEF TypeOK, FramesNested, Free, FrameOf
        <5>3. d \in 1..depth - 1
          BY <3>1, <3>2, <5>1, <5>2, ReleaseAssumption
        <5> QED BY <5>1, <5>3 DEF Requeued
      <4> QED BY <3>2, <4>1, <4>2 DEF Covered
    <3> QED BY <1>1, <2>1, <3>3 DEF x
  <2> QED BY <2>2, <2>3
<1>8. StateFound'
  <2>1. ASSUME NEW i \in styled', NEW h \in Handles, Finds(h, i)
        PROVE  /\ ids'[h] = ids[h] /\ object'[h] = object[h]
               /\ <<current', h>> \in registered'
    BY <1>1, <1>2, <1>7, <2>1 DEF Finds
  <2> QED BY <1>1, <2>1, StillFound
<1> QED BY <1>4, <1>6, <1>8

(* The reaper forgets ids that name no live element.                        *)
LEMMA DrainEndsReaping ==
  ASSUME SInv, DrainEnds
  PROVE  RegistryTypes' /\ Requeueing' /\ StateFound'
<1> USE DEF SInv, IInv
<1>1. /\ depth > 0 /\ Pop /\ Top.batch = {}
      /\ UNCHANGED <<pending, lastId, current, registered, object, born>>
  BY DEF DrainEnds, Draining, worldVars
<1>2. /\ styled' \subseteq styled
      /\ \A h \in Handles : ids'[h] = ids[h] \/ (~Known(h) /\ ids'[h] = NoId)
  BY DEF DrainEnds, Dead
<1>3. RegistryTypes'
  <2>1. NoId \in [id : 0..lastId, object : Nat] /\ NoId.id = 0
    BY DEF RegistryTypes, NoId
  <2>2. ids' = [h \in Handles |-> ids'[h]]
    BY DEF DrainEnds, RegistryTypes
  <2> QED BY <1>1, <1>2, <2>1, <2>2 DEF RegistryTypes
<1>4. \A x \in Pairs : Held(x)' => Held(x)
  BY <1>1, <1>2, NothingNewHeld
<1>5. Requeueing'
  BY <1>1, <1>4, PopCovers, RequeueingKept
<1>6. StateFound'
  <2>1. ASSUME NEW i \in styled', NEW h \in Handles, Finds(h, i)
        PROVE  /\ ids'[h] = ids[h] /\ object'[h] = object[h]
               /\ <<current', h>> \in registered'
    BY <1>1, <1>2, <2>1 DEF Finds
  <2> QED BY <1>2, <2>1, StillFound
<1> QED BY <1>3, <1>5, <1>6

(* A drain takes the queue into its batch.                                  *)
LEMMA BeginDrainCovers ==
  ASSUME SInv, IInv', BeginDrain, UNCHANGED <<registryVars, worldVars>>
  PROVE  RegistryTypes' /\ Requeueing' /\ StateFound'
<1> USE DEF SInv, IInv, worldVars
<1> DEFINE frame == DrainFrame(pending, {})
<1>1. frame \in Frame /\ frame.entry = {} /\ frame.batch = pending
  BY DEF Frame, TypeOK, DrainFrame, FrameOf
<1>2. depth < MaxDepth /\ Push(frame)
  BY DEF BeginDrain
<1> HIDE DEF frame
<1>3. NoEntry /\ \A x : Covered(x) => Covered(x)'
  BY <1>1, <1>2, PushCovers
<1> QED BY <1>3, SameRegistry, RequeueingKept

(* A pair is entered only when its element has no state; held back, it      *)
(* returns to the queue.                                                    *)
LEMMA ExamineCovers ==
  ASSUME SInv, IInv', NEW x \in Pairs, Examine(x)
  PROVE  RegistryTypes' /\ Requeueing' /\ StateFound'
<1> USE DEF SInv, IInv, worldVars
<1>1. /\ Draining /\ Top.entry = {} /\ x \in Top.batch
      /\ UNCHANGED <<depth, registryVars, worldVars>>
  BY DEF Examine
<1>2. RegistryTypes' /\ StateFound'
  BY <1>1, SameRegistry
<1>3. \A y : Held(y)' = Held(y)
  BY <1>1 DEF Held, registryVars
<1>4. depth \in 1..MaxDepth /\ Top.batch \in SUBSET Pairs
  BY <1>1, TopDrain
<1> DEFINE rest == Top.batch \ {x}
           entry == IF Held(x) THEN {} ELSE {x}
<1>5. /\ rest \in SUBSET Pairs /\ entry \in SUBSET Pairs
      /\ frames' = [frames EXCEPT ![depth] = DrainFrame(rest, entry)]
      /\ pending \subseteq pending' /\ (Held(x) => x \in pending')
  BY <1>4 DEF Examine
<1>6. /\ x \notin rest /\ (\A y \in Top.batch : y # x => y \in rest)
      /\ \A y \in entry : y = x /\ ~Held(x)
  OBVIOUS
<1> HIDE DEF rest, entry
<1>7. /\ frames'[depth].batch = rest /\ frames'[depth].entry = entry
      /\ \A d \in 1..MaxDepth : d # depth => frames'[d] = frames[d]
  BY <1>1, <1>5, TopTypes
<1>8. ASSUME NEW y, Covered(y), Held(y) PROVE Covered(y)'
  <2>1. CASE y \in pending \/ y = x
    BY <1>5, <1>8, <2>1 DEF Covered
  <2>2. CASE y # x /\ \E d \in 1..MaxDepth : y \in frames[d].batch
    <3>1. PICK d \in 1..MaxDepth : y \in frames[d].batch
      BY <2>2
    <3>2. y \in frames'[d].batch
      BY <1>6, <1>7, <2>2, <3>1 DEF Top
    <3> QED BY <3>2 DEF Covered
  <2> QED BY <1>8, <2>1, <2>2 DEF Covered
<1>9. ASSUME NEW d \in 1..MaxDepth, NEW y \in frames'[d].entry
      PROVE  y \notin frames'[d].batch /\ (Held(y)' => Covered(y)')
  <2>1. CASE d = depth
    BY <1>3, <1>6, <1>7, <1>9, <2>1
  <2>2. CASE d # depth
    BY <1>3, <1>7, <1>8, <1>9, <2>2 DEF Requeueing
  <2> QED BY <2>1, <2>2
<1> QED BY <1>2, <1>9 DEF Requeueing

(* Objects come and go behind handles that XAML has not registered, and     *)
(* sessions only between styles.                                            *)
LEMMA WorldKeepsStyles ==
  ASSUME SInv, IInv',
         \/ \E h \in Handles : Dies(h) \/ IsBorn(h)
         \/ SessionReplaced \/ Restores
  PROVE  RegistryTypes' /\ Requeueing' /\ StateFound'
<1> USE DEF SInv, IInv, queueVars, registryVars, worldVars
<1>0. UNCHANGED <<pending, frames, ids, lastId, registered>> /\ styled' \subseteq styled
  BY DEF Dies, IsBorn, SessionReplaced, Restores
<1>1. NoEntry /\ \A x : Covered(x) => Covered(x)'
  BY <1>0, FramesStay
<1>2. CASE \E h \in Handles : Dies(h) \/ IsBorn(h)
  <2>1. PICK h \in Handles : Dies(h) \/ IsBorn(h)
    BY <1>2
  <2>2. /\ \A g \in Handles : g # h => object'[g] = object[g]
        /\ UNCHANGED <<current, styled>>
    BY <2>1 DEF Dies, IsBorn, RegistryTypes
  <2>3. RegistryTypes'
    BY <1>0, <2>1 DEF Dies, IsBorn, RegistryTypes
  <2>4. ASSUME NEW i \in styled', NEW g \in Handles, Finds(g, i) PROVE g # h
    <3>1. object[g] # 0 /\ <<current, g>> \in registered
      BY <2>4 DEF Finds
    <3>2. CASE Dies(h)
      BY <3>1, <3>2 DEF Dies
    <3>3. CASE IsBorn(h)
      BY <3>1, <3>3 DEF IsBorn
    <3> QED BY <2>1, <3>2, <3>3
  <2>5. StateFound'
    <3>1. ASSUME NEW i \in styled', NEW g \in Handles, Finds(g, i)
          PROVE  /\ ids'[g] = ids[g] /\ object'[g] = object[g]
                 /\ <<current', g>> \in registered'
      BY <1>0, <2>2, <2>4, <3>1 DEF Finds
    <3> QED BY <1>0, <3>1, StillFound
  <2>6. \A x \in Pairs : Held(x)' => Held(x)
    BY <1>0, <2>2 DEF Held
  <2> QED BY <1>1, <2>3, <2>5, <2>6, RequeueingKept
<1>3. CASE SessionReplaced \/ Restores
  <2>1. styled' = {} /\ UNCHANGED <<object, born>>
    BY <1>3 DEF SessionReplaced, Restores
  <2>2. RegistryTypes' /\ StateFound' /\ \A x \in Pairs : ~Held(x)'
    BY <1>0, <2>1 DEF RegistryTypes, StateFound, Held
  <2> QED BY <1>1, <2>2, RequeueingKept
<1> QED BY <1>2, <1>3

(* Every other step leaves the frames of the removals as they are, and only *)
(* takes ids and state away.                                                *)
LEMMA OthersRemember ==
  ASSUME SInv, RegistryTypes', [Next]_vars,
         ~ \E h, p \in Handles : ReportBegins(h, p),
         ~ \E h \in Handles : RemovalBegins(h), ~RemovalEnds
  PROVE  Remembered'
<1> DEFINE SameRemovals ==
             \A d \in 1..MaxDepth : frames'[d].kind = "removal" => frames'[d] = frames[d]
           Less == styled' \subseteq styled /\ \A h \in Handles : ids'[h] \in {NoId, ids[h]}
<1> USE DEF queueVars, registryVars, worldVars
<1>0. TypeOK /\ Remembered
  BY DEF SInv, IInv
<1> SUFFICES SameRemovals /\ Less
  BY <1>0, RememberedKept
<1>1. CASE TickDrains \/ StopDrains
  <2>1. BeginDrain /\ Less
    BY <1>1 DEF TickDrains, StopDrains
  <2>2. DrainFrame(pending, {}) \in Frame /\ DrainFrame(pending, {}).kind # "removal"
    BY <1>0 DEF DrainFrame, FrameOf, Frame, TypeOK
  <2>3. SameRemovals
    BY <1>0, <2>1, <2>2, NoRemovalPushed DEF BeginDrain
  <2> QED BY <2>1, <2>3
<1>2. CASE \E x \in Pairs : Examine(x)
  <2>1. PICK x \in Pairs : Examine(x)
    BY <1>2
  <2>2. Less
    BY <2>1 DEF Examine
  <2>3. \E batch, entry : frames' = [frames EXCEPT ![depth] = DrainFrame(batch, entry)]
    BY <2>1 DEF Examine
  <2>4. SameRemovals
    BY <1>0, <2>3, NoRemovalDrained
  <2> QED BY <2>2, <2>4
<1>3. CASE ReleaseSucceeds \/ ReleaseFails
  <2>1. Less
    BY <1>3 DEF ReleaseSucceeds, ReleaseFails
  <2>2. frames' = [frames EXCEPT ![depth] = DrainFrame(Top.batch, {})]
    BY <1>3 DEF ReleaseSucceeds, ReleaseFails
  <2>3. SameRemovals
    BY <1>0, <2>2, NoRemovalDrained
  <2> QED BY <2>1, <2>3
<1>4. CASE ReportQueues \/ ReleaseThrows \/ DrainEnds
  <2>1. Less
    BY <1>4 DEF ReportQueues, ReleaseThrows, DrainEnds
  <2>2. depth > 0 /\ Pop
    BY <1>4 DEF ReportQueues, ReleaseThrows, DrainEnds, Draining
  <2>3. SameRemovals
    BY <1>0, <2>2, NoRemovalPopped
  <2> QED BY <2>1, <2>3
<1>5. CASE \/ TickTooEarly \/ QuietElapses \/ UNCHANGED vars
           \/ (\E h \in Handles : Dies(h) \/ IsBorn(h)) \/ SessionReplaced \/ Restores
  <2>1. UNCHANGED <<frames, ids>> /\ styled' \subseteq styled
    BY <1>5 DEF TickTooEarly, QuietElapses, vars, Dies, IsBorn, SessionReplaced, Restores
  <2> QED BY <2>1
<1> QED BY ONLY [Next]_vars, <1>1, <1>2, <1>3, <1>4, <1>5,
  ~(\E h, p \in Handles : ReportBegins(h, p)), ~(\E h \in Handles : RemovalBegins(h)),
  ~RemovalEnds DEF Next

LEMMA NextSInv == ASSUME SInv, ~readded', [Next]_vars PROVE SInv'
<1>0. IInv /\ TypeOK /\ Requeueing /\ Remembered
  BY DEF SInv, IInv
<1>1. IInv'
  BY <1>0, NextIInv
<1> USE DEF queueVars, worldVars
<1>2. CASE \E h, p \in Handles : ReportBegins(h, p)
  BY <1>1, <1>2, ReportBeginsStyles DEF SInv
<1>3. CASE (\E h \in Handles : RemovalBegins(h)) \/ RemovalEnds
  BY <1>1, <1>3, RemovalBeginsRemembers, RemovalEndsUnstyles DEF SInv
<1>4. CASE /\ ~ \E h, p \in Handles : ReportBegins(h, p)
           /\ ~ \E h \in Handles : RemovalBegins(h)
           /\ ~RemovalEnds
  <2> SUFFICES RegistryTypes' /\ Requeueing' /\ StateFound'
    BY <1>1, <1>4, OthersRemember DEF SInv
  <2>1. CASE TickDrains \/ StopDrains
    <3>1. BeginDrain /\ UNCHANGED <<registryVars, worldVars>>
      BY <2>1 DEF TickDrains, StopDrains
    <3> QED BY <1>1, <3>1, BeginDrainCovers
  <2>2. CASE \E x \in Pairs : Examine(x)
    BY <1>1, <2>2, ExamineCovers
  <2>3. CASE ReleaseSucceeds
    BY <1>1, <2>3, ReleaseSucceedsUnstyled
  <2>4. CASE DrainEnds
    BY <1>1, <2>4, DrainEndsReaping
  <2>5. CASE (\E h \in Handles : Dies(h) \/ IsBorn(h)) \/ SessionReplaced \/ Restores
    BY <1>1, <2>5, WorldKeepsStyles
  <2>6. CASE ReportQueues \/ ReleaseFails \/ ReleaseThrows
    <3>1. UNCHANGED <<registryVars, worldVars>>
      BY <2>6 DEF ReportQueues, ReleaseFails, ReleaseThrows
    <3>2. NoEntry /\ \A x : Covered(x) => Covered(x)'
      <4>1. CASE ReportQueues
        BY <1>0, <4>1, PopCovers DEF ReportQueues, QueueRelease
      <4>2. CASE ReleaseFails
        BY <1>0, <4>2, EntryGone DEF ReleaseFails
      <4>3. CASE ReleaseThrows
        BY <1>0, <4>3, PopCovers DEF ReleaseThrows, Draining
      <4> QED BY <2>6, <4>1, <4>2, <4>3
    <3>3. RegistryTypes' /\ StateFound' /\ \A x \in Pairs : Held(x)' => Held(x)
      BY <1>1, <3>1, SameRegistry
    <3> QED BY <1>0, <1>1, <3>2, <3>3, RequeueingKept
  <2>7. CASE TickTooEarly \/ QuietElapses \/ UNCHANGED vars
    <3>1. UNCHANGED <<frames, pending, registryVars, worldVars>>
      BY <2>7 DEF TickTooEarly, QuietElapses, vars
    <3>2. RegistryTypes' /\ StateFound' /\ \A x \in Pairs : Held(x)' => Held(x)
      BY <1>1, <3>1, SameRegistry
    <3> QED BY <1>0, <1>1, <3>1, <3>2, FramesStay, RequeueingKept
  <2> QED BY ONLY <2>1, <2>2, <2>3, <2>4, <2>5, <2>6, <2>7, <1>4, [Next]_vars DEF Next
<1> QED BY <1>2, <1>3, <1>4

LEMMA InitSInv == Init => SInv
<1> SUFFICES ASSUME Init PROVE SInv
  OBVIOUS
<1>1. IInv
  BY InitIInv
<1>2. RegistryTypes
  BY DEF Init, RegistryTypes, NoId
<1>3. Requeueing /\ Remembered /\ StateFound
  BY DEF Init, Requeueing, Remembered, Free, FrameOf, StateFound
<1> QED BY <1>1, <1>2, <1>3 DEF SInv

(* An element reported inside its own removal stays recorded as such.       *)
LEMMA ReaddedStays == ASSUME [Next]_vars, readded PROVE readded'
BY DEF Next, vars, queueVars, registryVars, worldVars, ReportBegins, ReportQueues,
       RemovalBegins, RemovalEnds, TickTooEarly, TickDrains, StopDrains, Examine,
       ReleaseSucceeds, ReleaseFails, ReleaseThrows, DrainEnds, Dies, IsBorn,
       SessionReplaced, Restores, QuietElapses

(* An element with state keeps the handle by which its removal will be      *)
(* reported, although a release runs XAML between the check that nothing is *)
(* held and its own effect, a removal between looking its id up and         *)
(* forgetting it, and reports, removals and drains nest there               *)
(* (ReleasePolicy, FlushReleasesNow, OnElementRemoved).                     *)
THEOREM NoStateEverStranded == Spec => []NoStateStranded
<1> DEFINE Inv == ~readded => SInv
<1>1. Init => Inv
  BY InitSInv
<1>2. Inv /\ [Next]_vars => Inv'
  <2> SUFFICES ASSUME Inv, [Next]_vars, ~readded' PROVE SInv'
    BY DEF SInv
  <2>1. ~readded
    BY ReaddedStays
  <2> QED BY <2>1, NextSInv
<1>3. Inv => NoStateStranded
  BY DEF SInv, NoStateStranded
<1> HIDE DEF Inv
<1> QED BY <1>1, <1>2, <1>3, PTL DEF Spec
=============================================================================
