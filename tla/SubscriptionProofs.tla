------------------------- MODULE SubscriptionProofs -------------------------
(***************************************************************************)
(* Proofs about Subscription, for any number of subscriptions and reports: *)
(*   - the type invariant;                                                 *)
(*   - at most one thread owns an Unadvise (OneUnadvise);                  *)
(*   - the module implements ExclusiveSubscription (NeverOverlaps);        *)
(*   - no wake-up is lost while a stop is deferred (WaitIsAnswered).       *)
(* Every one of them rests on Ownership, which says, phase by phase, which *)
(* thread has to move the subscription on.                                 *)
(***************************************************************************)
EXTENDS Subscription, TLAPS

\* A worker between its birth and AdviseFinished.
Advises(s) == pc[s] \in {"advise", "advising", "advised", "rejected"}

\* The control thread has published its subscription, the worker is not born.
Launching(s) == pc[Control] = "launch" /\ target = s

\* Until AdviseFinished the worker (or the launch) has the subscription.
AdviseOwned ==
  \A s \in Subs :
    /\ phase[s] \in {"Advising", "StopRequested"} => Advises(s) \/ Launching(s)
    /\ Advises(s) => phase[s] \in {"Advising", "StopRequested"}
    /\ Launching(s) => phase[s] = "Advising" /\ pc[s] = "idle"
    /\ phase[s] = "Unborn" => pc[s] = "idle"

\* The control thread has a subscription wherever it works on one.
ControlHasTarget ==
  pc[Control] \notin {"idle", "stop", "start"} => target \in Subs

\* The phase Unadvising has exactly one owner.
UnadviseOwned ==
  /\ \A p \in Threads : Unadvising(p) => phase[Target(p)] = "Unadvising"
  /\ \A s \in Subs :
       phase[s] = "Unadvising" => \E p \in Threads : Unadvising(p) /\ Target(p) = s
  /\ OneUnadvise

\* Only the control thread drives, only a worker advises.
StepsApart ==
  /\ pc[Control] \notin {"advise", "advising", "advised", "rejected", "notify"}
  /\ \A s \in Subs : pc[s] \notin {"stop", "request", "start", "launch"}

Ownership == /\ TypeOK
             /\ AdviseOwned
             /\ ControlHasTarget
             /\ UnadviseOwned
             /\ StepsApart

\* After the Unadvise: XAML has let go, nothing enables the callback again,
\* and whoever completes the stop found nobody inside.
Completing(p) == pc[p] \in {"complete", "quiesce", "unpublish", "announce"}

Quiet(s) == s \notin registered /\ active[s] = {}

Lease ==
  /\ \A s \in Subs :
       /\ phase[s] = "Unborn" => Quiet(s)
       /\ phase[s] \notin {"Unborn", "Stopped"} => published = s
       /\ phase[s] = "Quiescing" => s \notin registered
       /\ phase[s] = "Stopped" => Quiet(s)
       /\ phase[s] \in {"Quiescing", "Failed", "Stopped"} => s \notin enabled
  /\ \A p \in Threads :
       /\ pc[p] \in {"unadvise", "unadvised", "refused"} => Target(p) \notin enabled
       /\ pc[p] = "unadvised" => Target(p) \notin registered
       /\ Completing(p) => phase[Target(p)] \in {"Quiescing", "Stopped"}
       /\ pc[p] = "quiesce" => active[Target(p)] = {}
       /\ pc[p] \in {"unpublish", "announce"} => phase[Target(p)] = "Stopped"

\* A transition is over once it starts a subscription.
Waiting == /\ WaitIsAnswered
           /\ pc[Control] = "launch" => ~pending
           /\ pc[Control] = "request" => caller = "stop"
           /\ Unadvising(Control) \/ Completing(Control) \/ pc[Control] = "complain"
                => (caller = "start" => ~pending)

Inv == Ownership /\ Lease /\ Waiting

-----------------------------------------------------------------------------
(* Type correctness, one step per action.                                  *)

LEMMA TargetType == ASSUME TypeOK, NEW p \in Threads
                    PROVE  Target(p) \in Subs \cup {NoSub}
  BY DEF TypeOK, Target, Threads

LEMMA PhaseType == ASSUME TypeOK, NEW s \in Subs \cup {NoSub}, NEW value \in Phases,
                          SetPhase(s, value)
                   PROVE  phase' \in [Subs -> Phases]
  BY DEF TypeOK, SetPhase

LEMMA StepType == ASSUME TypeOK, NEW p \in Threads, NEW step \in Steps, Goto(p, step)
                  PROVE  pc' \in [Threads -> Steps]
  BY DEF TypeOK, Goto

LEMMA ReturnType ==
  ASSUME TypeOK, NEW p \in Threads, NEW answer \in Results, Return(p, answer)
  PROVE  /\ pc' \in [Threads -> Steps]
         /\ target' \in Subs \cup {NoSub}
         /\ caller' \in {"start", "stop"}
         /\ pending' \in BOOLEAN
         /\ result' \in Results
  BY DEF TypeOK, Return, Goto, Steps, Results, control

LEMMA TypeInitial == Init => TypeOK
  BY DEF Init, TypeOK, Phases, Steps, Results

LEMMA TypeStep == TypeOK /\ [Next]_vars => TypeOK'
<1> SUFFICES ASSUME TypeOK, [Next]_vars PROVE TypeOK'
  OBVIOUS
<1> USE DEF TypeOK, reporting, control
<1> Control \in Threads /\ Subs \subseteq Threads
  BY DEF Threads
<1>1. CASE RequestTransition
  BY <1>1 DEF RequestTransition
<1>2. CASE OnCommand
  BY <1>2 DEF OnCommand, Goto, Steps
<1>3. CASE StopSubscription
  BY <1>3 DEF StopSubscription, Goto, Steps, Results
<1>4. CASE RequestStop
  <2>1. CASE \E answer \in Results : Return(Control, answer)
    BY <1>4, <2>1, ReturnType DEF RequestStop, SetPhase, Phases, Goto, Steps
  <2>2. CASE ~\E answer \in Results : Return(Control, answer)
    BY <1>4, <2>2 DEF RequestStop, SetPhase, Phases, Goto, Steps, Results
  <2> QED
    BY <2>1, <2>2
<1>5. CASE StartSubscription
  BY <1>5 DEF StartSubscription, SetPhase, Phases, Goto, Steps, Results
<1>6. CASE LaunchWorker
  BY <1>6 DEF LaunchWorker, AdviseFinished, SetPhase, Phases, Goto, Steps, Results
<1>7. ASSUME NEW p \in Threads, UnadviseStep(p)
      PROVE  TypeOK'
  <2> Target(p) \in Subs \cup {NoSub}
    BY TargetType
  <2>1. CASE DisableCallbacks(p)
    BY <2>1 DEF DisableCallbacks, Goto, Steps
  <2>2. CASE UnadviseVisualTreeChange(p)
    BY <2>2 DEF UnadviseVisualTreeChange, Goto, Steps
  <2>3. CASE UnadviseFinished(p)
    BY <2>3 DEF UnadviseFinished, SetPhase, Phases, Goto, Steps
  <2>4. CASE ReportFailure(p)
    <3>1. "Failed" \in Results
      BY DEF Results
    <3> QED
      BY <2>4, <3>1, ReturnType DEF ReportFailure, NotifyCompletion
  <2>5. CASE CompleteStop(p)
    <3>1. "Deferred" \in Results
      BY DEF Results
    <3>2. CASE Return(p, "Deferred")
      BY <2>5, <3>1, <3>2, ReturnType DEF CompleteStop
    <3>3. CASE Goto(p, "quiesce") /\ UNCHANGED control
      BY <2>5, <3>3 DEF CompleteStop, Goto, Steps
    <3> QED
      BY <2>5, <3>2, <3>3 DEF CompleteStop
  <2>6. CASE CompleteQuiescence(p)
    <3>1. {"Stopped", "Deferred"} \subseteq Results
      BY DEF Results
    <3>2. CASE SetPhase(Target(p), "Stopped") /\ Goto(p, "unpublish") /\ UNCHANGED control
      BY <2>6, <3>2 DEF CompleteQuiescence, SetPhase, Phases, Goto, Steps
    <3>3. CASE /\ UNCHANGED phase
               /\ Return(p, IF phase[Target(p)] = "Stopped" THEN "Stopped" ELSE "Deferred")
      BY <2>6, <3>1, <3>3, ReturnType DEF CompleteQuiescence
    <3> QED
      BY <2>6, <3>2, <3>3 DEF CompleteQuiescence
  <2>7. CASE Unpublish(p)
    BY <2>7 DEF Unpublish, Goto, Steps
  <2>8. CASE Announce(p)
    <3>1. "Stopped" \in Results
      BY DEF Results
    <3> QED
      BY <2>8, <3>1, ReturnType DEF Announce, NotifyCompletion
  <2> QED
    BY <1>7, <2>1, <2>2, <2>3, <2>4, <2>5, <2>6, <2>7, <2>8 DEF UnadviseStep
<1>8. ASSUME NEW s \in Subs, WorkerStep(s)
      PROVE  TypeOK'
  BY <1>8 DEF WorkerStep, AdviseVisualTreeChange, AdviseReturns, WorkerAdviseFinished,
              WorkerNotifies, NotifyCompletion, AdviseFinished, SetPhase, Phases, Goto, Steps
<1>9. ASSUME NEW s \in Subs, NEW c \in Calls, ReportStep(s, c)
      PROVE  TypeOK'
  <2>1. CASE ReportBegins(s, c)
    BY <2>1 DEF ReportBegins
  <2>2. CASE ReportEnds(s, c)
    <3>1. active' \in [Subs -> SUBSET Calls]
      BY <2>2 DEF ReportEnds
    <3>2. leaving' \in [Subs -> SUBSET Calls]
      BY <2>2 DEF ReportEnds
    <3> QED
      BY <2>2, <3>1, <3>2 DEF ReportEnds
  <2>3. CASE LastReportNotifies(s, c)
    BY <2>3 DEF LastReportNotifies, NotifyCompletion
  <2> QED
    BY <1>9, <2>1, <2>2, <2>3 DEF ReportStep
<1>10. CASE UNCHANGED vars
  BY <1>10 DEF vars
<1> QED
  BY <1>1, <1>2, <1>3, <1>4, <1>5, <1>6, <1>7, <1>8, <1>9, <1>10 DEF Next, ControlStep

\* The type invariant, for every number of subscriptions and reports.
THEOREM TypeCorrect == Spec => []TypeOK
  BY TypeInitial, TypeStep, PTL DEF Spec

-----------------------------------------------------------------------------
(* Ownership is inductive.                                                 *)

LEMMA OwnershipInitial == Init => Ownership
  BY TypeInitial, SubscriptionAssumption
     DEF Init, Ownership, AdviseOwned, ControlHasTarget, UnadviseOwned, OneUnadvise,
         StepsApart, Advises, Launching, Unadvising, Threads

\* Steps that touch neither a phase, nor a thread's place, nor the target.
LEMMA OwnershipFrame == Ownership /\ TypeOK' /\ UNCHANGED <<phase, pc, target>> => Ownership'
  BY DEF Ownership, AdviseOwned, ControlHasTarget, UnadviseOwned, OneUnadvise,
         StepsApart, Advises, Launching, Unadvising, Target

\* Steps that only move a thread from the Unadvise to the Unadvise, or between
\* places that own nothing.
LEMMA OwnershipMove ==
  ASSUME Ownership, TypeOK', NEW p \in Threads, NEW step \in Steps,
         Goto(p, step), UNCHANGED <<phase, target>>,
         Unadvising(p) <=> Unadvising(p)',
         p \in Subs => Advises(p) <=> Advises(p)',
         step \notin {"stop", "request", "start", "launch"} \/ p = Control,
         p = Control => step \notin {"launch", "advise", "advising", "advised",
                                     "rejected", "notify"},
         p = Control => pc[p] # "launch",
         p \in Subs => pc[p] # "idle",
         step \in {"idle", "stop", "start"} \/ Target(p) \in Subs
  PROVE  Ownership'
<1> USE DEF Ownership, Goto, Unadvising, Target, Advises, Launching
<1> Control \in Threads /\ Subs \subseteq Threads /\ Control \notin Subs
  BY SubscriptionAssumption DEF Threads
<1>0. pc \in [Threads -> Steps]
  BY DEF TypeOK
<1>1. AdviseOwned'
  BY <1>0 DEF AdviseOwned, StepsApart
<1>2. ControlHasTarget'
  BY <1>0 DEF ControlHasTarget
<1>3. UnadviseOwned'
  <2>1. \A q \in Threads : Unadvising(q)' <=> Unadvising(q)
    BY <1>0
  <2>2. \A q \in Threads : Target(q)' = Target(q)
    OBVIOUS
  <2> QED
    BY <2>1, <2>2 DEF UnadviseOwned, OneUnadvise
<1>4. StepsApart'
  BY <1>0 DEF StepsApart, Threads
<1> QED
  BY <1>1, <1>2, <1>3, <1>4

\* What Return may do to a thread's place.
LEMMA ReturnPlace ==
  ASSUME NEW p \in Threads, NEW answer, Return(p, answer)
  PROVE  /\ target' = target
         /\ \/ p = Control /\ (Goto(p, "start") \/ Goto(p, "idle"))
            \/ p # Control /\ Goto(p, "notify")
  BY DEF Return, control, Goto

\* The three ways a step can treat the owners of an Unadvise.
LEMMA UnadviseKept ==
  ASSUME UnadviseOwned,
         \A q \in Threads : Unadvising(q)' <=> Unadvising(q),
         \A q \in Threads : Unadvising(q) => Target(q)' = Target(q) /\ Target(q) \in Subs,
         \A s \in Subs : phase'[s] = "Unadvising" <=> phase[s] = "Unadvising"
  PROVE  UnadviseOwned'
<1>1. (\A q \in Threads : Unadvising(q) => phase[Target(q)] = "Unadvising")'
  BY DEF UnadviseOwned
<1>2. (\A s \in Subs : phase[s] = "Unadvising"
         => \E q \in Threads : Unadvising(q) /\ Target(q) = s)'
  BY DEF UnadviseOwned
<1>3. OneUnadvise'
  BY DEF UnadviseOwned, OneUnadvise
<1> QED
  BY <1>1, <1>2, <1>3 DEF UnadviseOwned

LEMMA UnadviseTaken ==
  ASSUME UnadviseOwned, NEW p \in Threads, NEW s \in Subs,
         phase[s] # "Unadvising", ~Unadvising(p), Target(p)' = s,
         \A q \in Threads : Unadvising(q)' <=> Unadvising(q) \/ q = p,
         \A q \in Threads : Unadvising(q) => Target(q)' = Target(q) /\ Target(q) \in Subs,
         \A r \in Subs : phase'[r] = "Unadvising" <=> phase[r] = "Unadvising" \/ r = s
  PROVE  UnadviseOwned'
<1>1. (\A q \in Threads : Unadvising(q) => phase[Target(q)] = "Unadvising")'
  BY DEF UnadviseOwned
<1>2. (\A r \in Subs : phase[r] = "Unadvising"
         => \E q \in Threads : Unadvising(q) /\ Target(q) = r)'
  BY DEF UnadviseOwned
<1>3. OneUnadvise'
  <2>1. \A q \in Threads : Unadvising(q) => Target(q)' # s
    BY DEF UnadviseOwned
  <2> QED
    BY <2>1 DEF UnadviseOwned, OneUnadvise
<1> QED
  BY <1>1, <1>2, <1>3 DEF UnadviseOwned

LEMMA UnadviseGivenUp ==
  ASSUME UnadviseOwned, NEW p \in Threads, Unadvising(p),
         \A q \in Threads : Unadvising(q)' <=> Unadvising(q) /\ q # p,
         \A q \in Threads : Unadvising(q) => Target(q)' = Target(q) /\ Target(q) \in Subs,
         \A r \in Subs : phase'[r] = "Unadvising"
                           <=> phase[r] = "Unadvising" /\ r # Target(p)
  PROVE  UnadviseOwned'
<1>1. \A q \in Threads : Unadvising(q) /\ q # p => Target(q) # Target(p)
  BY DEF UnadviseOwned, OneUnadvise
<1>2. (\A q \in Threads : Unadvising(q) => phase[Target(q)] = "Unadvising")'
  BY <1>1 DEF UnadviseOwned
<1>3. (\A r \in Subs : phase[r] = "Unadvising"
         => \E q \in Threads : Unadvising(q) /\ Target(q) = r)'
  BY DEF UnadviseOwned
<1>4. OneUnadvise'
  BY DEF UnadviseOwned, OneUnadvise
<1> QED
  BY <1>2, <1>3, <1>4 DEF UnadviseOwned

LEMMA UnadvisingTarget ==
  ASSUME ControlHasTarget, NEW q \in Threads, Unadvising(q)
  PROVE  Target(q) \in Subs
  BY DEF ControlHasTarget, Unadvising, Target, Threads

LEMMA OwnershipControl ==
  ASSUME Ownership, TypeOK', ControlStep
  PROVE  Ownership'
<1> USE DEF Ownership, Goto, Target, Advises, Launching, Unadvising
<1> Control \in Threads /\ Subs \subseteq Threads /\ Control \notin Subs /\ NoSub \notin Subs
  BY SubscriptionAssumption DEF Threads
<1>0. pc \in [Threads -> Steps] /\ phase \in [Subs -> Phases] /\ target \in Subs \cup {NoSub}
  BY DEF TypeOK
<1>1. CASE OnCommand
  <2>1. PICK step \in {"stop", "idle"} : Goto(Control, step)
    BY <1>1 DEF OnCommand
  <2> QED
    BY <1>0, <1>1, <2>1, OwnershipMove DEF OnCommand, Steps
<1>2. CASE StopSubscription
  <2>1. CASE published = NoSub
    BY <1>0, <1>2, <2>1, OwnershipMove DEF StopSubscription, Steps
  <2>2. CASE published # NoSub
    <3>1. published \in Subs
      BY <2>2 DEF TypeOK
    <3>2. pc' = [pc EXCEPT ![Control] = "request"] /\ target' = published /\ phase' = phase
      BY <1>2, <2>2 DEF StopSubscription, reporting
    <3>3. AdviseOwned'
      BY <1>0, <1>2, <3>2 DEF AdviseOwned, StopSubscription
    <3>4. ControlHasTarget' /\ StepsApart'
      BY <1>0, <3>1, <3>2 DEF ControlHasTarget, StepsApart
    <3>5. UnadviseOwned'
      <4>1. \A q \in Threads : Unadvising(q)' <=> Unadvising(q)
        BY <1>0, <1>2, <3>2 DEF StopSubscription
      <4>2. \A q \in Threads : Unadvising(q) => Target(q)' = Target(q)
        BY <1>2 DEF StopSubscription
      <4> QED
        BY <3>2, <4>1, <4>2, UnadvisingTarget, UnadviseKept
    <3> QED
      BY <3>3, <3>4, <3>5
  <2> QED
    BY <2>1, <2>2
<1>3. CASE RequestStop
  <2>0. target \in Subs
    BY <1>3 DEF RequestStop, ControlHasTarget
  <2>1. CASE UNCHANGED phase
    <3>1. PICK step \in {"complete", "start", "idle"} : Goto(Control, step)
      BY <1>0, <1>3, <2>0, <2>1, ReturnPlace DEF RequestStop, SetPhase
    <3>2. target' = target
      BY <1>3, ReturnPlace DEF RequestStop, control
    <3> QED
      BY <1>0, <1>3, <2>0, <2>1, <3>1, <3>2, OwnershipMove DEF RequestStop, Steps
  <2>2. CASE phase[target] = "Advising" /\ SetPhase(target, "StopRequested")
             /\ Return(Control, "Deferred")
    <3>1. PICK step \in {"start", "idle"} : pc' = [pc EXCEPT ![Control] = step]
      BY <2>2, ReturnPlace
    <3>2. target' = target /\ phase' = [phase EXCEPT ![target] = "StopRequested"]
      BY <2>2, ReturnPlace DEF SetPhase
    <3>3. AdviseOwned' /\ ControlHasTarget' /\ StepsApart'
      BY <1>0, <1>3, <2>0, <2>2, <3>1, <3>2
         DEF AdviseOwned, ControlHasTarget, StepsApart, RequestStop
    <3>4. UnadviseOwned'
      <4>1. \A q \in Threads : (Unadvising(q)' <=> Unadvising(q)) /\ Target(q)' = Target(q)
        BY <1>0, <1>3, <3>1, <3>2 DEF RequestStop
      <4>2. \A s \in Subs : phase'[s] = "Unadvising" <=> phase[s] = "Unadvising"
        BY <1>0, <2>0, <2>2, <3>2
      <4> QED
        BY <4>1, <4>2, UnadvisingTarget, UnadviseKept
    <3> QED
      BY <3>3, <3>4
  <2>3. CASE phase[target] \in {"Advised", "Failed"} /\ SetPhase(target, "Unadvising")
             /\ Goto(Control, "disable") /\ UNCHANGED control
    <3>1. target' = target /\ phase' = [phase EXCEPT ![target] = "Unadvising"]
          /\ pc' = [pc EXCEPT ![Control] = "disable"]
      BY <2>3 DEF SetPhase, control
    <3>2. AdviseOwned' /\ ControlHasTarget' /\ StepsApart'
      BY <1>0, <1>3, <2>0, <2>3, <3>1
         DEF AdviseOwned, ControlHasTarget, StepsApart, RequestStop
    <3>3. UnadviseOwned'
      <4>1. \A q \in Threads : Unadvising(q)' <=> Unadvising(q) \/ q = Control
        BY <1>0, <3>1
      <4>2. \A q \in Threads : Target(q)' = Target(q)
        BY <3>1
      <4>3. \A s \in Subs : phase'[s] = "Unadvising" <=> phase[s] = "Unadvising" \/ s = target
        BY <1>0, <2>0, <3>1
      <4>4. ~Unadvising(Control) /\ phase[target] # "Unadvising" /\ Target(Control)' = target
        BY <1>3, <2>3, <3>1 DEF RequestStop
      <4> QED
        BY <2>0, <4>1, <4>2, <4>3, <4>4, UnadvisingTarget, UnadviseTaken
    <3> QED
      BY <3>2, <3>3
  <2> QED
    BY <1>3, <2>1, <2>2, <2>3 DEF RequestStop
<1>4. CASE StartSubscription
  <2>1. CASE UNCHANGED <<phase, target>> /\ Goto(Control, "idle")
    BY <1>0, <1>4, <2>1, OwnershipMove DEF StartSubscription, Steps
  <2>2. ASSUME NEW s \in Subs, phase[s] = "Unborn", SetPhase(s, "Advising"),
               target' = s, Goto(Control, "launch")
        PROVE  Ownership'
    <3>1. phase' = [phase EXCEPT ![s] = "Advising"] /\ pc' = [pc EXCEPT ![Control] = "launch"]
      BY <2>2 DEF SetPhase
    <3>2. AdviseOwned' /\ ControlHasTarget' /\ StepsApart'
      BY <1>0, <1>4, <2>2, <3>1
         DEF AdviseOwned, ControlHasTarget, StepsApart, StartSubscription
    <3>3. UnadviseOwned'
      <4>1. \A q \in Threads : Unadvising(q)' <=> Unadvising(q)
        BY <1>0, <1>4, <3>1 DEF StartSubscription
      <4>2. \A q \in Threads : Unadvising(q) => Target(q)' = Target(q)
        BY <1>4 DEF StartSubscription
      <4>3. \A r \in Subs : phase'[r] = "Unadvising" <=> phase[r] = "Unadvising"
        BY <1>0, <2>2, <3>1
      <4> QED
        BY <4>1, <4>2, <4>3, UnadvisingTarget, UnadviseKept
    <3> QED
      BY <3>2, <3>3
  <2> QED
    BY <1>4, <2>1, <2>2 DEF StartSubscription
<1>5. CASE LaunchWorker
  <2>0. target \in Subs /\ phase[target] = "Advising" /\ pc[target] = "idle" /\ target' = target
    BY <1>5 DEF LaunchWorker, ControlHasTarget, AdviseOwned
  <2>1. CASE pc' = [pc EXCEPT ![Control] = "idle", ![target] = "advise"] /\ UNCHANGED phase
    <3>1. AdviseOwned' /\ ControlHasTarget' /\ StepsApart'
      BY <1>0, <1>5, <2>0, <2>1
         DEF AdviseOwned, ControlHasTarget, StepsApart, LaunchWorker
    <3>2. UnadviseOwned'
      <4>1. \A q \in Threads : Unadvising(q)' <=> Unadvising(q)
        BY <1>0, <1>5, <2>0, <2>1 DEF LaunchWorker
      <4> QED
        BY <2>0, <2>1, <4>1, UnadvisingTarget, UnadviseKept
    <3> QED
      BY <3>1, <3>2
  <2>2. CASE AdviseFinished(target, FALSE) /\ Goto(Control, "disable")
    <3>1. phase' = [phase EXCEPT ![target] = "Unadvising"]
          /\ pc' = [pc EXCEPT ![Control] = "disable"]
      BY <2>0, <2>2 DEF AdviseFinished, SetPhase
    <3>2. AdviseOwned' /\ ControlHasTarget' /\ StepsApart'
      BY <1>0, <1>5, <2>0, <3>1
         DEF AdviseOwned, ControlHasTarget, StepsApart, LaunchWorker
    <3>3. UnadviseOwned'
      <4>1. \A q \in Threads : Unadvising(q)' <=> Unadvising(q) \/ q = Control
        BY <1>0, <3>1
      <4>2. \A q \in Threads : Target(q)' = Target(q)
        BY <2>0
      <4>3. \A s \in Subs : phase'[s] = "Unadvising" <=> phase[s] = "Unadvising" \/ s = target
        BY <1>0, <2>0, <3>1
      <4>4. ~Unadvising(Control) /\ phase[target] # "Unadvising" /\ Target(Control)' = target
        BY <1>5, <2>0 DEF LaunchWorker
      <4> QED
        BY <2>0, <4>1, <4>2, <4>3, <4>4, UnadvisingTarget, UnadviseTaken
    <3> QED
      BY <3>2, <3>3
  <2> QED
    BY <1>5, <2>1, <2>2 DEF LaunchWorker
<1> QED
  BY <1>1, <1>2, <1>3, <1>4, <1>5 DEF ControlStep

\* A Return moves a thread that owns nothing to a place that owns nothing.
LEMMA OwnershipReturn ==
  ASSUME Ownership, TypeOK', NEW p \in Threads, NEW answer, Return(p, answer), UNCHANGED phase,
         pc[p] \in {"complain", "complete", "quiesce", "announce"}
  PROVE  Ownership'
<1> Control \notin Subs
  BY SubscriptionAssumption
<1>1. PICK step \in {"start", "idle", "notify"} :
         /\ Goto(p, step)
         /\ IF p = Control THEN step # "notify" ELSE step = "notify"
  BY ReturnPlace
<1>2. target' = target /\ pc' = [pc EXCEPT ![p] = step]
  BY <1>1, ReturnPlace DEF Goto
<1>3. pc \in [Threads -> Steps] /\ step \in Steps
  BY <1>1 DEF Ownership, TypeOK, Steps
<1>4. Target(p) \in Subs
  BY DEF Ownership, ControlHasTarget, Target, Threads
<1> QED
  BY <1>1, <1>2, <1>3, <1>4, OwnershipMove DEF Advises, Unadvising

LEMMA OwnershipUnadvise ==
  ASSUME Ownership, TypeOK', NEW p \in Threads, UnadviseStep(p)
  PROVE  Ownership'
<1> USE DEF Ownership
<1> Control \in Threads /\ Subs \subseteq Threads /\ Control \notin Subs
  BY SubscriptionAssumption DEF Threads
<1>0. pc \in [Threads -> Steps] /\ phase \in [Subs -> Phases] /\ target \in Subs \cup {NoSub}
  BY DEF TypeOK
<1>1. CASE DisableCallbacks(p)
  <2>1. Target(p) \in Subs
    BY <1>1, UnadvisingTarget DEF DisableCallbacks, Unadvising
  <2> QED
    BY <1>0, <1>1, <2>1, OwnershipMove
       DEF DisableCallbacks, control, Unadvising, Advises, Goto, Steps
<1>2. CASE UnadviseVisualTreeChange(p)
  <2>1. Target(p) \in Subs
    BY <1>2, UnadvisingTarget DEF UnadviseVisualTreeChange, Unadvising
  <2>2. PICK step \in {"unadvised", "refused"} : Goto(p, step)
    BY <1>2 DEF UnadviseVisualTreeChange
  <2>3. pc[p] = "unadvise" /\ pc' = [pc EXCEPT ![p] = step] /\ UNCHANGED <<phase, target>>
    BY <1>2, <2>2 DEF UnadviseVisualTreeChange, control, Goto
  <2>4. /\ Unadvising(p) /\ Unadvising(p)'
        /\ ~Advises(p) /\ ~Advises(p)'
    BY <1>0, <2>3 DEF Unadvising, Advises
  <2> QED
    BY <1>0, <2>1, <2>2, <2>3, <2>4, OwnershipMove DEF Steps
<1>3. CASE UnadviseFinished(p)
  <2>1. Unadvising(p) /\ Target(p) \in Subs /\ pc[p] \in {"unadvised", "refused"}
    BY <1>3, UnadvisingTarget DEF UnadviseFinished, Unadvising
  <2>2. PICK value \in {"Quiescing", "Failed"}, step \in {"complete", "complain"} :
           phase' = [phase EXCEPT ![Target(p)] = value] /\ pc' = [pc EXCEPT ![p] = step]
    BY <1>3 DEF UnadviseFinished, SetPhase, Goto
  <2>3. phase[Target(p)] = "Unadvising"
    BY <2>1 DEF UnadviseOwned
  <2>4. target' = target
    BY <1>3 DEF UnadviseFinished, control
  <2>5. AdviseOwned'
    BY <1>0, <2>1, <2>2, <2>3, <2>4 DEF AdviseOwned, Advises, Launching, Target
  <2>6. ControlHasTarget' /\ StepsApart'
    BY <1>0, <2>1, <2>2, <2>4 DEF ControlHasTarget, StepsApart, Target
  <2>7. UnadviseOwned'
    <3>1. \A q \in Threads : Unadvising(q)' <=> Unadvising(q) /\ q # p
      BY <1>0, <2>2 DEF Unadvising
    <3>2. \A q \in Threads : Target(q)' = Target(q)
      BY <2>4 DEF Target
    <3>3. \A r \in Subs : phase'[r] = "Unadvising"
                            <=> phase[r] = "Unadvising" /\ r # Target(p)
      BY <1>0, <2>1, <2>2
    <3> QED
      BY <2>1, <3>1, <3>2, <3>3, UnadvisingTarget, UnadviseGivenUp
  <2> QED
    BY <2>5, <2>6, <2>7
<1>4. CASE ReportFailure(p)
  BY <1>4, OwnershipReturn DEF ReportFailure
<1>5. CASE CompleteStop(p)
  <2>1. CASE Return(p, "Deferred")
    BY <1>5, <2>1, OwnershipReturn DEF CompleteStop
  <2>2. CASE Goto(p, "quiesce") /\ UNCHANGED control
    <3>1. Target(p) \in Subs
      BY <1>5 DEF CompleteStop, ControlHasTarget, Target, Threads
    <3> QED
      BY <1>0, <1>5, <2>2, <3>1, OwnershipMove
         DEF CompleteStop, control, Unadvising, Advises, Goto, Steps
  <2> QED
    BY <1>5, <2>1, <2>2 DEF CompleteStop
<1>6. CASE CompleteQuiescence(p)
  <2>0. Target(p) \in Subs /\ ~Unadvising(p)
    BY <1>6 DEF CompleteQuiescence, ControlHasTarget, Target, Threads, Unadvising
  <2>1. CASE UNCHANGED phase /\ \E answer : Return(p, answer)
    BY <1>6, <2>1, OwnershipReturn DEF CompleteQuiescence
  <2>2. CASE /\ phase[Target(p)] = "Quiescing"
             /\ SetPhase(Target(p), "Stopped")
             /\ Goto(p, "unpublish")
             /\ UNCHANGED control
    <3>1. /\ phase' = [phase EXCEPT ![Target(p)] = "Stopped"]
          /\ pc' = [pc EXCEPT ![p] = "unpublish"]
          /\ target' = target
      BY <2>2 DEF SetPhase, Goto, control
    <3>2. pc[p] = "quiesce"
      BY <1>6 DEF CompleteQuiescence
    <3>3. AdviseOwned'
      BY <1>0, <2>0, <2>2, <3>1, <3>2 DEF AdviseOwned, Advises, Launching, Target
    <3>4. ControlHasTarget' /\ StepsApart'
      BY <1>0, <2>0, <3>1, <3>2 DEF ControlHasTarget, StepsApart, Target
    <3>5. UnadviseOwned'
      <4>1. \A q \in Threads : Unadvising(q)' <=> Unadvising(q)
        BY <1>0, <2>0, <3>1 DEF Unadvising
      <4>2. \A q \in Threads : Target(q)' = Target(q)
        BY <3>1 DEF Target
      <4>3. \A r \in Subs : phase'[r] = "Unadvising" <=> phase[r] = "Unadvising"
        BY <1>0, <2>0, <2>2, <3>1
      <4> QED
        BY <4>1, <4>2, <4>3, UnadvisingTarget, UnadviseKept
    <3> QED
      BY <3>3, <3>4, <3>5
  <2> QED
    BY <1>6, <2>1, <2>2 DEF CompleteQuiescence
<1>7. CASE Unpublish(p)
  <2>1. Target(p) \in Subs
    BY <1>7 DEF Unpublish, ControlHasTarget, Target, Threads
  <2> QED
    BY <1>0, <1>7, <2>1, OwnershipMove
       DEF Unpublish, control, Unadvising, Advises, Goto, Steps
<1>8. CASE Announce(p)
  BY <1>8, OwnershipReturn DEF Announce
<1> QED
  BY <1>1, <1>2, <1>3, <1>4, <1>5, <1>6, <1>7, <1>8 DEF UnadviseStep

LEMMA OwnershipWorker ==
  ASSUME Ownership, TypeOK', NEW s \in Subs, WorkerStep(s)
  PROVE  Ownership'
<1> USE DEF Ownership
<1> Control \in Threads /\ Subs \subseteq Threads /\ Control \notin Subs
  BY SubscriptionAssumption DEF Threads
<1>0. /\ pc \in [Threads -> Steps] /\ phase \in [Subs -> Phases]
      /\ target \in Subs \cup {NoSub} /\ Target(s) = s /\ s # Control
  BY DEF TypeOK, Target
<1>1. CASE AdviseVisualTreeChange(s)
  BY <1>0, <1>1, OwnershipMove
     DEF AdviseVisualTreeChange, control, Unadvising, Advises, Goto, Steps
<1>2. CASE AdviseReturns(s)
  <2>1. PICK step \in {"advised", "rejected"} : Goto(s, step)
    BY <1>2 DEF AdviseReturns
  <2>2. pc[s] = "advising" /\ pc' = [pc EXCEPT ![s] = step] /\ UNCHANGED <<phase, target>>
    BY <1>2, <2>1 DEF AdviseReturns, control, Goto
  <2>3. /\ ~Unadvising(s) /\ ~Unadvising(s)'
        /\ Advises(s) /\ Advises(s)'
    BY <1>0, <2>1, <2>2 DEF Unadvising, Advises
  <2> QED
    BY <1>0, <2>1, <2>2, <2>3, OwnershipMove DEF Steps
<1>3. CASE WorkerNotifies(s)
  BY <1>0, <1>3, OwnershipMove
     DEF WorkerNotifies, control, Unadvising, Advises, Goto, Steps
<1>4. CASE WorkerAdviseFinished(s)
  <2>1. /\ pc[s] \in {"advised", "rejected"}
        /\ phase[s] \in {"Advising", "StopRequested"}
        /\ target' = target
    BY <1>4 DEF WorkerAdviseFinished, AdviseOwned, Advises, control
  <2>2. CASE OwnsUnadvise(s, pc[s] = "advised")
    <3>1. phase' = [phase EXCEPT ![s] = "Unadvising"] /\ pc' = [pc EXCEPT ![s] = "disable"]
      BY <1>4, <2>1, <2>2
         DEF WorkerAdviseFinished, AdviseFinished, OwnsUnadvise, SetPhase, Goto
    <3>2. AdviseOwned' /\ ControlHasTarget' /\ StepsApart'
      BY <1>0, <2>1, <3>1
         DEF AdviseOwned, ControlHasTarget, StepsApart, Advises, Launching
    <3>3. UnadviseOwned'
      <4>1. \A q \in Threads : Unadvising(q)' <=> Unadvising(q) \/ q = s
        BY <1>0, <3>1 DEF Unadvising
      <4>2. \A q \in Threads : Target(q)' = Target(q)
        BY <2>1 DEF Target
      <4>3. \A r \in Subs : phase'[r] = "Unadvising" <=> phase[r] = "Unadvising" \/ r = s
        BY <1>0, <3>1
      <4>4. ~Unadvising(s) /\ phase[s] # "Unadvising" /\ Target(s)' = s
        BY <1>0, <2>1, <4>2 DEF Unadvising
      <4> QED
        BY <4>1, <4>2, <4>3, <4>4, UnadvisingTarget, UnadviseTaken
    <3> QED
      BY <3>2, <3>3
  <2>3. CASE ~OwnsUnadvise(s, pc[s] = "advised")
    <3>1. phase' = [phase EXCEPT ![s] = "Advised"] /\ pc' = [pc EXCEPT ![s] = "notify"]
      BY <1>4, <2>1, <2>3
         DEF WorkerAdviseFinished, AdviseFinished, OwnsUnadvise, SetPhase, Goto
    <3>2. AdviseOwned' /\ ControlHasTarget' /\ StepsApart'
      BY <1>0, <2>1, <3>1
         DEF AdviseOwned, ControlHasTarget, StepsApart, Advises, Launching
    <3>3. UnadviseOwned'
      <4>1. \A q \in Threads : Unadvising(q)' <=> Unadvising(q)
        BY <1>0, <2>1, <3>1 DEF Unadvising
      <4>2. \A q \in Threads : Target(q)' = Target(q)
        BY <2>1 DEF Target
      <4>3. \A r \in Subs : phase'[r] = "Unadvising" <=> phase[r] = "Unadvising"
        BY <1>0, <2>1, <3>1
      <4> QED
        BY <4>1, <4>2, <4>3, UnadvisingTarget, UnadviseKept
    <3> QED
      BY <3>2, <3>3
  <2> QED
    BY <2>2, <2>3
<1> QED
  BY <1>1, <1>2, <1>3, <1>4 DEF WorkerStep

LEMMA OwnershipStep == Ownership /\ [Next]_vars => Ownership'
<1> SUFFICES ASSUME Ownership, [Next]_vars PROVE Ownership'
  OBVIOUS
<1>1. TypeOK'
  BY TypeStep DEF Ownership
<1>2. CASE UNCHANGED <<phase, pc, target>>
  BY <1>1, <1>2, OwnershipFrame
<1>3. CASE ~UNCHANGED <<phase, pc, target>>
  BY <1>1, <1>3, OwnershipControl, OwnershipUnadvise, OwnershipWorker
     DEF Next, vars, RequestTransition, ReportStep, ReportBegins, ReportEnds,
         LastReportNotifies, control
<1> QED
  BY <1>2, <1>3

\* However the stop, the end of Advise and a failed launch race, one thread at
\* a time owns the Unadvise of a subscription.
THEOREM UnadviseHasOneOwner == Spec => []OneUnadvise
<1>1. Ownership => OneUnadvise
  BY DEF Ownership, UnadviseOwned
<1> QED
  BY OwnershipInitial, OwnershipStep, <1>1, PTL DEF Spec

-----------------------------------------------------------------------------
(* Lease is inductive relative to Ownership, and makes every step a step   *)
(* of ExclusiveSubscription.                                               *)

LEMMA LeaseInitial == Init => Lease
  BY DEF Init, Lease, Quiet, Completing

\* A thread that stands anywhere between RequestStop and the end of the stop
\* has a subscription.
LEMMA StoppingTarget ==
  ASSUME Ownership, NEW p \in Threads,
         pc[p] \notin {"idle", "stop", "start"}
  PROVE  Target(p) \in Subs
  BY DEF Ownership, ControlHasTarget, Target, Threads

\* Steps of a thread that touch no subscription: only the places that mean
\* something to Lease have to be justified.
LEMMA LeaseMove ==
  ASSUME Ownership, Lease, NEW p \in Threads, NEW step, Goto(p, step),
         UNCHANGED <<published, phase, active, target>>,
         registered' \subseteq registered, enabled' \subseteq enabled,
         step \in {"unadvise", "unadvised", "refused"} => Target(p) \notin enabled',
         step = "unadvised" => Target(p) \notin registered',
         step \in {"complete", "quiesce", "unpublish", "announce"}
           => phase[Target(p)] \in {"Quiescing", "Stopped"},
         step = "quiesce" => active[Target(p)] = {},
         step \in {"unpublish", "announce"} => phase[Target(p)] = "Stopped"
  PROVE  Lease'
<1>1. pc' = [pc EXCEPT ![p] = step] /\ pc \in [Threads -> Steps]
  BY DEF Goto, Ownership, TypeOK
<1>2. \A q \in Threads : Target(q)' = Target(q)
  BY DEF Target
<1>3. \A q \in Threads : pc'[q] = IF q = p THEN step ELSE pc[q]
  BY <1>1
<1>4. (\A s \in Subs :
         /\ phase[s] = "Unborn" => Quiet(s)
         /\ phase[s] \notin {"Unborn", "Stopped"} => published = s
         /\ phase[s] = "Quiescing" => s \notin registered
         /\ phase[s] = "Stopped" => Quiet(s)
         /\ phase[s] \in {"Quiescing", "Failed", "Stopped"} => s \notin enabled)'
  BY DEF Lease, Quiet
<1>5. (\A q \in Threads :
         /\ pc[q] \in {"unadvise", "unadvised", "refused"} => Target(q) \notin enabled
         /\ pc[q] = "unadvised" => Target(q) \notin registered
         /\ Completing(q) => phase[Target(q)] \in {"Quiescing", "Stopped"}
         /\ pc[q] = "quiesce" => active[Target(q)] = {}
         /\ pc[q] \in {"unpublish", "announce"} => phase[Target(q)] = "Stopped")'
  BY <1>2, <1>3 DEF Lease, Completing
<1> QED
  BY <1>4, <1>5 DEF Lease

\* Steps of a thread that also move one subscription's phase.
LEMMA LeasePhase ==
  ASSUME Ownership, Lease, NEW p \in Threads, NEW step, Goto(p, step),
         NEW s \in Subs, NEW value, SetPhase(s, value),
         UNCHANGED <<published, active, registered, enabled, target>>,
         value \notin {"Unborn"},
         published = s,
         value \in {"Quiescing", "Stopped"} => s \notin registered,
         value = "Stopped" => active[s] = {},
         value \in {"Quiescing", "Failed", "Stopped"} => s \notin enabled,
         step \notin {"unadvise", "unadvised", "refused", "quiesce", "announce"},
         \A q \in Threads : q # p /\ Completing(q) /\ Target(q) = s
                              => value = "Stopped",
         step \in {"complete", "unpublish"} => Target(p) = s,
         step = "complete" => value = "Quiescing",
         step = "unpublish" => value = "Stopped"
  PROVE  Lease'
<1>1. /\ pc' = [pc EXCEPT ![p] = step] /\ pc \in [Threads -> Steps]
      /\ phase' = [phase EXCEPT ![s] = value] /\ phase \in [Subs -> Phases]
  BY DEF Goto, SetPhase, Ownership, TypeOK
<1>2. \A q \in Threads : Target(q)' = Target(q)
  BY DEF Target
<1>3. \A q \in Threads : pc'[q] = IF q = p THEN step ELSE pc[q]
  BY <1>1
<1>4. \A r \in Subs : phase'[r] = IF r = s THEN value ELSE phase[r]
  BY <1>1
<1>5. \A q \in Threads : Completing(q) => Target(q) \in Subs
  BY StoppingTarget DEF Completing
<1>6. (\A r \in Subs :
         /\ phase[r] = "Unborn" => Quiet(r)
         /\ phase[r] \notin {"Unborn", "Stopped"} => published = r
         /\ phase[r] = "Quiescing" => r \notin registered
         /\ phase[r] = "Stopped" => Quiet(r)
         /\ phase[r] \in {"Quiescing", "Failed", "Stopped"} => r \notin enabled)'
  BY <1>4 DEF Lease, Quiet
<1>7. (\A q \in Threads :
         /\ pc[q] \in {"unadvise", "unadvised", "refused"} => Target(q) \notin enabled
         /\ pc[q] = "unadvised" => Target(q) \notin registered
         /\ pc[q] = "quiesce" => active[Target(q)] = {})'
  BY <1>2, <1>3 DEF Lease
<1>8. (\A q \in Threads :
         /\ Completing(q) => phase[Target(q)] \in {"Quiescing", "Stopped"}
         /\ pc[q] \in {"unpublish", "announce"} => phase[Target(q)] = "Stopped")'
  <2> SUFFICES ASSUME NEW q \in Threads, Completing(q)'
               PROVE  /\ phase'[Target(q)] \in {"Quiescing", "Stopped"}
                      /\ pc'[q] \in {"unpublish", "announce"}
                           => phase'[Target(q)] = "Stopped"
    BY <1>2 DEF Completing
  <2>1. CASE q = p
    BY <1>3, <1>4, <2>1 DEF Completing
  <2>2. CASE q # p
    BY <1>3, <1>4, <1>5, <2>2 DEF Completing, Lease
  <2> QED
    BY <2>1, <2>2
<1> QED
  BY <1>6, <1>7, <1>8 DEF Lease

LEMMA LeaseControl ==
  ASSUME Ownership, Lease, ControlStep
  PROVE  Lease'
<1> Control \in Threads /\ Subs \subseteq Threads /\ Control \notin Subs /\ NoSub \notin Subs
  BY SubscriptionAssumption DEF Threads
<1>0. /\ pc \in [Threads -> Steps] /\ phase \in [Subs -> Phases]
      /\ target \in Subs \cup {NoSub} /\ Target(Control) = target
  BY DEF Ownership, TypeOK, Target
<1>1. CASE OnCommand
  <2>1. PICK step \in {"stop", "idle"} : Goto(Control, step)
    BY <1>1 DEF OnCommand
  <2> QED
    BY <1>1, <2>1, LeaseMove DEF OnCommand, reporting
<1>2. CASE StopSubscription
  <2>1. CASE published = NoSub
    BY <1>2, <2>1, LeaseMove DEF StopSubscription, reporting
  <2>2. CASE published # NoSub
    <3>1. /\ pc' = [pc EXCEPT ![Control] = "request"]
          /\ UNCHANGED <<published, phase, active, registered>>
          /\ enabled' \subseteq enabled
      BY <1>2, <2>2 DEF StopSubscription, reporting, Goto
    <3>2. \A q \in Threads : q # Control => Target(q)' = Target(q) /\ pc'[q] = pc[q]
      BY <1>0, <3>1 DEF Target
    <3>3. pc'[Control] = "request"
      BY <1>0, <3>1
    <3> QED
      BY <3>1, <3>2, <3>3 DEF Lease, Quiet, Completing
  <2> QED
    BY <2>1, <2>2
<1>3. CASE RequestStop
  <2>0. target \in Subs /\ pc[Control] = "request"
    BY <1>3 DEF RequestStop, Ownership, ControlHasTarget
  <2>1. CASE UNCHANGED phase
    <3>1. PICK step \in {"complete", "start", "idle"} :
            Goto(Control, step) /\ (step = "complete" => phase[target] = "Quiescing")
      BY <1>0, <1>3, <2>0, <2>1, ReturnPlace DEF RequestStop, SetPhase
    <3>2. target' = target
      BY <1>3, ReturnPlace DEF RequestStop, control
    <3> QED
      BY <1>0, <1>3, <2>0, <2>1, <3>1, <3>2, LeaseMove DEF RequestStop, reporting
  <2>2. CASE ~UNCHANGED phase
    <3>1. PICK step \in {"start", "idle", "disable"}, value \in {"StopRequested", "Unadvising"} :
            Goto(Control, step) /\ SetPhase(target, value)
      BY <1>3, <2>2, ReturnPlace DEF RequestStop
    <3>2. target' = target /\ phase[target] \in {"Advising", "Advised", "Failed"}
      BY <1>3, <2>2, ReturnPlace DEF RequestStop, control
    <3>3. published = target
      BY <2>0, <3>2 DEF Lease
    <3>4. \A q \in Threads : Completing(q) => Target(q) # target
      BY <2>0, <3>2 DEF Lease
    <3> QED
      BY <1>3, <2>0, <3>1, <3>2, <3>3, <3>4, LeasePhase DEF RequestStop, reporting
  <2> QED
    BY <2>1, <2>2
<1>4. CASE StartSubscription
  <2>1. CASE UNCHANGED <<published, phase, enabled, target>> /\ Goto(Control, "idle")
    BY <1>4, <2>1, LeaseMove DEF StartSubscription, reporting
  <2>2. ASSUME NEW s \in Subs, published = NoSub, phase[s] = "Unborn", published' = s,
               SetPhase(s, "Advising"), enabled' = enabled \cup {s}, target' = s,
               Goto(Control, "launch")
        PROVE  Lease'
    <3>1. /\ phase' = [phase EXCEPT ![s] = "Advising"]
          /\ pc' = [pc EXCEPT ![Control] = "launch"]
          /\ UNCHANGED <<active, registered>>
      BY <1>4, <2>2 DEF SetPhase, Goto, StartSubscription, reporting
    <3>2. \A q \in Threads : q # Control => Target(q)' = Target(q) /\ pc'[q] = pc[q]
      BY <1>0, <3>1 DEF Target
    <3>3. pc'[Control] = "launch" /\ \A r \in Subs : r # s => phase'[r] = phase[r]
      BY <1>0, <3>1
    <3>4. phase'[s] = "Advising"
      BY <1>0, <3>1
    <3>5. \A r \in Subs : phase[r] \in {"Unborn", "Stopped"}
      BY <2>2 DEF Lease
    <3>6. \A q \in Threads : /\ Completing(q) => Target(q) # s
                             /\ pc[q] \in {"unadvise", "unadvised", "refused"} => Target(q) # s
      BY <2>2 DEF Lease, Ownership, UnadviseOwned, Unadvising
    <3>7. \A q \in Threads : Completing(q) => Target(q) \in Subs
      BY StoppingTarget DEF Completing
    <3>8. (\A r \in Subs :
             /\ phase[r] = "Unborn" => Quiet(r)
             /\ phase[r] \notin {"Unborn", "Stopped"} => published = r
             /\ phase[r] = "Quiescing" => r \notin registered
             /\ phase[r] = "Stopped" => Quiet(r)
             /\ phase[r] \in {"Quiescing", "Failed", "Stopped"} => r \notin enabled)'
      BY <2>2, <3>1, <3>3, <3>4, <3>5 DEF Lease, Quiet
    <3>9. ASSUME NEW q \in Threads
          PROVE  (/\ pc[q] \in {"unadvise", "unadvised", "refused"} => Target(q) \notin enabled
                  /\ pc[q] = "unadvised" => Target(q) \notin registered
                  /\ Completing(q) => phase[Target(q)] \in {"Quiescing", "Stopped"}
                  /\ pc[q] = "quiesce" => active[Target(q)] = {}
                  /\ pc[q] \in {"unpublish", "announce"} => phase[Target(q)] = "Stopped")'
      <4>1. CASE q = Control
        BY <3>3, <4>1 DEF Completing
      <4>2. CASE q # Control
        BY <2>2, <3>1, <3>2, <3>3, <3>6, <3>7, <4>2 DEF Completing, Lease
      <4> QED
        BY <4>1, <4>2
    <3> QED
      BY <3>8, <3>9 DEF Lease
  <2> QED
    BY <1>4, <2>1, <2>2 DEF StartSubscription
<1>5. CASE LaunchWorker
  <2>0. target \in Subs /\ phase[target] = "Advising" /\ target' = target
    BY <1>5 DEF LaunchWorker, Ownership, ControlHasTarget, AdviseOwned, Launching
  <2>1. CASE pc' = [pc EXCEPT ![Control] = "idle", ![target] = "advise"] /\ UNCHANGED phase
    <3>1. \A q \in Threads : pc'[q] = IF q = Control THEN "idle"
                                      ELSE IF q = target THEN "advise" ELSE pc[q]
      BY <1>0, <2>0, <2>1
    <3>2. \A q \in Threads : Target(q)' = Target(q)
      BY <2>0 DEF Target
    <3>3. UNCHANGED <<published, phase, enabled, active, registered>>
      BY <1>5, <2>1 DEF LaunchWorker, reporting
    <3>4. ASSUME NEW q \in Threads
          PROVE  (/\ pc[q] \in {"unadvise", "unadvised", "refused"} => Target(q) \notin enabled
                  /\ pc[q] = "unadvised" => Target(q) \notin registered
                  /\ Completing(q) => phase[Target(q)] \in {"Quiescing", "Stopped"}
                  /\ pc[q] = "quiesce" => active[Target(q)] = {}
                  /\ pc[q] \in {"unpublish", "announce"} => phase[Target(q)] = "Stopped")'
      <4>1. CASE pc'[q] = pc[q]
        BY <3>2, <3>3, <4>1 DEF Completing, Lease
      <4>2. CASE pc'[q] \in {"idle", "advise"}
        BY <4>2 DEF Completing
      <4> QED
        BY <3>1, <4>1, <4>2
    <3> QED
      BY <3>3, <3>4 DEF Lease, Quiet
  <2>2. CASE AdviseFinished(target, FALSE) /\ Goto(Control, "disable")
    <3>1. SetPhase(target, "Unadvising")
      BY <2>0, <2>2 DEF AdviseFinished
    <3>2. published = target
      BY <2>0 DEF Lease
    <3>3. \A q \in Threads : Completing(q) => Target(q) # target
      BY <2>0 DEF Lease
    <3> QED
      BY <1>5, <2>0, <2>2, <3>1, <3>2, <3>3, LeasePhase DEF LaunchWorker, reporting
  <2> QED
    BY <1>5, <2>1, <2>2 DEF LaunchWorker
<1> QED
  BY <1>1, <1>2, <1>3, <1>4, <1>5 DEF ControlStep

LEMMA LeaseUnadvise ==
  ASSUME Ownership, Lease, NEW p \in Threads, UnadviseStep(p)
  PROVE  Lease'
<1>0. pc \in [Threads -> Steps] /\ phase \in [Subs -> Phases]
  BY DEF Ownership, TypeOK
<1>t. Target(p) \in Subs
  BY StoppingTarget DEF UnadviseStep, DisableCallbacks, UnadviseVisualTreeChange,
     UnadviseFinished, ReportFailure, CompleteStop, CompleteQuiescence, Unpublish, Announce
<1>1. CASE DisableCallbacks(p)
  BY <1>1, LeaseMove DEF DisableCallbacks, reporting, control
<1>2. CASE UnadviseVisualTreeChange(p)
  <2>1. pc[p] = "unadvise" /\ Target(p) \notin enabled
    BY <1>2 DEF UnadviseVisualTreeChange, Lease
  <2>2. CASE registered' = registered \ {Target(p)} /\ Goto(p, "unadvised")
    BY <1>2, <2>1, <2>2, LeaseMove DEF UnadviseVisualTreeChange, control
  <2>3. CASE UNCHANGED registered /\ Goto(p, "refused")
    BY <1>2, <2>1, <2>3, LeaseMove DEF UnadviseVisualTreeChange, control
  <2> QED
    BY <1>2, <2>2, <2>3 DEF UnadviseVisualTreeChange
<1>3. CASE UnadviseFinished(p)
  <2>1. PICK value \in {"Quiescing", "Failed"}, step \in {"complete", "complain"} :
           /\ SetPhase(Target(p), value) /\ Goto(p, step)
           /\ value = "Quiescing" => pc[p] = "unadvised"
           /\ step = "complete" => value = "Quiescing"
    BY <1>3 DEF UnadviseFinished
  <2>2. /\ phase[Target(p)] = "Unadvising"
        /\ Target(p) \notin enabled
        /\ value = "Quiescing" => Target(p) \notin registered
    BY <1>3, <2>1 DEF UnadviseFinished, Ownership, UnadviseOwned, Unadvising, Lease
  <2>3. published = Target(p)
    BY <1>t, <2>2 DEF Lease
  <2>4. \A q \in Threads : Completing(q) => Target(q) # Target(p)
    BY <2>2 DEF Lease
  <2> QED
    BY <1>3, <1>t, <2>1, <2>2, <2>3, <2>4, LeasePhase DEF UnadviseFinished, reporting, control
<1>4. CASE ReportFailure(p)
  <2>1. PICK step \in {"start", "idle", "notify"} : Goto(p, step)
    BY <1>4, ReturnPlace DEF ReportFailure
  <2> QED
    BY <1>4, <2>1, LeaseMove, ReturnPlace DEF ReportFailure, reporting
<1>5. CASE CompleteStop(p)
  <2>1. CASE Return(p, "Deferred")
    <3>1. PICK step \in {"start", "idle", "notify"} : Goto(p, step)
      BY <2>1, ReturnPlace
    <3> QED
      BY <1>5, <2>1, <3>1, LeaseMove, ReturnPlace DEF CompleteStop, reporting
  <2>2. CASE active[Target(p)] = {} /\ Goto(p, "quiesce") /\ UNCHANGED control
    <3>1. phase[Target(p)] \in {"Quiescing", "Stopped"}
      BY <1>5 DEF CompleteStop, Lease, Completing
    <3> QED
      BY <1>5, <2>2, <3>1, LeaseMove DEF CompleteStop, reporting, control
  <2> QED
    BY <1>5, <2>1, <2>2 DEF CompleteStop
<1>6. CASE CompleteQuiescence(p)
  <2>1. CASE UNCHANGED phase /\ \E answer : Return(p, answer)
    <3>1. PICK step \in {"start", "idle", "notify"} : Goto(p, step)
      BY <2>1, ReturnPlace
    <3> QED
      BY <1>6, <2>1, <3>1, LeaseMove, ReturnPlace DEF CompleteQuiescence, reporting
  <2>2. CASE /\ phase[Target(p)] = "Quiescing"
             /\ SetPhase(Target(p), "Stopped")
             /\ Goto(p, "unpublish")
             /\ UNCHANGED control
    <3>1. /\ active[Target(p)] = {} /\ Target(p) \notin registered
          /\ Target(p) \notin enabled /\ published = Target(p)
      BY <1>6, <1>t, <2>2 DEF CompleteQuiescence, Lease
    <3> QED
      BY <1>6, <1>t, <2>2, <3>1, LeasePhase DEF CompleteQuiescence, reporting, control
  <2> QED
    BY <1>6, <2>1, <2>2 DEF CompleteQuiescence
<1>7. CASE Unpublish(p)
  <2>1. /\ phase[Target(p)] = "Stopped"
        /\ pc' = [pc EXCEPT ![p] = "announce"]
        /\ UNCHANGED <<phase, active, registered, enabled, target>>
    BY <1>7 DEF Unpublish, Lease, Goto, reporting, control
  <2>2. \A q \in Threads : Target(q)' = Target(q)
    BY <2>1 DEF Target
  <2>3. \A q \in Threads : pc'[q] = IF q = p THEN "announce" ELSE pc[q]
    BY <1>0, <2>1
  <2>4. \A r \in Subs : phase[r] \notin {"Unborn", "Stopped"} => published' = r
    BY <1>7, <2>1 DEF Unpublish, Lease
  <2> QED
    BY <2>1, <2>2, <2>3, <2>4 DEF Lease, Quiet, Completing
<1>8. CASE Announce(p)
  <2>1. PICK step \in {"start", "idle", "notify"} : Goto(p, step)
    BY <1>8, ReturnPlace DEF Announce
  <2> QED
    BY <1>8, <2>1, LeaseMove, ReturnPlace DEF Announce, reporting
<1> QED
  BY <1>1, <1>2, <1>3, <1>4, <1>5, <1>6, <1>7, <1>8 DEF UnadviseStep

LEMMA LeaseWorker ==
  ASSUME Ownership, Lease, NEW s \in Subs, WorkerStep(s)
  PROVE  Lease'
<1> Control \in Threads /\ Subs \subseteq Threads /\ Control \notin Subs
  BY SubscriptionAssumption DEF Threads
<1>0. pc \in [Threads -> Steps] /\ phase \in [Subs -> Phases] /\ Target(s) = s
  BY DEF Ownership, TypeOK, Target
<1>1. CASE AdviseVisualTreeChange(s)
  <2>1. /\ phase[s] \in {"Advising", "StopRequested"}
        /\ pc' = [pc EXCEPT ![s] = "advising"]
        /\ registered' = registered \cup {s}
        /\ UNCHANGED <<published, phase, enabled, active, target>>
    BY <1>1 DEF AdviseVisualTreeChange, Ownership, AdviseOwned, Advises, Goto, control
  <2>2. \A q \in Threads : Target(q)' = Target(q)
    BY <2>1 DEF Target
  <2>3. \A q \in Threads : pc'[q] = IF q = s THEN "advising" ELSE pc[q]
    BY <1>0, <2>1
  <2>4. \A q \in Threads : pc[q] = "unadvised" => Target(q) # s
    BY <2>1 DEF Ownership, UnadviseOwned, Unadvising
  <2>5. (\A r \in Subs :
           /\ phase[r] = "Unborn" => Quiet(r)
           /\ phase[r] \notin {"Unborn", "Stopped"} => published = r
           /\ phase[r] = "Quiescing" => r \notin registered
           /\ phase[r] = "Stopped" => Quiet(r)
           /\ phase[r] \in {"Quiescing", "Failed", "Stopped"} => r \notin enabled)'
    BY <2>1 DEF Lease, Quiet
  <2> QED
    BY <2>1, <2>2, <2>3, <2>4, <2>5 DEF Lease, Completing
<1>2. CASE AdviseReturns(s)
  <2>1. PICK step \in {"advised", "rejected"} : Goto(s, step)
    BY <1>2 DEF AdviseReturns
  <2>2. registered' \subseteq registered
    BY <1>2 DEF AdviseReturns
  <2> QED
    BY <1>2, <2>1, <2>2, LeaseMove DEF AdviseReturns, control
<1>3. CASE WorkerAdviseFinished(s)
  <2>1. phase[s] \in {"Advising", "StopRequested"}
    BY <1>3 DEF WorkerAdviseFinished, Ownership, AdviseOwned, Advises
  <2>2. PICK value \in {"Advised", "Unadvising"}, step \in {"disable", "notify"} :
          SetPhase(s, value) /\ Goto(s, step)
    BY <1>3, <2>1 DEF WorkerAdviseFinished, AdviseFinished
  <2>3. published = s
    BY <2>1 DEF Lease
  <2>4. \A q \in Threads : Completing(q) => Target(q) # s
    BY <2>1 DEF Lease
  <2> QED
    BY <1>3, <2>2, <2>3, <2>4, LeasePhase DEF WorkerAdviseFinished, reporting, control
<1>4. CASE WorkerNotifies(s)
  BY <1>4, LeaseMove DEF WorkerNotifies, reporting, control
<1> QED
  BY <1>1, <1>2, <1>3, <1>4 DEF WorkerStep

LEMMA LeaseReport ==
  ASSUME Ownership, Lease, NEW s \in Subs, NEW c \in Calls, ReportStep(s, c)
  PROVE  Lease'
<1>1. UNCHANGED <<published, phase, enabled, registered, pc, target>>
  BY DEF ReportStep, ReportBegins, ReportEnds, LastReportNotifies, control
<1>2. active \in [Subs -> SUBSET Calls]
  BY DEF Ownership, TypeOK
<1>3. CASE ReportBegins(s, c)
  <2>1. s \in registered /\ active' = [active EXCEPT ![s] = @ \cup {c}]
    BY <1>3 DEF ReportBegins
  <2>2. phase[s] \notin {"Unborn", "Quiescing", "Stopped"}
    BY <2>1 DEF Lease, Quiet
  <2>3. \A q \in Threads : pc[q] = "quiesce" => Target(q) # s /\ Target(q) \in Subs
    BY <2>2, StoppingTarget DEF Lease, Completing
  <2>4. \A r \in Subs : r # s => active'[r] = active[r]
    BY <1>2, <2>1
  <2> QED
    BY <1>1, <2>2, <2>3, <2>4 DEF Lease, Quiet, Completing, Target
<1>4. CASE ~ReportBegins(s, c)
  <2>1. \A r \in Subs : active'[r] \subseteq active[r]
    BY <1>2, <1>4 DEF ReportStep, ReportEnds, LastReportNotifies
  <2>2. \A q \in Threads : pc[q] = "quiesce" => Target(q) \in Subs
    BY StoppingTarget
  <2> QED
    BY <1>1, <2>1, <2>2 DEF Lease, Quiet, Completing, Target
<1> QED
  BY <1>3, <1>4

LEMMA LeaseStep == Ownership /\ Lease /\ [Next]_vars => Lease'
<1> SUFFICES ASSUME Ownership, Lease, [Next]_vars PROVE Lease'
  OBVIOUS
<1>1. CASE RequestTransition \/ UNCHANGED vars
  <2>1. UNCHANGED <<published, phase, enabled, active, registered, pc, target>>
    BY <1>1 DEF RequestTransition, reporting, control, vars
  <2> QED
    BY <2>1 DEF Lease, Quiet, Completing, Target
<1> QED
  BY <1>1, LeaseControl, LeaseUnadvise, LeaseWorker, LeaseReport DEF Next

-----------------------------------------------------------------------------
(* The refinement of ExclusiveSubscription.                                *)

LEMMA VacantInitially == Init => Exclusive!Vacant
  BY DEF Init, Exclusive!Vacant

LEMMA StepRefines ==
  Ownership /\ Lease /\ [Next]_vars => [Exclusive!LeaseStep]_(Exclusive!lease)
<1> SUFFICES ASSUME Ownership, Lease, [Next]_vars,
                    ~UNCHANGED <<published, registered, active>>
             PROVE  \E s \in Subs : \/ Exclusive!Occupy(s) \/ Exclusive!Attach(s)
                                    \/ Exclusive!Detach(s) \/ Exclusive!Vacate(s)
                                    \/ \E c \in Calls : Exclusive!Enter(s, c) \/ Exclusive!Leave(s, c)
  BY DEF Exclusive!LeaseStep, Exclusive!lease
<1> USE DEF reporting
<1>1. CASE ControlStep
  BY <1>1 DEF ControlStep, OnCommand, StopSubscription, RequestStop, StartSubscription,
              LaunchWorker, Exclusive!Occupy
<1>2. ASSUME NEW p \in Threads, UnadviseStep(p)
      PROVE  \E s \in Subs : Exclusive!Detach(s) \/ Exclusive!Vacate(s)
  <2>1. CASE UnadviseVisualTreeChange(p)
    <3>1. Target(p) \in Subs
      BY <2>1, StoppingTarget DEF UnadviseVisualTreeChange
    <3>2. Target(p) \in registered /\ registered' = registered \ {Target(p)}
          /\ UNCHANGED <<published, active>>
      BY <2>1 DEF UnadviseVisualTreeChange
    <3> QED
      BY <3>1, <3>2 DEF Exclusive!Detach
  <2>2. CASE Unpublish(p)
    <3>1. Target(p) \in Subs
      BY <2>2, StoppingTarget DEF Unpublish
    <3>2. Quiet(Target(p))
      BY <2>2, <3>1 DEF Unpublish, Lease
    <3>3. published = Target(p) /\ published' = NoSub /\ UNCHANGED <<active, registered>>
      BY <2>2 DEF Unpublish
    <3> QED
      BY <3>1, <3>2, <3>3 DEF Exclusive!Vacate, Quiet
  <2> QED
    BY <1>2, <2>1, <2>2 DEF UnadviseStep, DisableCallbacks, UnadviseFinished, ReportFailure,
       CompleteStop, CompleteQuiescence, Announce
<1>3. ASSUME NEW s \in Subs, WorkerStep(s)
      PROVE  Exclusive!Attach(s) \/ Exclusive!Detach(s)
  <2>1. CASE AdviseVisualTreeChange(s)
    <3>1. published = s
      BY <2>1 DEF AdviseVisualTreeChange, Ownership, AdviseOwned, Advises, Lease
    <3> QED
      BY <2>1, <3>1 DEF AdviseVisualTreeChange, Exclusive!Attach
  <2>2. CASE AdviseReturns(s)
    BY <2>2 DEF AdviseReturns, Exclusive!Detach
  <2> QED
    BY <1>3, <2>1, <2>2 DEF WorkerStep, WorkerAdviseFinished, WorkerNotifies
<1>4. ASSUME NEW s \in Subs, NEW c \in Calls, ReportStep(s, c)
      PROVE  Exclusive!Enter(s, c) \/ Exclusive!Leave(s, c)
  BY <1>4 DEF ReportStep, ReportBegins, ReportEnds, LastReportNotifies,
              Exclusive!Enter, Exclusive!Leave
<1>5. ~(RequestTransition \/ UNCHANGED vars)
  BY DEF RequestTransition, vars
<1> QED
  BY <1>1, <1>2, <1>3, <1>4, <1>5 DEF Next

\* The subscription implements the exclusive lease: a replacement is published
\* only after XAML has dropped its predecessor and every report has left it.
THEOREM ReplacementNeverOverlaps == Spec => NeverOverlaps
<1>1. Init => Ownership /\ Lease
  BY OwnershipInitial, LeaseInitial
<1>2. Ownership /\ Lease /\ [Next]_vars => (Ownership /\ Lease)'
  BY OwnershipStep, LeaseStep
<1> QED
  BY <1>1, <1>2, VacantInitially, StepRefines, PTL
     DEF Spec, NeverOverlaps, Exclusive!LeaseSpec

-----------------------------------------------------------------------------
(* No wake-up is lost.                                                     *)

\* What keeps subscription s moving by itself.
Moving(s) == \/ pc[s] # "idle"
             \/ /\ phase[s] = "Quiescing"
                /\ s \notin enabled
                /\ active[s] \cup leaving[s] # {}

LEMMA WaitingInitial == Init => Waiting
  BY DEF Init, Waiting, WaitIsAnswered, Unadvising, Completing, Threads

\* The control thread goes to sleep only behind something that will wake it.
LEMMA DeferredIsMoving ==
  ASSUME Ownership, Lease, Waiting, NEW s \in Subs, s = target,
         \/ pc[Control] = "request" /\ phase[s] \in {"Advising", "StopRequested", "Unadvising"}
         \/ pc[Control] = "complete" /\ active[s] # {}
  PROVE  Moving(s)
<1> Control \in Threads /\ s \in Threads /\ Control \notin Subs
  BY SubscriptionAssumption DEF Threads
<1>1. CASE pc[Control] = "request" /\ phase[s] \in {"Advising", "StopRequested"}
  BY <1>1 DEF Moving, Ownership, AdviseOwned, Advises, Launching
<1>2. CASE pc[Control] = "request" /\ phase[s] = "Unadvising"
  <2>1. PICK p \in Threads : Unadvising(p) /\ Target(p) = s
    BY <1>2 DEF Ownership, UnadviseOwned
  <2>2. p = s
    BY <1>2, <2>1 DEF Unadvising, Target
  <2> QED
    BY <2>1, <2>2 DEF Moving, Unadvising
<1>3. CASE pc[Control] = "complete" /\ active[s] # {}
  <2>1. phase[s] \in {"Quiescing", "Stopped"}
    BY <1>3 DEF Lease, Completing, Target
  <2>2. phase[s] = "Quiescing" /\ s \notin enabled
    BY <1>3, <2>1 DEF Lease, Quiet
  <2> QED
    BY <1>3, <2>2 DEF Moving
<1> QED
  BY <1>1, <1>2, <1>3

\* A step away from the control thread keeps what moves moving, or posts.
LEMMA MovingGoesOn ==
  ASSUME Ownership, Lease, [Next]_vars, pc[Control] = "idle", pc'[Control] = "idle",
         UNCHANGED pending, pending, Waiting
  PROVE  posted' # {} \/ \E s \in Subs : Moving(s)'
<1> Control \in Threads /\ Subs \subseteq Threads /\ Control \notin Subs
  BY SubscriptionAssumption DEF Threads
<1>0. /\ pc \in [Threads -> Steps] /\ phase \in [Subs -> Phases]
      /\ active \in [Subs -> SUBSET Calls] /\ leaving \in [Subs -> SUBSET Calls]
  BY DEF Ownership, TypeOK
<1>2. CASE RequestTransition \/ \E p \in Threads : ReportFailure(p) \/ Announce(p)
  BY <1>2 DEF RequestTransition, ReportFailure, Announce, NotifyCompletion
<1>3. ~ControlStep
  BY <1>0 DEF ControlStep, OnCommand, StopSubscription, RequestStop, StartSubscription,
              LaunchWorker, Goto
<1>4. ASSUME NEW s \in Subs, WorkerStep(s), posted = {}
      PROVE  posted' # {} \/ Moving(s)'
  <2>1. CASE WorkerNotifies(s)
    BY <2>1 DEF WorkerNotifies, NotifyCompletion
  <2>2. CASE ~WorkerNotifies(s)
    BY <1>0, <1>4, <2>2 DEF WorkerStep, AdviseVisualTreeChange, AdviseReturns,
       WorkerAdviseFinished, Goto, Moving
  <2> QED
    BY <2>1, <2>2
<1>5. ASSUME NEW p \in Threads, UnadviseStep(p), ~ReportFailure(p), ~Announce(p)
      PROVE  Moving(p)' /\ p \in Subs
  <2>1. p # Control
    BY <1>5 DEF UnadviseStep, DisableCallbacks, UnadviseVisualTreeChange, UnadviseFinished,
       CompleteStop, CompleteQuiescence, Unpublish
  <2>2. p \in Subs
    BY <2>1 DEF Threads
  <2>3. PICK step \in {"unadvise", "unadvised", "refused", "complete", "complain", "quiesce",
                       "unpublish", "announce", "notify"} : Goto(p, step)
    BY <1>5, <2>1 DEF UnadviseStep, DisableCallbacks, UnadviseVisualTreeChange,
       UnadviseFinished, CompleteStop, CompleteQuiescence, Unpublish, Return
  <2> QED
    BY <1>0, <2>2, <2>3 DEF Moving, Goto
<1>6. ASSUME NEW s \in Subs, NEW c \in Calls, ReportStep(s, c), posted = {}
      PROVE  posted' # {} \/ \E r \in Subs : Moving(r)'
  <2>1. PICK r \in Subs : Moving(r)
    BY <1>6 DEF Waiting, WaitIsAnswered, Moving
  <2>2. UNCHANGED <<pc, phase, enabled>>
    BY <1>6 DEF ReportStep, ReportBegins, ReportEnds, LastReportNotifies
  <2>3. CASE pc[r] # "idle"
    BY <2>2, <2>3 DEF Moving
  <2>4. CASE phase[r] = "Quiescing" /\ r \notin enabled /\ active[r] \cup leaving[r] # {}
    <3>1. CASE ReportBegins(s, c)
      <4>1. active[r] \cup leaving[r] \subseteq active'[r] \cup leaving'[r]
        BY <1>0, <3>1 DEF ReportBegins
      <4> QED
        BY <2>2, <2>4, <4>1 DEF Moving
    <3>2. CASE ReportEnds(s, c)
      <4>1. active'[r] \cup leaving'[r] # {}
        BY <1>0, <2>4, <3>2 DEF ReportEnds
      <4> QED
        BY <2>2, <2>4, <4>1 DEF Moving
    <3>3. CASE LastReportNotifies(s, c) /\ s = r
      BY <2>4, <3>3 DEF LastReportNotifies, NotifyCompletion
    <3>4. CASE LastReportNotifies(s, c) /\ s # r
      BY <1>0, <2>2, <2>4, <3>4 DEF LastReportNotifies, Moving
    <3> QED
      BY <1>6, <3>1, <3>2, <3>3, <3>4 DEF ReportStep
  <2> QED
    BY <2>1, <2>3, <2>4 DEF Moving
<1>7. CASE UNCHANGED vars
  BY <1>7 DEF vars, Waiting, WaitIsAnswered, Moving
<1>8. posted # {} => posted' # {}
  BY <1>3 DEF Next, vars, RequestTransition, UnadviseStep, DisableCallbacks,
     UnadviseVisualTreeChange, UnadviseFinished, ReportFailure, CompleteStop,
     CompleteQuiescence, Unpublish, Announce, WorkerStep, AdviseVisualTreeChange,
     AdviseReturns, WorkerAdviseFinished, WorkerNotifies, NotifyCompletion, ReportStep,
     ReportBegins, ReportEnds, LastReportNotifies
<1> QED
  BY <1>2, <1>3, <1>4, <1>5, <1>6, <1>7, <1>8 DEF Next

\* Only the control thread's own steps touch its place, caller and pending.
LEMMA ControlUntouched ==
  ASSUME Ownership, [Next]_vars, ~ControlStep, ~UnadviseStep(Control)
  PROVE  pc'[Control] = pc[Control] /\ UNCHANGED <<caller, pending, target>>
<1> Control \notin Subs
  BY SubscriptionAssumption
<1>0. pc \in [Threads -> Steps] /\ Control \in Threads
  BY DEF Ownership, TypeOK, Threads
<1>1. CASE RequestTransition \/ UNCHANGED vars
  BY <1>1 DEF RequestTransition, control, vars
<1>2. ASSUME NEW p \in Subs, UnadviseStep(p)
      PROVE  pc'[Control] = pc[Control] /\ UNCHANGED <<caller, pending, target>>
  <2>1. UNCHANGED control /\ \E step : Goto(p, step)
    BY <1>2 DEF UnadviseStep, DisableCallbacks, UnadviseVisualTreeChange, UnadviseFinished,
       ReportFailure, CompleteStop, CompleteQuiescence, Unpublish, Announce, Return
  <2> QED
    BY <1>0, <2>1 DEF Goto, control
<1>3. ASSUME NEW s \in Subs, WorkerStep(s)
      PROVE  pc'[Control] = pc[Control] /\ UNCHANGED <<caller, pending, target>>
  <2>1. UNCHANGED control /\ \E step : Goto(s, step)
    BY <1>3 DEF WorkerStep, AdviseVisualTreeChange, AdviseReturns, WorkerAdviseFinished,
       WorkerNotifies
  <2> QED
    BY <1>0, <2>1 DEF Goto, control
<1>4. ASSUME NEW s \in Subs, NEW c \in Calls, ReportStep(s, c)
      PROVE  pc'[Control] = pc[Control] /\ UNCHANGED <<caller, pending, target>>
  BY <1>4 DEF ReportStep, ReportBegins, ReportEnds, LastReportNotifies, control
<1> QED
  BY <1>1, <1>2, <1>3, <1>4 DEF Next, Threads

LEMMA WaitingControl ==
  ASSUME Ownership, Lease, Waiting, Ownership', ControlStep
  PROVE  Waiting'
<1> Control \in Threads /\ Control \notin Subs /\ Subs \subseteq Threads
  BY SubscriptionAssumption DEF Threads
<1>0. pc \in [Threads -> Steps] /\ phase \in [Subs -> Phases]
  BY DEF Ownership, TypeOK
<1> USE DEF Waiting, Unadvising, Completing, Goto
<1>1. CASE OnCommand
  BY <1>0, <1>1 DEF OnCommand, WaitIsAnswered
<1>2. CASE StopSubscription
  BY <1>0, <1>2 DEF StopSubscription, WaitIsAnswered
<1>3. CASE RequestStop
  <2>0. target \in Subs /\ pc[Control] = "request"
    BY <1>3 DEF RequestStop, Ownership, ControlHasTarget
  <2>1. CASE Return(Control, "Deferred")
    <3>0. pc'[Control] \in {"idle", "start"}
      BY <1>0, <2>1 DEF Return
    <3>1. phase[target] \in {"Advising", "StopRequested", "Unadvising"}
      <4>1. ~Goto(Control, "disable") /\ ~Goto(Control, "complete")
        BY <1>0, <3>0
      <4>2. ~Return(Control, "Stopped")
        BY <1>3, <2>1 DEF Return, RequestStop
      <4> QED
        BY <1>3, <4>1, <4>2 DEF RequestStop
    <3>2. pc[target] # "idle"
      BY <2>0, <3>1, DeferredIsMoving DEF Moving
    <3>3. pc'[target] # "idle" /\ pc'[Control] \in {"idle", "start"}
      BY <1>0, <2>0, <2>1, <3>2 DEF Return
    <3> QED
      BY <2>0, <3>3 DEF WaitIsAnswered
  <2>2. CASE ~Return(Control, "Deferred")
    <3>1. CASE Return(Control, "Stopped")
      <4>1. caller = "stop" /\ pc'[Control] = "start"
        BY <1>0, <2>0, <3>1 DEF Return
      <4> QED
        BY <4>1 DEF WaitIsAnswered
    <3>2. CASE Goto(Control, "disable") \/ Goto(Control, "complete")
      <4>1. pc'[Control] \in {"disable", "complete"} /\ caller = "stop"
        BY <1>0, <2>0, <3>2
      <4>2. caller' = caller
        BY <1>3, <3>2 DEF RequestStop, Return, control
      <4> QED
        BY <4>1, <4>2 DEF WaitIsAnswered
    <3> QED
      BY <1>3, <2>2, <3>1, <3>2 DEF RequestStop
  <2> QED
    BY <2>1, <2>2
<1>4. CASE StartSubscription
  BY <1>0, <1>4 DEF StartSubscription, WaitIsAnswered
<1>5. CASE LaunchWorker
  <2>1. ~pending'
    BY <1>5 DEF LaunchWorker
  <2>2. target \in Subs
    BY <1>5 DEF LaunchWorker, Ownership, ControlHasTarget
  <2>3. pc'[Control] \in {"idle", "disable"}
    BY <1>0, <1>5, <2>2 DEF LaunchWorker
  <2> QED
    BY <2>1, <2>3 DEF WaitIsAnswered
<1> QED
  BY <1>1, <1>2, <1>3, <1>4, <1>5 DEF ControlStep

LEMMA WaitingUnadvise ==
  ASSUME Ownership, Lease, Waiting, UnadviseStep(Control)
  PROVE  Waiting'
<1> Control \in Threads /\ Control \notin Subs /\ Subs \subseteq Threads
  BY SubscriptionAssumption DEF Threads
<1>0. pc \in [Threads -> Steps] /\ phase \in [Subs -> Phases] /\ Target(Control) = target
  BY DEF Ownership, TypeOK, Target
<1>t. target \in Subs
  BY <1>0, StoppingTarget DEF UnadviseStep, DisableCallbacks, UnadviseVisualTreeChange,
     UnadviseFinished, ReportFailure, CompleteStop, CompleteQuiescence, Unpublish, Announce
<1>c. caller = "start" => ~pending
  BY DEF UnadviseStep, DisableCallbacks, UnadviseVisualTreeChange, UnadviseFinished,
     ReportFailure, CompleteStop, CompleteQuiescence, Unpublish, Announce, Waiting,
     Unadvising, Completing
<1> USE DEF Waiting, Unadvising, Completing, Goto
<1>1. ASSUME NEW step \in Steps \ {"idle", "launch", "request"}, Goto(Control, step),
             UNCHANGED control
      PROVE  Waiting'
  BY <1>0, <1>1, <1>c DEF WaitIsAnswered, control
<1>2. ASSUME NEW answer \in {"Stopped", "Failed", "Deferred"}, Return(Control, answer),
             answer = "Deferred" => active[target] # {} /\ pc[Control] = "complete"
                                    /\ UNCHANGED <<phase, enabled, active, leaving>>
      PROVE  Waiting'
  <2>1. /\ pc'[Control] \in {"start", "idle"}
        /\ pending' = (pending /\ answer # "Failed")
        /\ caller = "stop" /\ answer = "Stopped" => pc'[Control] = "start"
    BY <1>0, <1>2 DEF Return
  <2>2. CASE answer # "Deferred"
    <3>1. pc'[Control] = "idle" => ~pending'
      BY <1>2, <1>c, <2>1, <2>2 DEF Ownership, TypeOK
    <3> QED
      BY <2>1, <3>1 DEF WaitIsAnswered
  <2>3. CASE answer = "Deferred"
    <3>1. Moving(target)
      BY <1>2, <1>t, <2>3, DeferredIsMoving
    <3>2. pc'[target] = pc[target]
      BY <1>0, <1>2, <1>t DEF Return
    <3>3. /\ phase'[target] = phase[target]
          /\ enabled' = enabled
          /\ active'[target] = active[target]
          /\ leaving'[target] = leaving[target]
      BY <1>2, <2>3
    <3> QED
      BY <1>t, <2>1, <3>1, <3>2, <3>3 DEF WaitIsAnswered, Moving
  <2> QED
    BY <2>2, <2>3
<1>3. CASE \E step \in Steps \ {"idle", "launch", "request"} :
             Goto(Control, step) /\ UNCHANGED control
  BY <1>1, <1>3
<1>4. CASE ReportFailure(Control)
  BY <1>2, <1>4 DEF ReportFailure
<1>5. CASE CompleteStop(Control) /\ Return(Control, "Deferred")
  BY <1>0, <1>2, <1>5 DEF CompleteStop, reporting, Return, Steps
<1>6. CASE CompleteQuiescence(Control) /\ UNCHANGED phase
  <2>1. phase[target] \in {"Quiescing", "Stopped"}
    BY <1>0, <1>6 DEF CompleteQuiescence, Lease
  <2>2. phase[target] = "Stopped"
    BY <1>0, <1>6, <1>t, <2>1 DEF CompleteQuiescence, SetPhase
  <2>3. Return(Control, "Stopped") /\ pc[Control] = "quiesce"
    BY <1>0, <1>6, <2>2 DEF CompleteQuiescence
  <2> QED
    BY <1>2, <2>3
<1>7. CASE Announce(Control)
  BY <1>2, <1>7 DEF Announce
<1>8. \/ \E step \in Steps \ {"idle", "launch", "request"} :
           Goto(Control, step) /\ UNCHANGED control
      \/ ReportFailure(Control) \/ Announce(Control)
      \/ CompleteStop(Control) /\ Return(Control, "Deferred")
      \/ CompleteQuiescence(Control) /\ UNCHANGED phase
  BY DEF UnadviseStep, DisableCallbacks, UnadviseVisualTreeChange, UnadviseFinished,
     CompleteStop, CompleteQuiescence, Unpublish, Steps
<1> QED
  BY <1>3, <1>4, <1>5, <1>6, <1>7, <1>8

LEMMA WaitingStep == Ownership /\ Lease /\ Waiting /\ [Next]_vars => Waiting'
<1> SUFFICES ASSUME Ownership, Lease, Waiting, [Next]_vars PROVE Waiting'
  OBVIOUS
<1>1. CASE ControlStep
  BY <1>1, OwnershipStep, WaitingControl
<1>2. CASE UnadviseStep(Control)
  BY <1>2, WaitingUnadvise
<1>3. CASE ~ControlStep /\ ~UnadviseStep(Control)
  <2>1. pc'[Control] = pc[Control] /\ UNCHANGED <<caller, pending, target>>
    BY <1>3, ControlUntouched
  <2>2. WaitIsAnswered'
    <3>1. CASE pending /\ pc[Control] = "idle"
      BY <2>1, <3>1, MovingGoesOn DEF WaitIsAnswered, Moving
    <3>2. CASE ~(pending /\ pc[Control] = "idle")
      BY <2>1, <3>2 DEF WaitIsAnswered
    <3> QED
      BY <3>1, <3>2
  <2> QED
    BY <2>1, <2>2 DEF Waiting, Unadvising, Completing
<1> QED
  BY <1>1, <1>2, <1>3

\* While a transition waits for a deferred stop, something is on its way that
\* will drive it again.
THEOREM NoWakeUpIsLost == Spec => []WaitIsAnswered
<1>1. Init => Inv
  BY OwnershipInitial, LeaseInitial, WaitingInitial DEF Inv
<1>2. Inv /\ [Next]_vars => Inv'
  BY OwnershipStep, LeaseStep, WaitingStep DEF Inv
<1>3. Inv => WaitIsAnswered
  BY DEF Inv, Waiting
<1> QED
  BY <1>1, <1>2, <1>3, PTL DEF Spec
=============================================================================
