---------------------------- MODULE Subscription ----------------------------
(***************************************************************************)
(* The standing subscription: SubscriptionState (subscription_state.h),    *)
(* StartSubscription / StopSubscription / Unadvise / CompleteStop and the  *)
(* callback's activity count (change_subscription.cpp), driven by the one  *)
(* control thread the way DriveTransition (theme_session.cpp) drives them. *)
(*                                                                         *)
(* Processes: the control thread, one Advise worker per subscription, and  *)
(* the XAML calls that are inside a callback.  Each step below is one      *)
(* atomic access of shared state, or a COM call that may take any time.    *)
(*                                                                         *)
(* External (XAML): a callback is entered only while XAML holds its        *)
(* registration, from the beginning of AdviseVisualTreeChange until a      *)
(* successful UnadviseVisualTreeChange; both calls may fail.               *)
(***************************************************************************)
EXTENDS Naturals

CONSTANTS Subs,     \* subscription objects, used once each (bounds the run)
          Calls,    \* reports that can be inside one callback at once
          Control,  \* the control thread
          NoSub     \* g_subscription == nullptr

ASSUME SubscriptionAssumption == Control \notin Subs /\ NoSub \notin Subs

VARIABLES published,   \* g_subscription
          phase,       \* SubscriptionState::phase_ of every subscription
          enabled,     \* subscriptions whose activity->enabled is true
          active,      \* the calls counted by activity->active
          leaving,     \* calls that took the count to zero, enabled not read yet
          registered,  \* external: the callbacks XAML holds
          pc,          \* where the control thread and each worker stand
          target,      \* the subscription the control thread works on
          caller,      \* which function of the control thread called Unadvise
          pending,     \* t_pending_transition
          posted,      \* commands waiting in the control thread's mailbox
          result       \* what the last start or stop returned

vars == <<published, phase, enabled, active, leaving, registered, pc, target,
          caller, pending, posted, result>>

Threads == Subs \cup {Control}

Phases == {"Unborn", "Advising", "Advised", "StopRequested", "Unadvising",
           "Quiescing", "Failed", "Stopped"}

Steps == {"idle", "stop", "request", "disable", "unadvise", "unadvised",
          "refused", "complain", "complete", "quiesce", "unpublish", "announce",
          "start", "launch", "advise", "advising", "advised", "rejected",
          "notify"}

Results == {"none", "None", "Stopped", "Deferred", "Failed", "Started",
            "NotStarted", "E_PENDING"}

\* The subscription a thread works on: a worker has its own, the control thread
\* the one it loaded from g_subscription.
Target(p) == IF p = Control THEN target ELSE p

TypeOK == /\ published \in Subs \cup {NoSub}
          /\ phase \in [Subs -> Phases]
          /\ enabled \subseteq Subs
          /\ active \in [Subs -> SUBSET Calls]
          /\ leaving \in [Subs -> SUBSET Calls]
          /\ registered \subseteq Subs
          /\ pc \in [Threads -> Steps]
          /\ target \in Subs \cup {NoSub}
          /\ caller \in {"start", "stop"}
          /\ pending \in BOOLEAN
          /\ posted \subseteq {"command", "continue"}
          /\ result \in Results

Init == /\ published = NoSub
        /\ phase = [s \in Subs |-> "Unborn"]
        /\ enabled = {}
        /\ active = [s \in Subs |-> {}]
        /\ leaving = [s \in Subs |-> {}]
        /\ registered = {}
        /\ pc = [p \in Threads |-> "idle"]
        /\ target = NoSub
        /\ caller = "stop"
        /\ pending = FALSE
        /\ posted = {}
        /\ result = "none"

Goto(p, step) == pc' = [pc EXCEPT ![p] = step]

SetPhase(s, value) == phase' = [phase EXCEPT ![s] = value]

\* The state only the control thread and its callers use.
control == <<target, caller, pending, result>>

\* The state of the callbacks and of XAML.
reporting == <<active, leaving, registered>>

-----------------------------------------------------------------------------
(* The control thread.  A command or a completion only posts; the posted   *)
(* message runs OnCommand, which drives a pending transition.              *)

\* A reload, export or site command reaches the mailbox.
RequestTransition ==
  /\ posted' = posted \cup {"command"}
  /\ UNCHANGED <<published, phase, enabled, reporting, pc, control>>

\* NotifyCompletion: posts a continuation.
NotifyCompletion == posted' = posted \cup {"continue"}

\* OnCommand takes everything posted; a continuation without a pending
\* transition does nothing.
OnCommand ==
  /\ pc[Control] = "idle"
  /\ posted # {}
  /\ posted' = {}
  /\ pending' = (pending \/ "command" \in posted)
  /\ Goto(Control, IF pending \/ "command" \in posted THEN "stop" ELSE "idle")
  /\ UNCHANGED <<published, phase, enabled, reporting, target, caller, result>>

\* StopSubscription loads g_subscription and disables its callbacks.
StopSubscription ==
  /\ pc[Control] = "stop"
  /\ \/ /\ published = NoSub
        /\ result' = "None"
        /\ Goto(Control, "start")
        /\ UNCHANGED <<enabled, target, caller>>
     \/ /\ published # NoSub
        /\ target' = published
        /\ caller' = "stop"
        /\ enabled' = enabled \ {published}
        /\ Goto(Control, "request")
        /\ UNCHANGED result
  /\ UNCHANGED <<published, phase, reporting, pending, posted>>

\* What DriveTransition does with the answer of StopSubscription: a deferred
\* stop keeps the transition pending, a failed one gives it up, any other goes
\* on.  Unadvise called by StartSubscription returns to a finished transition;
\* a worker only has its final notification left.
Return(p, answer) ==
  IF p = Control
  THEN /\ result' = IF caller = "start" THEN "NotStarted" ELSE answer
       /\ pending' = (pending /\ answer # "Failed")
       /\ Goto(p, IF caller = "stop" /\ answer = "Stopped" THEN "start" ELSE "idle")
       /\ UNCHANGED <<target, caller>>
  ELSE /\ Goto(p, "notify")
       /\ UNCHANGED control

\* A mutant: a second stop takes the Unadvise of a stop still in flight.
RequestStopTakesOver ==
  /\ pc[Control] = "request"
  /\ phase[target] \in {"Advised", "Failed", "Unadvising"}
  /\ SetPhase(target, "Unadvising")
  /\ Goto(Control, "disable")
  /\ UNCHANGED <<published, enabled, reporting, posted, control>>

\* RequestStop: the compare-exchange loop takes effect at its last access.
RequestStop ==
  /\ pc[Control] = "request"
  /\ \/ /\ phase[target] = "Advising"
        /\ SetPhase(target, "StopRequested")
        /\ Return(Control, "Deferred")
     \/ /\ phase[target] \in {"Advised", "Failed"}
        /\ SetPhase(target, "Unadvising")
        /\ Goto(Control, "disable")
        /\ UNCHANGED control
     \/ /\ phase[target] = "Quiescing"
        /\ Goto(Control, "complete")
        /\ UNCHANGED <<phase, control>>
     \/ /\ phase[target] = "Stopped"
        /\ Return(Control, "Stopped")
        /\ UNCHANGED phase
     \/ /\ phase[target] \in {"StopRequested", "Unadvising"}
        /\ Return(Control, "Deferred")
        /\ UNCHANGED phase
  /\ UNCHANGED <<published, enabled, reporting, posted>>

-----------------------------------------------------------------------------
(* Unadvise and CompleteStop, run by the control thread or by a worker.    *)

DisableCallbacks(p) ==
  /\ pc[p] = "disable"
  /\ enabled' = enabled \ {Target(p)}
  /\ Goto(p, "unadvise")
  /\ UNCHANGED <<published, phase, reporting, posted, control>>

\* UnadviseVisualTreeChange: on success XAML has dropped the callback, on
\* failure it may still hold it.
UnadviseVisualTreeChange(p) ==
  /\ pc[p] = "unadvise"
  /\ \/ registered' = registered \ {Target(p)} /\ Goto(p, "unadvised")
     \/ UNCHANGED registered /\ Goto(p, "refused")
  /\ UNCHANGED <<published, phase, enabled, active, leaving, posted, control>>

UnadviseFinished(p) ==
  /\ \/ /\ pc[p] = "unadvised"
        /\ SetPhase(Target(p), "Quiescing")
        /\ Goto(p, "complete")
     \/ /\ pc[p] = "refused"
        /\ SetPhase(Target(p), "Failed")
        /\ Goto(p, "complain")
  /\ UNCHANGED <<published, enabled, reporting, posted, control>>

\* A failed Unadvise notifies before it returns.
ReportFailure(p) ==
  /\ pc[p] = "complain"
  /\ NotifyCompletion
  /\ Return(p, "Failed")
  /\ UNCHANGED <<published, phase, enabled, reporting>>

\* A mutant: the count of callbacks is not consulted.
CompleteStopAlways(p) ==
  /\ pc[p] = "complete"
  /\ Goto(p, "quiesce")
  /\ UNCHANGED <<published, phase, enabled, reporting, posted, control>>

\* CompleteStop reads the count: while a call is inside, the stop is deferred.
CompleteStop(p) ==
  /\ pc[p] = "complete"
  /\ \/ /\ active[Target(p)] # {}
        /\ Return(p, "Deferred")
     \/ /\ active[Target(p)] = {}
        /\ Goto(p, "quiesce")
        /\ UNCHANGED control
  /\ UNCHANGED <<published, phase, enabled, reporting, posted>>

\* CompleteQuiescence: one caller wins the exchange and unpublishes; another
\* returns whether the phase is Stopped by now.
CompleteQuiescence(p) ==
  /\ pc[p] = "quiesce"
  /\ \/ /\ phase[Target(p)] = "Quiescing"
        /\ SetPhase(Target(p), "Stopped")
        /\ Goto(p, "unpublish")
        /\ UNCHANGED control
     \/ /\ phase[Target(p)] # "Quiescing"
        /\ Return(p, IF phase[Target(p)] = "Stopped" THEN "Stopped" ELSE "Deferred")
        /\ UNCHANGED phase
  /\ UNCHANGED <<published, enabled, reporting, posted>>

Unpublish(p) ==
  /\ pc[p] = "unpublish"
  /\ published' = IF published = Target(p) THEN NoSub ELSE published
  /\ Goto(p, "announce")
  /\ UNCHANGED <<phase, enabled, reporting, posted, control>>

Announce(p) ==
  /\ pc[p] = "announce"
  /\ NotifyCompletion
  /\ Return(p, "Stopped")
  /\ UNCHANGED <<published, phase, enabled, reporting>>

-----------------------------------------------------------------------------
(* StartSubscription and the Advise worker.                                *)

\* The rest of the transition.  It is over whatever happens next: no theme or
\* no site (nothing started), a subscription still published (E_PENDING), or a
\* new one.  Only the control thread publishes, so the exchange cannot fail.
StartSubscription ==
  /\ pc[Control] = "start"
  /\ pending' = FALSE
  /\ \/ /\ result' = "NotStarted"
        /\ Goto(Control, "idle")
        /\ UNCHANGED <<published, phase, enabled, target>>
     \/ /\ published # NoSub
        /\ result' = "E_PENDING"
        /\ Goto(Control, "idle")
        /\ UNCHANGED <<published, phase, enabled, target>>
     \/ /\ published = NoSub
        /\ \E s \in Subs :
             /\ phase[s] = "Unborn"
             /\ published' = s
             /\ SetPhase(s, "Advising")
             /\ enabled' = enabled \cup {s}
             /\ target' = s
        /\ Goto(Control, "launch")
        /\ UNCHANGED result
  /\ UNCHANGED <<reporting, caller, posted>>

\* AdviseFinished(succeeded): what it does to the phase, and whether its
\* caller owns the Unadvise.
AdviseFinished(s, succeeded) ==
  SetPhase(s, CASE phase[s] = "Advising" /\ succeeded -> "Advised"
                [] phase[s] = "Advising" /\ ~succeeded -> "Unadvising"
                [] phase[s] = "StopRequested" -> "Unadvising"
                [] OTHER -> phase[s])

OwnsUnadvise(s, succeeded) == \/ phase[s] = "Advising" /\ ~succeeded
                              \/ phase[s] = "StopRequested"

\* CreateThread succeeds and the worker has the subscription, or the job or
\* the thread cannot be created and the control thread unadvises itself.
LaunchWorker ==
  /\ pc[Control] = "launch"
  /\ \/ /\ pc' = [pc EXCEPT ![Control] = "idle", ![target] = "advise"]
        /\ result' = "Started"
        /\ UNCHANGED <<phase, caller>>
     \/ /\ AdviseFinished(target, FALSE)
        /\ caller' = "start"
        /\ Goto(Control, "disable")
        /\ UNCHANGED result
  /\ UNCHANGED <<published, enabled, reporting, target, pending, posted>>

\* AdviseVisualTreeChange begins: XAML may report from now on.
AdviseVisualTreeChange(s) ==
  /\ pc[s] = "advise"
  /\ registered' = registered \cup {s}
  /\ Goto(s, "advising")
  /\ UNCHANGED <<published, phase, enabled, active, leaving, posted, control>>

\* It returns; a failed call may leave the callback registered.
AdviseReturns(s) ==
  /\ pc[s] = "advising"
  /\ \/ UNCHANGED registered /\ Goto(s, "advised")
     \/ registered' \in {registered, registered \ {s}} /\ Goto(s, "rejected")
  /\ UNCHANGED <<published, phase, enabled, active, leaving, posted, control>>

\* A mutant: a worker that failed to advise leaves the stop to the stopper.
WorkerForgetsStop(s) ==
  /\ pc[s] \in {"advised", "rejected"}
  /\ AdviseFinished(s, pc[s] = "advised")
  /\ Goto(s, IF pc[s] = "advised" /\ phase[s] = "StopRequested" THEN "notify"
             ELSE IF OwnsUnadvise(s, pc[s] = "advised") THEN "disable" ELSE "notify")
  /\ UNCHANGED <<published, enabled, reporting, posted, control>>

WorkerAdviseFinished(s) ==
  /\ pc[s] \in {"advised", "rejected"}
  /\ AdviseFinished(s, pc[s] = "advised")
  /\ Goto(s, IF OwnsUnadvise(s, pc[s] = "advised") THEN "disable" ELSE "notify")
  /\ UNCHANGED <<published, enabled, reporting, posted, control>>

\* The worker's last act.
WorkerNotifies(s) ==
  /\ pc[s] = "notify"
  /\ NotifyCompletion
  /\ Goto(s, "idle")
  /\ UNCHANGED <<published, phase, enabled, reporting, control>>

-----------------------------------------------------------------------------
(* The callbacks: CallbackScope around OnVisualTreeChange and              *)
(* OnElementStateChanged.                                                  *)

ReportBegins(s, c) ==
  /\ s \in registered
  /\ c \notin active[s] \cup leaving[s]
  /\ active' = [active EXCEPT ![s] = @ \cup {c}]
  /\ UNCHANGED <<published, phase, enabled, leaving, registered, pc, posted, control>>

\* fetch_sub: the call that takes the count to zero still has to read enabled.
ReportEnds(s, c) ==
  /\ c \in active[s]
  /\ active' = [active EXCEPT ![s] = @ \ {c}]
  /\ leaving' = [leaving EXCEPT ![s] = IF active[s] = {c} THEN @ \cup {c} ELSE @]
  /\ UNCHANGED <<published, phase, enabled, registered, pc, posted, control>>

\* A mutant: the last call leaves without a word.
LeaveSilently(s, c) ==
  /\ c \in leaving[s]
  /\ leaving' = [leaving EXCEPT ![s] = @ \ {c}]
  /\ UNCHANGED <<published, phase, enabled, active, registered, pc, posted, control>>

\* Disabled by then: the stop that found this call inside is told.
LastReportNotifies(s, c) ==
  /\ c \in leaving[s]
  /\ leaving' = [leaving EXCEPT ![s] = @ \ {c}]
  /\ IF s \in enabled THEN UNCHANGED posted ELSE NotifyCompletion
  /\ UNCHANGED <<published, phase, enabled, active, registered, pc, control>>

-----------------------------------------------------------------------------
ControlStep == \/ OnCommand \/ StopSubscription \/ RequestStop
               \/ StartSubscription \/ LaunchWorker

UnadviseStep(p) == \/ DisableCallbacks(p) \/ UnadviseVisualTreeChange(p)
                   \/ UnadviseFinished(p) \/ ReportFailure(p)
                   \/ CompleteStop(p) \/ CompleteQuiescence(p)
                   \/ Unpublish(p) \/ Announce(p)

WorkerStep(s) == \/ AdviseVisualTreeChange(s) \/ AdviseReturns(s)
                 \/ WorkerAdviseFinished(s) \/ WorkerNotifies(s)

ReportStep(s, c) == \/ ReportBegins(s, c) \/ ReportEnds(s, c)
                    \/ LastReportNotifies(s, c)

Next == \/ RequestTransition
        \/ ControlStep
        \/ \E p \in Threads : UnadviseStep(p)
        \/ \E s \in Subs : WorkerStep(s)
        \/ \E s \in Subs, c \in Calls : ReportStep(s, c)

Spec == Init /\ [][Next]_vars

\* Every thread runs on, every COM call returns, every report ends; nothing
\* says that an Advise or an Unadvise ever succeeds, nor that a command comes.
Fairness == /\ WF_vars(ControlStep)
            /\ \A p \in Threads : WF_vars(UnadviseStep(p))
            /\ \A s \in Subs : WF_vars(WorkerStep(s))
            /\ \A s \in Subs, c \in Calls :
                 WF_vars(ReportEnds(s, c)) /\ WF_vars(LastReportNotifies(s, c))

FairSpec == Spec /\ Fairness

-----------------------------------------------------------------------------
(* Properties.                                                             *)

Unadvising(p) == pc[p] \in {"disable", "unadvise", "unadvised", "refused"}

\* However a stop races the end of Advise, a second stop or a failed launch,
\* at most one thread owns the Unadvise of a subscription, from the exchange
\* that gave it away until UnadviseFinished (subscription_state.h).
OneUnadvise ==
  \A p, q \in Threads :
    Unadvising(p) /\ Unadvising(q) /\ Target(p) = Target(q) => p = q

\* The promise of change_subscription.h: the subscription stays published until
\* XAML has dropped its callback and every report has left it, so no
\* replacement ever overlaps it.
Exclusive == INSTANCE ExclusiveSubscription
               WITH slot <- published, attached <- registered, reports <- active

NeverOverlaps == Exclusive!LeaseSpec

\* No lost wake-up: while a transition waits for a deferred stop, something
\* is on its way that will drive it again (a posted command, a worker that has
\* yet to notify, or a report whose end will).
WaitIsAnswered ==
  pending /\ pc[Control] = "idle"
    => \/ posted # {}
       \/ \E s \in Subs :
            \/ pc[s] # "idle"
            \/ /\ phase[s] = "Quiescing"
               /\ s \notin enabled
               /\ active[s] \cup leaving[s] # {}

\* Every transition is finished or given up: a deferred stop is driven to its
\* end by the completions alone, even if no further command is sent.
TransitionResolves == pending ~> ~pending

\* change_subscription.h says a stopping subscription remains published until
\* Unadvise succeeds and all callbacks finish: after a stop that reported
\* Stopped, a start should not find it there any more.
StoppedIsReplaceable == result # "E_PENDING"
=============================================================================
