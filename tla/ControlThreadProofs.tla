-------------------------- MODULE ControlThreadProofs --------------------------
(* What is proved of the control thread of the TAP: first of the mailbox     *)
(* that wakes it (CommandMailbox), then of the theme transition it drives    *)
(* (ThemeTransition).  The two state machines have no variable in common;    *)
(* each part speaks of its own specification.                                *)
EXTENDS CommandMailbox, ThemeTransition, TLAPS

-------------------------------------------------------------------------------
(* The wake-up invariant of CommandMailbox, for any number of callers,       *)
(* commands and restarts.  It is inductive together with the type and with   *)
(* the fact that nothing belongs to a generation that has not begun.         *)

\* Tickets and wake-ups belong to generations that have begun.
Begun == /\ \A p \in Callers : ticket[p] <= generation
         /\ \A g \in Generations : Awake(g) => g <= generation

MailInv == MailboxTypeOK /\ Begun /\ OneWakeUp

\* Nobody holds a wake-up at the start.
LEMMA MailInvAtStart == MailboxInit => MailInv
<1> SUFFICES ASSUME MailboxInit PROVE MailInv
  OBVIOUS
<1>1. MailboxTypeOK
  <2>1. 0 \in Generations
    BY MailboxAssumption DEF Generations
  <2>2. queued \in [Generations -> 0..1] /\ ticket \in [Callers -> Generations]
    BY <2>1 DEF MailboxInit
  <2>3. pc \in [Callers -> {"idle", "push", "post", "failed"}]
    BY DEF MailboxInit
  <2>q. QED BY <2>1, <2>2, <2>3 DEF MailboxInit, MailboxTypeOK
<1>2. \A g \in Generations : ~Awake(g) /\ Single(g)
  BY MailboxAssumption DEF MailboxInit, Awake, Single, Posting, Generations
<1>3. Begun
  BY <1>2, MailboxAssumption DEF MailboxInit, Begun, Generations
<1>4. OneWakeUp
  BY <1>2, MailboxAssumption DEF MailboxInit, OneWakeUp, Generations
<1>q. QED BY <1>1, <1>3, <1>4 DEF MailInv

\* A caller that starts to push holds no wake-up yet.
LEMMA BeginPostKeepsInv ==
  ASSUME MailInv, NEW p \in Callers, NEW c \in Commands, BeginPost(p, c) PROVE MailInv'
<1> USE DEF MailInv, MailboxTypeOK, BeginPost, Goto, mailbox, window
<1>1. MailboxTypeOK'
  OBVIOUS
<1>2. \A g \in Generations : Posting(g)' = Posting(g)
  BY DEF Posting
<1>3. \A g \in Generations : (Awake(g)' <=> Awake(g)) /\ (Single(g)' <=> Single(g))
  BY <1>2 DEF Awake, Single
<1>4. \A q \in Callers : ticket'[q] <= generation'
  BY DEF Begun, Generations
<1>5. Begun'
  BY <1>3, <1>4 DEF Begun, Generations
<1>6. OneWakeUp'
  BY <1>3 DEF OneWakeUp
<1>q. QED BY <1>1, <1>5, <1>6

\* Push hands out a wake-up only when none was on its way.
LEMMA PushKeepsInv == ASSUME MailInv, NEW p \in Callers, Push(p) PROVE MailInv'
<1> USE DEF MailInv, MailboxTypeOK, Push, Goto, window
<1>1. MailboxTypeOK'
  <2>1. pc' \in [Callers -> {"idle", "push", "post", "failed"}]
    <3>1. \E step \in {"idle", "post"} : pc' = [pc EXCEPT ![p] = step]
      BY Zenon
    <3>q. QED BY <3>1
  <2>2. CASE ticket[p] # generation
    BY <2>1, <2>2
  <2>3. CASE ticket[p] = generation
    <3>1. flags' = flags \cup {pushed[p]} /\ posted' = TRUE
      BY <2>3
    <3>q. QED BY <2>1, <3>1
  <2>q. QED BY <2>2, <2>3
<1>2. CASE ticket[p] # generation \/ posted
  <2>1. \A g \in Generations : Posting(g)' = Posting(g)
    BY <1>2 DEF Posting
  <2>2. \A g \in Generations : (Awake(g)' <=> Awake(g)) /\ (Single(g)' <=> Single(g))
    BY <2>1 DEF Awake, Single
  <2>3. posted' = posted /\ generation' = generation
    BY <1>2
  <2>q. QED BY <1>1, <2>2, <2>3 DEF Begun, OneWakeUp
<1>3. CASE ticket[p] = generation /\ ~posted
  <2>1. pc' = [pc EXCEPT ![p] = "post"] /\ posted' /\ generation' = generation
    BY <1>3
  <2>2. Posting(generation) = {} /\ queued[generation] = 0 /\ received # generation
    BY <1>3 DEF OneWakeUp, Awake
  <2>3. Posting(generation)' = {p}
    BY <2>1, <2>2, <1>3 DEF Posting
  <2>4. \A g \in Generations \ {generation} : Posting(g)' = Posting(g)
    BY <2>1, <1>3 DEF Posting
  <2>5. \A g \in Generations \ {generation} :
          (Awake(g)' <=> Awake(g)) /\ (Single(g)' <=> Single(g))
    BY <2>4 DEF Awake, Single
  <2>6. Awake(generation)' /\ Single(generation)'
    BY <2>1, <2>2, <2>3 DEF Awake, Single
  <2>7. Begun'
    BY <2>1, <2>5 DEF Begun, Generations
  <2>8. OneWakeUp'
    BY <2>1, <2>5, <2>6 DEF OneWakeUp
  <2>q. QED BY <1>1, <2>7, <2>8
<1>q. QED BY <1>2, <1>3

\* A message that is sent moves the wake-up from its caller to the queue.
LEMMA PostMessageKeepsInv == ASSUME MailInv, NEW p \in Callers, PostMessage(p) PROVE MailInv'
<1> USE DEF MailInv, MailboxTypeOK, PostMessage, Goto, mailbox
<1>1. DEFINE g == ticket[p]
<1>2. /\ g \in Generations /\ p \in Posting(g) /\ queued[g] = 0 /\ received # g
      /\ Posting(g) = {p} /\ Single(g) /\ Awake(g)
  <2>1. g \in Generations /\ p \in Posting(g)
    BY DEF Posting
  <2>q. QED BY <2>1 DEF OneWakeUp, Single, Awake
<1>3. \A h \in Generations \ {g} : Posting(h)' = Posting(h) /\ queued'[h] = queued[h]
  BY DEF Posting
<1>4. \A h \in Generations \ {g} : (Awake(h)' <=> Awake(h)) /\ (Single(h)' <=> Single(h))
  BY <1>3 DEF Awake, Single
<1>5. CASE Goto(p, "failed") /\ UNCHANGED queued
  <2>1. Posting(g)' = Posting(g)
    BY <1>5 DEF Posting
  <2>2. Awake(g)' /\ Single(g)'
    BY <1>2, <1>5, <2>1 DEF Awake, Single
  <2>3. MailboxTypeOK'
    BY <1>5
  <2>q. QED BY <1>2, <1>4, <2>2, <2>3 DEF Begun, OneWakeUp
<1>6. CASE queued' = [queued EXCEPT ![g] = @ + 1] /\ Goto(p, "idle")
  <2>1. Posting(g)' = {} /\ queued'[g] = 1
    BY <1>2, <1>6 DEF Posting
  <2>2. Awake(g)' /\ Single(g)'
    BY <1>2, <1>6, <2>1 DEF Awake, Single
  <2>3. MailboxTypeOK'
    <3>1. queued' \in [Generations -> 0..1]
      BY <1>2, <1>6
    <3>q. QED BY <1>6, <3>1
  <2>q. QED BY <1>2, <1>4, <2>2, <2>3 DEF Begun, OneWakeUp
<1>q. QED BY <1>5, <1>6

\* A failed post gives its wake-up up, and the flag with it.
LEMMA PostFailedKeepsInv == ASSUME MailInv, NEW p \in Callers, PostFailed(p) PROVE MailInv'
<1> USE DEF MailInv, MailboxTypeOK, PostFailed, Goto, window
<1>1. DEFINE g == ticket[p]
<1>2. g \in Generations /\ Posting(g) = {p} /\ queued[g] = 0 /\ received # g /\ Awake(g)
  <2>1. g \in Generations /\ p \in Posting(g)
    BY DEF Posting
  <2>q. QED BY <2>1 DEF OneWakeUp, Single, Awake
<1>3. Posting(g)' = {}
  BY <1>2 DEF Posting
<1>4. \A h \in Generations \ {g} : Posting(h)' = Posting(h)
  BY DEF Posting
<1>5. \A h \in Generations \ {g} : (Awake(h)' <=> Awake(h)) /\ (Single(h)' <=> Single(h))
  BY <1>4 DEF Awake, Single
<1>6. ~Awake(g)' /\ Single(g)'
  BY <1>2, <1>3 DEF Awake, Single
<1>7. MailboxTypeOK'
  OBVIOUS
<1>8. Begun'
  BY <1>5, <1>6 DEF Begun
<1>9. OneWakeUp'
  BY <1>2, <1>5, <1>6 DEF OneWakeUp
<1>q. QED BY <1>7, <1>8, <1>9

\* A received message keeps its wake-up.
LEMMA ReceiveKeepsInv == ASSUME MailInv, NEW g \in Generations, Receive(g) PROVE MailInv'
<1> USE DEF MailInv, MailboxTypeOK, Receive, mailbox
<1>1. queued[g] = 1 /\ Posting(g) = {} /\ received \notin Generations
  BY MailboxAssumption DEF OneWakeUp, Single, Generations
<1>2. \A h \in Generations : Posting(h)' = Posting(h)
  BY DEF Posting
<1>3. MailboxTypeOK'
  BY <1>1
<1>4. Awake(g) /\ Awake(g)' /\ Single(g)'
  BY <1>1, <1>2, <1>3 DEF Awake, Single
<1>5. \A h \in Generations \ {g} : (Awake(h)' <=> Awake(h)) /\ (Single(h)' <=> Single(h))
  BY <1>1, <1>2 DEF Awake, Single
<1>q. QED BY <1>3, <1>4, <1>5 DEF Begun, OneWakeUp

\* Take ends the wake-up; a message of a retired generation reopens nothing.
LEMMA TakeKeepsInv == ASSUME MailInv, Take PROVE MailInv'
<1> USE DEF MailInv, MailboxTypeOK, Take
<1>0. PICK r \in Generations : r = received
  OBVIOUS
<1>1. queued[r] = 0 /\ Posting(r) = {} /\ Awake(r)
  BY <1>0 DEF OneWakeUp, Single, Awake
<1>2. received' \notin Generations
  BY MailboxAssumption DEF Generations
<1>3. \A h \in Generations : Posting(h)' = Posting(h)
  BY DEF Posting
<1>4. ~Awake(r)' /\ Single(r)'
  BY <1>1, <1>2, <1>3 DEF Awake, Single
<1>5. \A h \in Generations \ {r} : (Awake(h)' <=> Awake(h)) /\ (Single(h)' <=> Single(h))
  BY <1>0, <1>2, <1>3 DEF Awake, Single
<1>6. MailboxTypeOK'
  OBVIOUS
<1>7. Begun'
  BY <1>4, <1>5 DEF Begun
<1>8. OneWakeUp'
  BY <1>0, <1>1, <1>4, <1>5 DEF OneWakeUp
<1>q. QED BY <1>6, <1>7, <1>8

\* A new generation has no wake-up yet, and the flag is clear.
LEMMA RestartKeepsInv == ASSUME MailInv, Restart PROVE MailInv'
<1> USE DEF MailInv, MailboxTypeOK, Restart, window
<1>1. generation' \in Generations /\ generation' = generation + 1
  BY MailboxAssumption DEF Generations
<1>2. \A h \in Generations : Posting(h)' = Posting(h)
  BY DEF Posting
<1>3. \A h \in Generations : (Awake(h)' <=> Awake(h)) /\ (Single(h)' <=> Single(h))
  BY <1>2 DEF Awake, Single
<1>4. ~Awake(generation')
  BY <1>1 DEF Begun, Generations
<1>5. MailboxTypeOK'
  BY <1>1
<1>6. Begun'
  BY <1>1, <1>3 DEF Begun, Generations
<1>7. \A h \in Generations : h = generation' => ~Awake(h)'
  BY <1>3, <1>4
<1>8. OneWakeUp'
  BY <1>1, <1>3, <1>7 DEF OneWakeUp
<1>q. QED BY <1>5, <1>6, <1>8

\* Every step of the specification keeps the invariant.
LEMMA MailInvIsInductive == MailInv /\ [MailboxNext]_mailboxVars => MailInv'
<1> SUFFICES ASSUME MailInv, [MailboxNext]_mailboxVars PROVE MailInv'
  OBVIOUS
<1>1. CASE \E p \in Callers : CallerStep(p)
  BY <1>1, BeginPostKeepsInv, PushKeepsInv, PostMessageKeepsInv, PostFailedKeepsInv
     DEF CallerStep
<1>2. CASE ControlStep
  BY <1>2, ReceiveKeepsInv, TakeKeepsInv, RestartKeepsInv DEF ControlStep
<1>3. CASE UNCHANGED mailboxVars
  <2>1. \A g \in Generations :
          Posting(g)' = Posting(g) /\ Awake(g)' = Awake(g) /\ Single(g)' = Single(g)
    BY <1>3 DEF mailboxVars, Posting, Awake, Single
  <2>q. QED BY <1>3, <2>1 DEF mailboxVars, MailInv, MailboxTypeOK, Begun, OneWakeUp
<1>q. QED BY <1>1, <1>2, <1>3 DEF MailboxNext

\* The invariant holds in every reachable state.
LEMMA MailInvAlways == MailboxSpec => []MailInv
  BY MailInvAtStart, MailInvIsInductive, PTL DEF MailboxSpec

\* The variables keep their types, and no generation ever has two messages in
\* the queue, for any number of callers and of restarts.
THEOREM MailboxTypeCorrect == MailboxSpec => []MailboxTypeOK
<1>1. MailInv => MailboxTypeOK
  BY DEF MailInv
<1>q. QED BY <1>1, MailInvAlways, PTL

\* The mailbox is "posted" exactly while one wake-up of its generation is on
\* its way, so a restart or a late failure never leaves it deaf.
THEOREM AlwaysOneWakeUp == MailboxSpec => []OneWakeUp
<1>1. MailInv => OneWakeUp
  BY DEF MailInv
<1>q. QED BY <1>1, MailInvAlways, PTL
-------------------------------------------------------------------------------
(* What holds of a theme transition for any number of hosts, themes, session *)
(* requests and signals, whatever times out and runs late.                   *)

(* Where DriveTransition stands, by what it has finished: the theme is off   *)
(* every thread, the subscription has ended, the queues are empty.           *)
ThemeOff == {"restore", "restoring", "stop", "drain", "draining", "site", "detach", "export",
             "load", "inactive"}
Restored == {"stop", "drain", "draining", "site", "detach", "export", "load", "recheck",
             "hosts", "inactive", "subscribe"}
Stopped == Restored \ {"stop"}
Emptied == Stopped \ {"drain", "draining"}

(* A host has no element state, and no report under way will give it one.    *)
Bare(h) == held[h] = NoTheme /\ captured[h] = NoTheme

(* TransitionTypeOK, in parts.                                                         *)
ThreadTypes ==
  /\ held \in [Threads -> MaybeTheme]
  /\ queue \in [Threads -> BOOLEAN]
  /\ ready \in [Hosts -> {"none", "release", "styled"}]
  /\ doing \in [Hosts -> {"idle", "report", "restore"}]
  /\ captured \in [Hosts -> MaybeTheme]
  /\ late \in [Hosts -> SUBSET {"restore", "drain", "init"}]
Flags == {hostWatch, watch, pending, wanted, revised, ok, exportFailed, residue,
          unread, gaveUp} \subseteq BOOLEAN
Registers ==
  /\ theme \in MaybeTheme
  /\ sub \in {"none", "advising", "live", "stopping", "quiescing", "failed"}
  /\ siteVersion \in Versions /\ session \in {0, siteVersion}
  /\ request \in [version : Versions, site : BOOLEAN]
  /\ caller \in {"idle", "stored", "called", "push", "stale"}
  /\ mail \subseteq Work \cup {"continue"}
  /\ phase \in Driving \cup {"idle"}
  /\ todo \subseteq Hosts
  /\ worker \in {"none", "export", "stop"}
  /\ notifiers \subseteq {"subscription", "worker"}
  /\ signals \in 0..MaxSignals

(* What a report can bring into being, and where.                            *)
Reports == \A h \in Hosts :
  /\ captured[h] # NoTheme => doing[h] = "report"
  /\ ready[h] # "styled" => Bare(h)
  /\ ready[h] = "none" => ~queue[h]
  /\ sub = "none" => doing[h] # "report"

(* The states in being are of the theme installed; a restore that has passed *)
(* its check finds nothing of it.                                            *)
OneTheme == theme # NoTheme =>
  /\ held[Control] \in {NoTheme, theme}
  /\ \A h \in Hosts : /\ held[h] \in {NoTheme, theme}
                      /\ captured[h] \in {NoTheme, theme}
                      /\ doing[h] = "restore" => held[h] = NoTheme

Restoring ==
  /\ phase \in ThemeOff => theme = NoTheme
  /\ phase = "restoring" /\ ok => held[Control] = NoTheme /\ \A h \in Hosts \ todo : Bare(h)
  /\ phase \in Restored => held[Control] = NoTheme /\ \A h \in Hosts : Bare(h)
  /\ phase \in Restored \ {"subscribe"} => ~hostWatch

Draining ==
  /\ phase \in Stopped => sub = "none"
  /\ phase = "draining" /\ ok => ~queue[Control] /\ \A h \in Hosts \ todo : ~queue[h]
  /\ phase \in Emptied => \A t \in Threads : ~queue[t]

(* The work of which no command tells has been seen by someone.              *)
Informed ==
  /\ caller = "stale" => siteVersion = request.version /\ ~unread /\ ~watch
  /\ phase = "recheck" /\ unread => mail \cap Work # {}

Inv == TransitionTypeOK /\ Reports /\ OneTheme /\ Restoring /\ Draining /\ Informed /\ NothingForgotten

-----------------------------------------------------------------------------
(* What each thread holds keeps its type.                                    *)
LEMMA ThreadTypesStep == ASSUME Inv, [Next]_vars PROVE ThreadTypes'
<1> USE TransitionAssumption DEF threads, service, site, outside, command, drive, export
<1>1. CASE \/ OnCommand \/ StopHostWatch \/ StopSubscription \/ StopSnapshot \/ DrainEnds
           \/ ProcessRequest \/ Detach \/ StartExport \/ SkipExport \/ LoadConfiguredTheme
           \/ Recheck \/ LogInactive \/ StartHostWatch \/ StartSubscription \/ Throw
           \/ InitializeControl \/ ControlUnavailable \/ ReadGeneration \/ PushSite \/ WorkerEnds
           \/ AdviseReturns \/ UNCHANGED vars
           \/ \E given \in BOOLEAN : RequestSessionChange(given)
           \/ \E c \in {"reload", "export"} : Signal(c)
           \/ \E n \in notifiers : Notify(n)
  <2>1. UNCHANGED <<held, queue, ready, doing, captured, late>>
    BY <1>1 DEF OnCommand, StopHostWatch, StopSubscription, StopSnapshot, DrainEnds,
           ProcessRequest, Detach, StartExport, SkipExport, LoadConfiguredTheme, Recheck,
           LogInactive, StartHostWatch, StartSubscription, Throw, RequestSessionChange,
           InitializeControl, ControlUnavailable, ReadGeneration, PushSite, Signal, Notify,
           WorkerEnds, AdviseReturns, vars, Defer, GiveUp, GoOn, PostContinue, RestartMail
  <2> QED BY <2>1 DEF Inv, TransitionTypeOK, ThreadTypes
<1> USE DEF Inv, TransitionTypeOK, ThreadTypes, Registers, MaybeTheme, Threads
<1>2. CASE RestoreOwn
  BY <1>2 DEF RestoreOwn, GoOn
<1>3. CASE DrainOwn
  BY <1>3 DEF DrainOwn, GoOn
<1>4. CASE \E h \in Hosts : RestoreOther(h)
  BY <1>4 DEF RestoreOther, Dispatching
<1>5. CASE \E h \in Hosts : RestoreTimeout(h)
  BY <1>5 DEF RestoreTimeout
<1>6. CASE \E h \in Hosts : DrainOther(h)
  BY <1>6 DEF DrainOther, Dispatching
<1>7. CASE \E h \in Hosts : DrainTimeout(h)
  BY <1>7 DEF DrainTimeout
<1>8. CASE \E h \in Hosts : InitializeHost(h)
  BY <1>8 DEF InitializeHost, GoOn, Dispatching
<1>9. CASE ReportOnControl
  BY <1>9 DEF ReportOnControl, Advised, Enabled
<1>10. CASE \E t \in Threads : QuietDrain(t)
  BY <1>10 DEF QuietDrain, Busy
<1>11. CASE \E h \in Hosts : ReportBegins(h)
  BY <1>11 DEF ReportBegins, Advised, Enabled
<1>12. CASE \E h \in Hosts : ReportEnds(h)
  BY <1>12 DEF ReportEnds, Enabled
<1>13. CASE \E h \in Hosts : LateRestore(h)
  BY <1>13 DEF LateRestore, Dispatching
<1>14. CASE \E h \in Hosts : LateRestoreActs(h)
  BY <1>14 DEF LateRestoreActs
<1>15. CASE \E h \in Hosts : LateDrain(h)
  <2>1. PICK h \in Hosts : LateDrain(h)
    BY <1>15
  <2>2. queue' \in [Threads -> BOOLEAN]
    BY <2>1 DEF LateDrain, Inv, TransitionTypeOK, Threads
  <2>3. late' \in [Hosts -> SUBSET {"restore", "drain", "init"}]
    BY <2>1 DEF LateDrain, Inv, TransitionTypeOK
  <2>4. UNCHANGED <<held, ready, doing, captured>>
    BY <2>1 DEF LateDrain
  <2> QED BY <2>2, <2>3, <2>4 DEF ThreadTypes, Inv, TransitionTypeOK
<1>16. CASE \E h \in Hosts : LateInitialize(h)
  BY <1>16 DEF LateInitialize, Dispatching
<1>17. CASE \E h \in Hosts : HostCreated(h)
  BY <1>17 DEF HostCreated, Dispatching
<1> QED BY <1>1, <1>2, <1>3, <1>4, <1>5, <1>6, <1>7, <1>8, <1>9, <1>10, <1>11, <1>12, <1>13,
       <1>14, <1>15, <1>16, <1>17 DEF Next, DriveStep, OutsideStep, HostStep, Threads

(* The flags stay Boolean.                                                   *)
LEMMA FlagsStep == ASSUME Inv, [Next]_vars PROVE Flags'
<1> USE TransitionAssumption DEF threads, service, site, outside, command, drive, export
<1>1. CASE \/ LogInactive \/ ReadGeneration \/ PushSite \/ AdviseReturns \/ ReportOnControl
           \/ UNCHANGED vars
           \/ \E given \in BOOLEAN : RequestSessionChange(given)
           \/ \E n \in notifiers : Notify(n)
           \/ \E t \in Threads : QuietDrain(t)
           \/ \E h \in Hosts : \/ RestoreOther(h) \/ InitializeHost(h) \/ ReportBegins(h)
                               \/ ReportEnds(h) \/ LateRestore(h) \/ LateRestoreActs(h) \/ LateDrain(h)
                               \/ LateInitialize(h) \/ HostCreated(h)
  <2>1. UNCHANGED <<hostWatch, watch, pending, wanted, revised, ok, exportFailed, residue, unread, gaveUp>>
    BY <1>1 DEF LogInactive, RestoreOther, InitializeHost, RequestSessionChange, ReadGeneration,
           PushSite, Notify, AdviseReturns, ReportOnControl, QuietDrain, ReportBegins,
           ReportEnds, LateRestore, LateRestoreActs, LateDrain, LateInitialize, HostCreated,
           vars, GoOn
  <2> QED BY <2>1 DEF Inv, TransitionTypeOK, Flags
<1>2. CASE OnCommand
  BY <1>2, Zenon DEF OnCommand, Inv, TransitionTypeOK, Flags
<1>3. CASE RestoreOwn
  BY <1>3, Zenon DEF RestoreOwn, GoOn, Inv, TransitionTypeOK, Flags
<1>4. CASE StopHostWatch
  BY <1>4, Zenon DEF StopHostWatch, GoOn, GiveUp, Inv, TransitionTypeOK, Flags
<1>5. CASE StopSubscription
  BY <1>5, Zenon DEF StopSubscription, Defer, GoOn, GiveUp, Unadvised, Inv, TransitionTypeOK, Flags
<1>6. CASE StopSnapshot
  BY <1>6, Zenon DEF StopSnapshot, GiveUp, Defer, Inv, TransitionTypeOK, Flags
<1>7. CASE DrainOwn
  BY <1>7, Zenon DEF DrainOwn, GoOn, Inv, TransitionTypeOK, Flags
<1>8. CASE DrainEnds
  BY <1>8, Zenon DEF DrainEnds, GoOn, GiveUp, Inv, TransitionTypeOK, Flags
<1>9. CASE ProcessRequest
  BY <1>9, Zenon DEF ProcessRequest, GoOn, GiveUp, Inv, TransitionTypeOK, Flags
<1>10. CASE Detach
  BY <1>10, Zenon DEF Detach, PostContinue, RestartMail, Inv, TransitionTypeOK, Flags
<1>11. CASE StartExport
  BY <1>11, Zenon DEF StartExport, Inv, TransitionTypeOK, Flags
<1>12. CASE SkipExport
  BY <1>12, Zenon DEF SkipExport, GoOn, Inv, TransitionTypeOK, Flags
<1>13. CASE LoadConfiguredTheme
  BY <1>13, Zenon DEF LoadConfiguredTheme, Inv, TransitionTypeOK, Flags
<1>14. CASE Recheck
  BY <1>14, Zenon DEF Recheck, PostContinue, Inv, TransitionTypeOK, Flags
<1>15. CASE StartHostWatch
  BY <1>15, Zenon DEF StartHostWatch, GoOn, Inv, TransitionTypeOK, Flags
<1>16. CASE StartSubscription
  BY <1>16, Zenon DEF StartSubscription, GoOn, Inv, TransitionTypeOK, Flags
<1>17. CASE Throw
  BY <1>17, Zenon DEF Throw, GiveUp, Inv, TransitionTypeOK, Flags
<1>18. CASE \E h \in Hosts : RestoreTimeout(h)
  BY <1>18, Zenon DEF RestoreTimeout, Inv, TransitionTypeOK, Flags
<1>19. CASE \E h \in Hosts : DrainOther(h)
  BY <1>19, Zenon DEF DrainOther, Dispatching, Inv, TransitionTypeOK, Flags
<1>20. CASE \E h \in Hosts : DrainTimeout(h)
  BY <1>20, Zenon DEF DrainTimeout, Inv, TransitionTypeOK, Flags
<1>21. CASE InitializeControl
  BY <1>21, Zenon DEF InitializeControl, Pumping, Inv, TransitionTypeOK, Flags
<1>22. CASE ControlUnavailable
  BY <1>22, Zenon DEF ControlUnavailable, Inv, TransitionTypeOK, Flags
<1>23. CASE \E c \in {"reload", "export"} : Signal(c)
  BY <1>23, Zenon DEF Signal, Inv, TransitionTypeOK, Flags
<1>24. CASE WorkerEnds
  BY <1>24, Zenon DEF WorkerEnds, Inv, TransitionTypeOK, Flags
<1> QED BY <1>1, <1>2, <1>3, <1>4, <1>5, <1>6, <1>7, <1>8, <1>9, <1>10, <1>11, <1>12, <1>13,
       <1>14, <1>15, <1>16, <1>17, <1>18, <1>19, <1>20, <1>21, <1>22, <1>23, <1>24 DEF Next,
       DriveStep, OutsideStep, HostStep, Threads

(* The registers of the transition keep their types.                         *)
LEMMA RegistersStep == ASSUME Inv, [Next]_vars PROVE Registers'
<1> USE TransitionAssumption DEF threads, service, site, outside, command, drive, export
<1>1. CASE \/ UNCHANGED vars
           \/ \E t \in Threads : QuietDrain(t)
           \/ \E h \in Hosts : \/ ReportBegins(h) \/ LateRestore(h) \/ LateRestoreActs(h)
                               \/ LateDrain(h) \/ LateInitialize(h) \/ HostCreated(h)
  <2>1. UNCHANGED <<theme, sub, siteVersion, session, request, caller, mail, phase, todo, worker, notifiers, signals>>
    BY <1>1 DEF QuietDrain, ReportBegins, LateRestore, LateRestoreActs, LateDrain,
           LateInitialize, HostCreated, vars
  <2> QED BY <2>1 DEF Inv, TransitionTypeOK, Registers
<1> USE DEF Inv, TransitionTypeOK, Registers, MaybeTheme, Versions, Work, Driving
<1>2. CASE OnCommand
  BY <1>2 DEF OnCommand
<1>3. CASE RestoreOwn
  BY <1>3 DEF RestoreOwn, GoOn
<1>4. CASE StopHostWatch
  BY <1>4 DEF StopHostWatch, GoOn, GiveUp
<1>5. CASE StopSubscription
  BY <1>5 DEF StopSubscription, Defer, GoOn, GiveUp, Unadvised
<1>6. CASE StopSnapshot
  BY <1>6 DEF StopSnapshot, GiveUp, Defer
<1>7. CASE DrainOwn
  BY <1>7 DEF DrainOwn, GoOn
<1>8. CASE DrainEnds
  BY <1>8 DEF DrainEnds, GoOn, GiveUp
<1>9. CASE ProcessRequest
  BY <1>9 DEF ProcessRequest, GoOn, GiveUp
<1>10. CASE Detach
  BY <1>10 DEF Detach, PostContinue, RestartMail
<1>11. CASE StartExport
  BY <1>11 DEF StartExport
<1>12. CASE SkipExport
  BY <1>12 DEF SkipExport, GoOn
<1>13. CASE LoadConfiguredTheme
  BY <1>13 DEF LoadConfiguredTheme
<1>14. CASE Recheck
  BY <1>14 DEF Recheck, PostContinue
<1>15. CASE LogInactive
  BY <1>15 DEF LogInactive, GoOn
<1>16. CASE StartHostWatch
  BY <1>16 DEF StartHostWatch, GoOn
<1>17. CASE StartSubscription
  BY <1>17 DEF StartSubscription, GoOn
<1>18. CASE Throw
  BY <1>18 DEF Throw, GiveUp
<1>19. CASE \E h \in Hosts : RestoreOther(h)
  BY <1>19 DEF RestoreOther, Dispatching
<1>20. CASE \E h \in Hosts : RestoreTimeout(h)
  BY <1>20 DEF RestoreTimeout
<1>21. CASE \E h \in Hosts : DrainOther(h)
  BY <1>21 DEF DrainOther, Dispatching
<1>22. CASE \E h \in Hosts : DrainTimeout(h)
  BY <1>22 DEF DrainTimeout
<1>23. CASE \E h \in Hosts : InitializeHost(h)
  BY <1>23 DEF InitializeHost, GoOn, Dispatching
<1>24. CASE \E given \in BOOLEAN : RequestSessionChange(given)
  BY <1>24 DEF RequestSessionChange
<1>25. CASE InitializeControl
  BY <1>25 DEF InitializeControl, Pumping
<1>26. CASE ControlUnavailable
  BY <1>26 DEF ControlUnavailable
<1>27. CASE ReadGeneration
  BY <1>27 DEF ReadGeneration
<1>28. CASE PushSite
  BY <1>28 DEF PushSite
<1>29. CASE \E c \in {"reload", "export"} : Signal(c)
  BY <1>29 DEF Signal
<1>30. CASE \E n \in notifiers : Notify(n)
  BY <1>30 DEF Notify
<1>31. CASE WorkerEnds
  BY <1>31 DEF WorkerEnds
<1>32. CASE AdviseReturns
  BY <1>32 DEF AdviseReturns, Unadvised
<1>33. CASE ReportOnControl
  BY <1>33 DEF ReportOnControl, Advised, Enabled
<1>34. CASE \E h \in Hosts : ReportEnds(h)
  BY <1>34 DEF ReportEnds, Enabled
<1> QED BY <1>1, <1>2, <1>3, <1>4, <1>5, <1>6, <1>7, <1>8, <1>9, <1>10, <1>11, <1>12, <1>13,
       <1>14, <1>15, <1>16, <1>17, <1>18, <1>19, <1>20, <1>21, <1>22, <1>23, <1>24, <1>25,
       <1>26, <1>27, <1>28, <1>29, <1>30, <1>31, <1>32, <1>33, <1>34 DEF Next, DriveStep,
       OutsideStep, HostStep, Threads

(* A report under way is counted in no ended subscription, and only an       *)
(* initialized host can have element state or a theme to style with.         *)
LEMMA ReportsStep == ASSUME Inv, [Next]_vars PROVE Reports'
<1> USE TransitionAssumption DEF threads, service, site, outside, command, drive, export
<1>1. CASE \/ OnCommand \/ StopHostWatch \/ StopSnapshot \/ DrainEnds \/ ProcessRequest \/ Detach
           \/ StartExport \/ SkipExport \/ LoadConfiguredTheme \/ Recheck \/ LogInactive
           \/ StartHostWatch \/ Throw \/ InitializeControl \/ ControlUnavailable \/ ReadGeneration
           \/ PushSite \/ WorkerEnds \/ UNCHANGED vars
           \/ \E given \in BOOLEAN : RequestSessionChange(given)
           \/ \E c \in {"reload", "export"} : Signal(c)
           \/ \E n \in notifiers : Notify(n)
           \/ \E h \in Hosts : RestoreTimeout(h) \/ DrainTimeout(h)
  <2>1. UNCHANGED <<held, captured, doing, ready, queue, sub>>
    BY <1>1 DEF OnCommand, StopHostWatch, StopSnapshot, DrainEnds, ProcessRequest, Detach,
           StartExport, SkipExport, LoadConfiguredTheme, Recheck, LogInactive, StartHostWatch,
           Throw, RestoreTimeout, DrainTimeout, RequestSessionChange, InitializeControl,
           ControlUnavailable, ReadGeneration, PushSite, Signal, Notify, WorkerEnds, vars,
           Defer, GiveUp, GoOn, PostContinue, RestartMail
  <2> QED BY <2>1 DEF Inv, Reports, Bare
<1> USE DEF Inv, TransitionTypeOK, MaybeTheme, Reports, Bare, Quiet, Threads, Draining, Stopped, Restored
<1>2. CASE RestoreOwn
  BY <1>2 DEF RestoreOwn, GoOn
<1>3. CASE StopSubscription
  BY <1>3 DEF StopSubscription, Defer, GoOn, GiveUp, Unadvised
<1>4. CASE DrainOwn
  BY <1>4 DEF DrainOwn, GoOn
<1>5. CASE StartSubscription
  BY <1>5 DEF StartSubscription, GoOn
<1>6. CASE \E h \in Hosts : RestoreOther(h)
  BY <1>6 DEF RestoreOther, Dispatching
<1>7. CASE \E h \in Hosts : DrainOther(h)
  BY <1>7 DEF DrainOther, Dispatching
<1>8. CASE \E h \in Hosts : InitializeHost(h)
  BY <1>8 DEF InitializeHost, GoOn, Dispatching
<1>9. CASE AdviseReturns
  BY <1>9 DEF AdviseReturns, Unadvised
<1>10. CASE ReportOnControl
  BY <1>10 DEF ReportOnControl, Advised, Enabled
<1>11. CASE \E t \in Threads : QuietDrain(t)
  BY <1>11 DEF QuietDrain, Busy
<1>12. CASE \E h \in Hosts : ReportBegins(h)
  BY <1>12 DEF ReportBegins, Advised, Enabled
<1>13. CASE \E h \in Hosts : ReportEnds(h)
  BY <1>13 DEF ReportEnds, Enabled
<1>14. CASE \E h \in Hosts : LateRestore(h)
  BY <1>14 DEF LateRestore, Dispatching
<1>15. CASE \E h \in Hosts : LateRestoreActs(h)
  BY <1>15 DEF LateRestoreActs
<1>16. CASE \E h \in Hosts : LateDrain(h)
  BY <1>16 DEF LateDrain, Dispatching
<1>17. CASE \E h \in Hosts : LateInitialize(h)
  BY <1>17 DEF LateInitialize, Dispatching
<1>18. CASE \E h \in Hosts : HostCreated(h)
  BY <1>18 DEF HostCreated, Dispatching
<1> QED BY <1>1, <1>2, <1>3, <1>4, <1>5, <1>6, <1>7, <1>8, <1>9, <1>10, <1>11, <1>12, <1>13,
       <1>14, <1>15, <1>16, <1>17, <1>18 DEF Next, DriveStep, OutsideStep, HostStep, Threads

(* A new theme is loaded when every thread is bare; from then on a report    *)
(* can only bring that theme, and no restore that has begun earlier finds    *)
(* any of it.                                                                *)
LEMMA OneThemeStep == ASSUME Inv, [Next]_vars PROVE OneTheme'
<1> USE TransitionAssumption DEF threads, service, site, outside, command, drive, export
<1>1. CASE \/ StopHostWatch \/ StopSubscription \/ StopSnapshot \/ DrainOwn \/ DrainEnds
           \/ ProcessRequest \/ Detach \/ StartExport \/ SkipExport \/ Recheck \/ LogInactive
           \/ Throw \/ InitializeControl \/ ControlUnavailable \/ ReadGeneration \/ PushSite
           \/ WorkerEnds \/ AdviseReturns \/ UNCHANGED vars
           \/ \E given \in BOOLEAN : RequestSessionChange(given)
           \/ \E c \in {"reload", "export"} : Signal(c)
           \/ \E n \in notifiers : Notify(n)
           \/ \E t \in Threads : QuietDrain(t)
           \/ \E h \in Hosts : \/ RestoreTimeout(h) \/ DrainOther(h) \/ DrainTimeout(h) \/ LateDrain(h)
                               \/ LateInitialize(h) \/ HostCreated(h)
  <2>1. UNCHANGED <<theme, held, captured, doing>>
    BY <1>1 DEF StopHostWatch, StopSubscription, StopSnapshot, DrainOwn, DrainEnds,
           ProcessRequest, Detach, StartExport, SkipExport, Recheck, LogInactive, Throw,
           RestoreTimeout, DrainOther, DrainTimeout, RequestSessionChange, InitializeControl,
           ControlUnavailable, ReadGeneration, PushSite, Signal, Notify, WorkerEnds,
           AdviseReturns, QuietDrain, LateDrain, LateInitialize, HostCreated, vars, Defer,
           GiveUp, GoOn, PostContinue, RestartMail
  <2> QED BY <2>1 DEF Inv, OneTheme
<1> USE DEF Inv, TransitionTypeOK, MaybeTheme, OneTheme, Threads, Reports, Bare, Restoring, ThemeOff,
           Restored
<1>2. CASE OnCommand
  BY <1>2 DEF OnCommand
<1>3. CASE RestoreOwn
  BY <1>3 DEF RestoreOwn, GoOn
<1>4. CASE LoadConfiguredTheme
  BY <1>4 DEF LoadConfiguredTheme
<1>5. CASE StartHostWatch
  BY <1>5 DEF StartHostWatch, GoOn
<1>6. CASE StartSubscription
  BY <1>6 DEF StartSubscription, GoOn
<1>7. CASE \E h \in Hosts : RestoreOther(h)
  BY <1>7 DEF RestoreOther, Dispatching
<1>8. CASE \E h \in Hosts : InitializeHost(h)
  BY <1>8 DEF InitializeHost, GoOn, Dispatching
<1>9. CASE ReportOnControl
  BY <1>9 DEF ReportOnControl, Advised, Enabled
<1>10. CASE \E h \in Hosts : ReportBegins(h)
  BY <1>10 DEF ReportBegins, Advised, Enabled
<1>11. CASE \E h \in Hosts : ReportEnds(h)
  BY <1>11 DEF ReportEnds, Enabled
<1>12. CASE \E h \in Hosts : LateRestore(h)
  BY <1>12 DEF LateRestore, Dispatching
<1>13. CASE \E h \in Hosts : LateRestoreActs(h)
  BY <1>13 DEF LateRestoreActs
<1> QED BY <1>1, <1>2, <1>3, <1>4, <1>5, <1>6, <1>7, <1>8, <1>9, <1>10, <1>11, <1>12, <1>13 DEF
       Next, DriveStep, OutsideStep, HostStep, Threads

(* Each dispatch of RestoreThemeOnAllThreads leaves one more thread bare, a  *)
(* failed one clears ok, and until a subscription starts no report has a     *)
(* theme to style with.                                                      *)
LEMMA RestoringStep == ASSUME Inv, [Next]_vars PROVE Restoring'
<1> USE TransitionAssumption DEF threads, service, site, outside, command, drive, export
<1>1. CASE \/ InitializeControl \/ ControlUnavailable \/ ReadGeneration \/ PushSite \/ WorkerEnds
           \/ AdviseReturns \/ UNCHANGED vars
           \/ \E given \in BOOLEAN : RequestSessionChange(given)
           \/ \E c \in {"reload", "export"} : Signal(c)
           \/ \E n \in notifiers : Notify(n)
           \/ \E t \in Threads : QuietDrain(t)
           \/ \E h \in Hosts : LateRestore(h) \/ LateDrain(h) \/ LateInitialize(h) \/ HostCreated(h)
  <2>1. UNCHANGED <<phase, theme, ok, held, captured, todo, hostWatch>>
    BY <1>1 DEF RequestSessionChange, InitializeControl, ControlUnavailable, ReadGeneration,
           PushSite, Signal, Notify, WorkerEnds, AdviseReturns, QuietDrain, LateRestore,
           LateDrain, LateInitialize, HostCreated, vars
  <2> QED BY <2>1 DEF Inv, Restoring, Bare
<1> USE DEF Inv, TransitionTypeOK, MaybeTheme, Threads, Reports, Bare, OneTheme, Restoring, ThemeOff,
           Restored, Draining, Stopped
<1>2. CASE OnCommand
  BY <1>2 DEF OnCommand
<1>3. CASE RestoreOwn
  BY <1>3 DEF RestoreOwn, GoOn
<1>4. CASE StopHostWatch
  BY <1>4 DEF StopHostWatch, GoOn, GiveUp
<1>5. CASE StopSubscription
  BY <1>5 DEF StopSubscription, Defer, GoOn, GiveUp, Unadvised
<1>6. CASE StopSnapshot
  BY <1>6 DEF StopSnapshot, GiveUp, Defer
<1>7. CASE DrainOwn
  BY <1>7 DEF DrainOwn, GoOn
<1>8. CASE DrainEnds
  BY <1>8 DEF DrainEnds, GoOn, GiveUp
<1>9. CASE ProcessRequest
  BY <1>9 DEF ProcessRequest, GoOn, GiveUp
<1>10. CASE Detach
  BY <1>10 DEF Detach, PostContinue, RestartMail
<1>11. CASE StartExport
  BY <1>11 DEF StartExport
<1>12. CASE SkipExport
  BY <1>12 DEF SkipExport, GoOn
<1>13. CASE LoadConfiguredTheme
  BY <1>13 DEF LoadConfiguredTheme
<1>14. CASE Recheck
  BY <1>14 DEF Recheck, PostContinue
<1>15. CASE LogInactive
  BY <1>15 DEF LogInactive, GoOn
<1>16. CASE StartHostWatch
  BY <1>16 DEF StartHostWatch, GoOn
<1>17. CASE StartSubscription
  BY <1>17 DEF StartSubscription, GoOn
<1>18. CASE Throw
  BY <1>18 DEF Throw, GiveUp
<1>19. CASE \E h \in Hosts : RestoreOther(h)
  BY <1>19 DEF RestoreOther, Dispatching
<1>20. CASE \E h \in Hosts : RestoreTimeout(h)
  BY <1>20 DEF RestoreTimeout
<1>21. CASE \E h \in Hosts : DrainOther(h)
  BY <1>21 DEF DrainOther, Dispatching
<1>22. CASE \E h \in Hosts : DrainTimeout(h)
  BY <1>22 DEF DrainTimeout
<1>23. CASE \E h \in Hosts : InitializeHost(h)
  BY <1>23 DEF InitializeHost, GoOn, Dispatching
<1>24. CASE ReportOnControl
  BY <1>24 DEF ReportOnControl, Advised, Enabled
<1>25. CASE \E h \in Hosts : ReportBegins(h)
  BY <1>25 DEF ReportBegins, Advised, Enabled
<1>26. CASE \E h \in Hosts : ReportEnds(h)
  BY <1>26 DEF ReportEnds, Enabled
<1>27. CASE \E h \in Hosts : LateRestoreActs(h)
  BY <1>27 DEF LateRestoreActs
<1> QED BY <1>1, <1>2, <1>3, <1>4, <1>5, <1>6, <1>7, <1>8, <1>9, <1>10, <1>11, <1>12, <1>13,
       <1>14, <1>15, <1>16, <1>17, <1>18, <1>19, <1>20, <1>21, <1>22, <1>23, <1>24, <1>25,
       <1>26, <1>27 DEF Next, DriveStep, OutsideStep, HostStep, Threads

(* Between the end of a subscription and the next one no report fills a      *)
(* queue that DrainAllThreads has emptied.                                   *)
LEMMA DrainingStep == ASSUME Inv, [Next]_vars PROVE Draining'
<1> USE TransitionAssumption DEF threads, service, site, outside, command, drive, export
<1>1. CASE \/ InitializeControl \/ ControlUnavailable \/ ReadGeneration \/ PushSite \/ WorkerEnds
           \/ UNCHANGED vars
           \/ \E given \in BOOLEAN : RequestSessionChange(given)
           \/ \E c \in {"reload", "export"} : Signal(c)
           \/ \E n \in notifiers : Notify(n)
           \/ \E h \in Hosts : \/ ReportBegins(h) \/ LateRestore(h) \/ LateRestoreActs(h)
                               \/ LateInitialize(h) \/ HostCreated(h)
  <2>1. UNCHANGED <<phase, sub, ok, queue, todo>>
    BY <1>1 DEF RequestSessionChange, InitializeControl, ControlUnavailable, ReadGeneration,
           PushSite, Signal, Notify, WorkerEnds, ReportBegins, LateRestore, LateRestoreActs,
           LateInitialize, HostCreated, vars
  <2> QED BY <2>1 DEF Inv, Draining
<1> USE DEF Inv, TransitionTypeOK, Threads, Reports, Quiet, Draining, Stopped, Restored, Emptied
<1>2. CASE OnCommand
  BY <1>2 DEF OnCommand
<1>3. CASE RestoreOwn
  BY <1>3 DEF RestoreOwn, GoOn
<1>4. CASE StopHostWatch
  BY <1>4 DEF StopHostWatch, GoOn, GiveUp
<1>5. CASE StopSubscription
  BY <1>5 DEF StopSubscription, Defer, GoOn, GiveUp, Unadvised
<1>6. CASE StopSnapshot
  BY <1>6 DEF StopSnapshot, GiveUp, Defer
<1>7. CASE DrainOwn
  BY <1>7 DEF DrainOwn, GoOn
<1>8. CASE DrainEnds
  BY <1>8 DEF DrainEnds, GoOn, GiveUp
<1>9. CASE ProcessRequest
  BY <1>9 DEF ProcessRequest, GoOn, GiveUp
<1>10. CASE Detach
  BY <1>10 DEF Detach, PostContinue, RestartMail
<1>11. CASE StartExport
  BY <1>11 DEF StartExport
<1>12. CASE SkipExport
  BY <1>12 DEF SkipExport, GoOn
<1>13. CASE LoadConfiguredTheme
  BY <1>13 DEF LoadConfiguredTheme
<1>14. CASE Recheck
  BY <1>14 DEF Recheck, PostContinue
<1>15. CASE LogInactive
  BY <1>15 DEF LogInactive, GoOn
<1>16. CASE StartHostWatch
  BY <1>16 DEF StartHostWatch, GoOn
<1>17. CASE StartSubscription
  BY <1>17 DEF StartSubscription, GoOn
<1>18. CASE Throw
  BY <1>18 DEF Throw, GiveUp
<1>19. CASE \E h \in Hosts : RestoreOther(h)
  BY <1>19 DEF RestoreOther, Dispatching
<1>20. CASE \E h \in Hosts : RestoreTimeout(h)
  BY <1>20 DEF RestoreTimeout
<1>21. CASE \E h \in Hosts : DrainOther(h)
  BY <1>21 DEF DrainOther, Dispatching
<1>22. CASE \E h \in Hosts : DrainTimeout(h)
  BY <1>22 DEF DrainTimeout
<1>23. CASE \E h \in Hosts : InitializeHost(h)
  BY <1>23 DEF InitializeHost, GoOn, Dispatching
<1>24. CASE AdviseReturns
  BY <1>24 DEF AdviseReturns, Unadvised
<1>25. CASE ReportOnControl
  BY <1>25 DEF ReportOnControl, Advised, Enabled
<1>26. CASE \E t \in Threads : QuietDrain(t)
  BY <1>26 DEF QuietDrain, Busy
<1>27. CASE \E h \in Hosts : ReportEnds(h)
  BY <1>27 DEF ReportEnds, Enabled
<1>28. CASE \E h \in Hosts : LateDrain(h)
  BY <1>28 DEF LateDrain, Dispatching
<1> QED BY <1>1, <1>2, <1>3, <1>4, <1>5, <1>6, <1>7, <1>8, <1>9, <1>10, <1>11, <1>12, <1>13,
       <1>14, <1>15, <1>16, <1>17, <1>18, <1>19, <1>20, <1>21, <1>22, <1>23, <1>24, <1>25,
       <1>26, <1>27, <1>28 DEF Next, DriveStep, OutsideStep, HostStep, Threads

(* A caller that has lost its generation has nothing to say; a reload        *)
(* signalled after the configuration was read is still in the mailbox.       *)
LEMMA InformedStep == ASSUME Inv, [Next]_vars PROVE Informed'
<1> USE TransitionAssumption DEF threads, service, site, outside, command, drive, export
<1>1. CASE \/ WorkerEnds \/ AdviseReturns \/ ReportOnControl \/ UNCHANGED vars
           \/ \E t \in Threads : QuietDrain(t)
           \/ \E h \in Hosts : \/ RestoreOther(h) \/ RestoreTimeout(h) \/ DrainOther(h)
                               \/ DrainTimeout(h) \/ ReportBegins(h) \/ ReportEnds(h) \/ LateRestore(h)
                               \/ LateRestoreActs(h) \/ LateDrain(h) \/ LateInitialize(h)
                               \/ HostCreated(h)
  <2>1. UNCHANGED <<caller, siteVersion, request, unread, watch, phase, mail>>
    BY <1>1 DEF RestoreOther, RestoreTimeout, DrainOther, DrainTimeout, WorkerEnds,
           AdviseReturns, ReportOnControl, QuietDrain, ReportBegins, ReportEnds, LateRestore,
           LateRestoreActs, LateDrain, LateInitialize, HostCreated, vars
  <2> QED BY <2>1 DEF Inv, Informed
<1> USE DEF Inv, TransitionTypeOK, Work, Informed
<1>2. CASE OnCommand
  BY <1>2 DEF OnCommand
<1>3. CASE RestoreOwn
  BY <1>3 DEF RestoreOwn, GoOn
<1>4. CASE StopHostWatch
  BY <1>4 DEF StopHostWatch, GoOn, GiveUp
<1>5. CASE StopSubscription
  BY <1>5 DEF StopSubscription, Defer, GoOn, GiveUp, Unadvised
<1>6. CASE StopSnapshot
  BY <1>6 DEF StopSnapshot, GiveUp, Defer
<1>7. CASE DrainOwn
  BY <1>7 DEF DrainOwn, GoOn
<1>8. CASE DrainEnds
  BY <1>8 DEF DrainEnds, GoOn, GiveUp
<1>9. CASE ProcessRequest
  BY <1>9 DEF ProcessRequest, GoOn, GiveUp
<1>10. CASE Detach
  BY <1>10 DEF Detach, PostContinue, RestartMail
<1>11. CASE StartExport
  BY <1>11 DEF StartExport
<1>12. CASE SkipExport
  BY <1>12 DEF SkipExport, GoOn
<1>13. CASE LoadConfiguredTheme
  BY <1>13 DEF LoadConfiguredTheme
<1>14. CASE Recheck
  BY <1>14 DEF Recheck, PostContinue
<1>15. CASE LogInactive
  BY <1>15 DEF LogInactive, GoOn
<1>16. CASE StartHostWatch
  BY <1>16 DEF StartHostWatch, GoOn
<1>17. CASE StartSubscription
  BY <1>17 DEF StartSubscription, GoOn
<1>18. CASE Throw
  BY <1>18 DEF Throw, GiveUp
<1>19. CASE \E h \in Hosts : InitializeHost(h)
  BY <1>19 DEF InitializeHost, GoOn, Dispatching
<1>20. CASE \E given \in BOOLEAN : RequestSessionChange(given)
  BY <1>20 DEF RequestSessionChange
<1>21. CASE InitializeControl
  BY <1>21 DEF InitializeControl, Pumping
<1>22. CASE ControlUnavailable
  BY <1>22 DEF ControlUnavailable
<1>23. CASE ReadGeneration
  BY <1>23 DEF ReadGeneration
<1>24. CASE PushSite
  BY <1>24 DEF PushSite
<1>25. CASE \E c \in {"reload", "export"} : Signal(c)
  BY <1>25 DEF Signal
<1>26. CASE \E n \in notifiers : Notify(n)
  BY <1>26 DEF Notify
<1> QED BY <1>1, <1>2, <1>3, <1>4, <1>5, <1>6, <1>7, <1>8, <1>9, <1>10, <1>11, <1>12, <1>13,
       <1>14, <1>15, <1>16, <1>17, <1>18, <1>19, <1>20, <1>21, <1>22, <1>23, <1>24, <1>25, <1>26
       DEF Next, DriveStep, OutsideStep, HostStep, Threads

(* Every step that drops a command serves it, records it in pending, or      *)
(* asks for a retry.                                                         *)
LEMMA NothingForgottenStep == ASSUME Inv, [Next]_vars PROVE NothingForgotten'
<1> USE TransitionAssumption DEF threads, service, site, outside, command, drive, export
<1>1. CASE \/ RestoreOwn \/ DrainOwn \/ SkipExport \/ LogInactive \/ StartHostWatch
           \/ StartSubscription \/ WorkerEnds \/ AdviseReturns \/ ReportOnControl
           \/ UNCHANGED vars
           \/ \E t \in Threads : QuietDrain(t)
           \/ \E h \in Hosts : \/ RestoreOther(h) \/ RestoreTimeout(h) \/ DrainOther(h)
                               \/ DrainTimeout(h) \/ InitializeHost(h) \/ ReportBegins(h)
                               \/ ReportEnds(h) \/ LateRestore(h) \/ LateRestoreActs(h) \/ LateDrain(h)
                               \/ LateInitialize(h) \/ HostCreated(h)
  <2>1. UNCHANGED <<unread, siteVersion, request, gaveUp, pending, caller, mail>>
    BY <1>1 DEF RestoreOwn, DrainOwn, SkipExport, LogInactive, StartHostWatch,
           StartSubscription, RestoreOther, RestoreTimeout, DrainOther, DrainTimeout,
           InitializeHost, WorkerEnds, AdviseReturns, ReportOnControl, QuietDrain, ReportBegins,
           ReportEnds, LateRestore, LateRestoreActs, LateDrain, LateInitialize, HostCreated,
           vars, GoOn
  <2> QED BY <2>1 DEF Inv, NothingForgotten
<1> USE DEF Inv, TransitionTypeOK, Work, Informed, NothingForgotten
<1>2. CASE OnCommand
  BY <1>2 DEF OnCommand
<1>3. CASE StopHostWatch
  BY <1>3 DEF StopHostWatch, GoOn, GiveUp
<1>4. CASE StopSubscription
  BY <1>4 DEF StopSubscription, Defer, GoOn, GiveUp, Unadvised
<1>5. CASE StopSnapshot
  BY <1>5 DEF StopSnapshot, GiveUp, Defer
<1>6. CASE DrainEnds
  BY <1>6 DEF DrainEnds, GoOn, GiveUp
<1>7. CASE ProcessRequest
  BY <1>7 DEF ProcessRequest, GoOn, GiveUp
<1>8. CASE Detach
  BY <1>8 DEF Detach, PostContinue, RestartMail
<1>9. CASE StartExport
  BY <1>9 DEF StartExport
<1>10. CASE LoadConfiguredTheme
  BY <1>10 DEF LoadConfiguredTheme
<1>11. CASE Recheck
  BY <1>11 DEF Recheck, PostContinue
<1>12. CASE Throw
  BY <1>12 DEF Throw, GiveUp
<1>13. CASE \E given \in BOOLEAN : RequestSessionChange(given)
  BY <1>13 DEF RequestSessionChange
<1>14. CASE InitializeControl
  BY <1>14 DEF InitializeControl, Pumping
<1>15. CASE ControlUnavailable
  BY <1>15 DEF ControlUnavailable
<1>16. CASE ReadGeneration
  BY <1>16 DEF ReadGeneration
<1>17. CASE PushSite
  BY <1>17 DEF PushSite
<1>18. CASE \E c \in {"reload", "export"} : Signal(c)
  BY <1>18 DEF Signal
<1>19. CASE \E n \in notifiers : Notify(n)
  BY <1>19 DEF Notify
<1> QED BY <1>1, <1>2, <1>3, <1>4, <1>5, <1>6, <1>7, <1>8, <1>9, <1>10, <1>11, <1>12, <1>13,
       <1>14, <1>15, <1>16, <1>17, <1>18, <1>19 DEF Next, DriveStep, OutsideStep, HostStep,
       Threads

-----------------------------------------------------------------------------
LEMMA InitInv == Init => Inv
<1> SUFFICES ASSUME Init PROVE Inv
  OBVIOUS
<1> USE TransitionAssumption DEF Init, Threads
<1>1. ThreadTypes
  BY DEF ThreadTypes, MaybeTheme
<1>2. Flags
  BY Zenon DEF Flags
<1>3. Registers
  BY DEF Registers, MaybeTheme, Versions
<1>4. Reports /\ OneTheme
  BY DEF Reports, Bare, OneTheme
<1>5. Restoring /\ Draining
  BY DEF Restoring, ThemeOff, Restored, Draining, Stopped, Emptied
<1>6. Informed /\ NothingForgotten
  BY DEF Informed, NothingForgotten
<1> QED BY <1>1, <1>2, <1>3, <1>4, <1>5, <1>6
        DEF Inv, TransitionTypeOK, ThreadTypes, Flags, Registers

LEMMA StepInv == Inv /\ [Next]_vars => Inv'
<1> SUFFICES ASSUME Inv, [Next]_vars PROVE Inv'
  OBVIOUS
<1>1. TransitionTypeOK'
  BY ThreadTypesStep, FlagsStep, RegistersStep DEF TransitionTypeOK, ThreadTypes, Flags, Registers
<1> QED BY <1>1, ReportsStep, OneThemeStep, RestoringStep, DrainingStep, InformedStep,
           NothingForgottenStep DEF Inv

LEMMA Invariance == Spec => []Inv
BY InitInv, StepInv, PTL DEF Spec

-----------------------------------------------------------------------------
(* Every register, flag and thread of the transition keeps to its type      *)
(* (theme_session.cpp, whatever the commands and timeouts).                 *)
THEOREM TransitionTypeCorrect == Spec => []TransitionTypeOK
<1>1. Inv => TransitionTypeOK
  BY DEF Inv
<1> QED BY <1>1, Invariance, PTL

(* No thread keeps the state of another theme than the installed one, however *)
(* many hosts fail to answer RestoreThemeOnAllThreads, answer late, or are    *)
(* initialized late.                                                          *)
THEOREM OneThemeAlways == Spec => []OneThemeAtATime
<1>1. Inv => OneThemeAtATime
  BY DEF Inv, OneTheme, OneThemeAtATime, Threads
<1> QED BY <1>1, Invariance, PTL

(* What DriveTransition logs when it ends without a theme is true.          *)
THEOREM InactiveAlwaysClean == Spec => []InactiveIsClean
<1>1. Inv => InactiveIsClean
  BY DEF Inv, Restoring, ThemeOff, Restored, Draining, Stopped, Emptied, Bare, InactiveIsClean,
         Threads
<1> QED BY <1>1, Invariance, PTL

(* A session request or a reload is served, on its way or reported as        *)
(* failed, whatever commands a restart of the mailbox drops (OnCommand,      *)
(* StopReloadWatch, RequestSessionChange).                                   *)
THEOREM NothingEverForgotten == Spec => []NothingForgotten
<1>1. Inv => NothingForgotten
  BY DEF Inv
<1> QED BY <1>1, Invariance, PTL

(* The diagnostics session changes only after its subscription has ended,    *)
(* its callbacks have left and its handles are released (ProcessRequest in   *)
(* DriveTransition).                                                         *)
THEOREM SessionAlwaysOutlivesHandles == Spec => SessionOutlivesHandles
<1>1. ASSUME Inv, [Next]_vars, session' # session
      PROVE  Drained /\ sub = "none"
  <2>1. ProcessRequest
    BY <1>1
       DEF OnCommand, RestoreOwn, StopHostWatch, StopSubscription, StopSnapshot, DrainOwn,
           DrainEnds, Detach, StartExport, SkipExport, LoadConfiguredTheme, Recheck,
           LogInactive, StartHostWatch, StartSubscription, Throw, RestoreOther, RestoreTimeout,
           DrainOther, DrainTimeout, InitializeHost, RequestSessionChange, InitializeControl,
           ControlUnavailable, ReadGeneration, PushSite, Signal, Notify, WorkerEnds,
           AdviseReturns, ReportOnControl, QuietDrain, ReportBegins, ReportEnds, LateRestore,
           LateRestoreActs, LateDrain, LateInitialize, HostCreated, vars, GoOn, GiveUp, Defer,
           PostContinue, RestartMail, Next, DriveStep, OutsideStep, HostStep, threads, site
  <2> QED BY <1>1, <2>1
          DEF ProcessRequest, Inv, Reports, Draining, Stopped, Restored, Emptied, Drained, Quiet
<1>2. Inv /\ [Next]_vars => [session' # session => Drained /\ sub = "none"]_vars
  BY <1>1
<1> QED BY <1>2, Invariance, PTL DEF Spec, SessionOutlivesHandles

(* A RestoreThunk that runs long after its send timed out, or acts after its *)
(* check, never takes an installed theme off a thread.                       *)
THEOREM LateRestoreAlwaysHarmless == Spec => LateRestoreIsHarmless
<1> DEFINE A == \A t \in Threads : held[t] # NoTheme /\ held'[t] = NoTheme => theme = NoTheme
<1>1. ASSUME Inv, [Next]_vars, NEW t \in Threads, held[t] # NoTheme, held'[t] = NoTheme
      PROVE  theme = NoTheme
  <2> USE TransitionAssumption DEF Threads
  <2>1. CASE RestoreOwn
    BY <1>1, <2>1 DEF RestoreOwn, Inv, Restoring, ThemeOff
  <2>2. CASE \E h \in Hosts : RestoreOther(h)
    BY <1>1, <2>2 DEF RestoreOther, Inv, Restoring, ThemeOff
  <2>3. CASE \E h \in Hosts : LateRestoreActs(h)
    BY <1>1, <2>3 DEF LateRestoreActs, Inv, TransitionTypeOK, OneTheme
  <2>4. CASE \E h \in Hosts : ReportEnds(h)
    BY <1>1, <2>4 DEF ReportEnds, Inv, TransitionTypeOK
  <2>5. CASE ReportOnControl
    BY <1>1, <2>5 DEF ReportOnControl, Inv, TransitionTypeOK
  <2>6. CASE UNCHANGED held
    BY <1>1, <2>6
  <2> QED BY <1>1, <2>1, <2>2, <2>3, <2>4, <2>5, <2>6
          DEF OnCommand, StopHostWatch, StopSubscription, StopSnapshot, DrainOwn, DrainEnds,
              ProcessRequest, Detach, StartExport, SkipExport, LoadConfiguredTheme, Recheck,
              LogInactive, StartHostWatch, StartSubscription, Throw, RestoreTimeout, DrainOther,
              DrainTimeout, InitializeHost, RequestSessionChange, InitializeControl,
              ControlUnavailable, ReadGeneration, PushSite, Signal, Notify, WorkerEnds,
              AdviseReturns, QuietDrain, ReportBegins, LateRestore, LateDrain, LateInitialize,
              HostCreated, vars, GoOn, GiveUp, Defer, PostContinue, RestartMail, Next, DriveStep,
              OutsideStep, HostStep, threads, site
<1>2. Inv /\ [Next]_vars => [A]_vars
  BY <1>1
<1> QED BY <1>2, Invariance, PTL DEF Spec, LateRestoreIsHarmless
================================================================================
