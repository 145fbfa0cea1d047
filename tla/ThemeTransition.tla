--------------------------- MODULE ThemeTransition --------------------------
(***************************************************************************)
(* How a theme is taken off and put on: DriveTransition and what it calls  *)
(* (src/tap/theme_session.cpp), on the control thread, among the UI        *)
(* threads that style elements (style_engine.cpp) and queue handles for    *)
(* release (release_queue.cpp), the threads that request a session, signal *)
(* a command or finish an export, and synchronous sends that time out and  *)
(* may still run much later (thread_init.cpp).                             *)
(*                                                                         *)
(* The mailbox and the subscription are the summaries that CommandMailbox  *)
(* and Subscription justify: a set of commands, taken by one message, whose *)
(* post does not fail; and the phases of one subscription.  What an element *)
(* looks like is left out: a thread holds the state of a theme, or none.   *)
(* A report on the control thread is one step, on another thread two.      *)
(***************************************************************************)
EXTENDS Naturals, FiniteSets

CONSTANTS Hosts,       \* UI threads of XAML hosts other than the control thread
          Control,     \* the taskbar's UI thread
          Themes,      \* prepared themes, one object per load
          NoTheme,
          MaxVersion,  \* bounds the calls of SetSite
          MaxSignals   \* bounds the reload and export signals

ASSUME TransitionAssumption == /\ Control \notin Hosts /\ NoTheme \notin Themes
                               /\ MaxVersion \in Nat /\ MaxSignals \in Nat

VARIABLES
  theme,       \* g_theme
  held,        \* per thread: the theme whose element state it keeps (t_state)
  queue,       \* per thread: handles wait for release (t_pending not empty)
  ready,       \* per host: no window, a release-only window, or initialized
  doing,       \* per host: idle, in a report, or past the check of RestoreThunk
  captured,    \* per host: the theme its report styles with
  late,        \* per host: thunks whose send timed out and that may still run
  sub,         \* the published subscription
  hostWatch,   \* the hook for new XAML hosts is installed
  session,     \* the version of the open diagnostics session, 0 if none
  siteVersion, \* t_site_version, the version last processed
  request,     \* g_site_request
  caller,      \* RequestSessionChange: where the caller stands
  watch,       \* the reload and export events are watched
  mail,        \* commands in the mailbox
  pending,     \* t_pending_transition
  wanted,      \* t_export_requested
  revised,     \* t_command_revision changed since DriveTransition began
  phase,       \* where DriveTransition stands
  todo,        \* threads its current loop has not dispatched to
  ok,          \* no dispatch of the loop failed
  worker,      \* the running export worker
  exportFailed,\* g_export_result holds a failure
  residue,     \* SnapshotNeedsStop
  notifiers,   \* who is about to post a continuation
  signals,     \* counts the signals
  unread,      \* a reload was signalled after the configuration was last read
  gaveUp       \* the last transition ended with an error that asks for a retry

threads == <<held, queue, ready, doing, captured, late>>
service == <<sub, hostWatch>>
site == <<session, siteVersion>>
outside == <<request, caller, watch, signals>>
command == <<mail, pending, wanted, revised, unread, gaveUp>>
drive == <<phase, todo, ok>>
export == <<worker, exportFailed, residue>>

vars == <<theme, threads, service, site, outside, command, drive, export, notifiers>>

Threads == Hosts \cup {Control}
MaybeTheme == Themes \cup {NoTheme}
Versions == 0..MaxVersion
Work == {"reload", "export", "site"}
Driving == {"restore", "restoring", "stop", "drain", "draining", "site", "detach",
            "export", "load", "recheck", "hosts", "watch", "subscribe", "inactive"}

TransitionTypeOK ==
  /\ theme \in MaybeTheme
  /\ held \in [Threads -> MaybeTheme]
  /\ queue \in [Threads -> BOOLEAN]
  /\ ready \in [Hosts -> {"none", "release", "styled"}]
  /\ doing \in [Hosts -> {"idle", "report", "restore"}]
  /\ captured \in [Hosts -> MaybeTheme]
  /\ late \in [Hosts -> SUBSET {"restore", "drain", "init"}]
  /\ sub \in {"none", "advising", "live", "stopping", "quiescing", "failed"}
  /\ {hostWatch, watch, pending, wanted, revised, ok, exportFailed, residue,
      unread, gaveUp} \subseteq BOOLEAN
  /\ siteVersion \in Versions /\ session \in {0, siteVersion}
  /\ request \in [version : Versions, site : BOOLEAN]
  /\ caller \in {"idle", "stored", "called", "push", "stale"}
  /\ mail \subseteq Work \cup {"continue"}
  /\ phase \in Driving \cup {"idle"}
  /\ todo \subseteq Hosts
  /\ worker \in {"none", "export", "stop"}
  /\ notifiers \subseteq {"subscription", "worker"}
  /\ signals \in 0..MaxSignals

Init ==
  /\ theme = NoTheme
  /\ held = [t \in Threads |-> NoTheme]
  /\ queue = [t \in Threads |-> FALSE]
  /\ ready = [h \in Hosts |-> "none"]
  /\ doing = [h \in Hosts |-> "idle"]
  /\ captured = [h \in Hosts |-> NoTheme]
  /\ late = [h \in Hosts |-> {}]
  /\ sub = "none" /\ hostWatch = FALSE
  /\ session = 0 /\ siteVersion = 0
  /\ request = [version |-> 0, site |-> FALSE]
  /\ caller = "idle" /\ watch = FALSE
  /\ mail = {} /\ pending = FALSE /\ wanted = FALSE /\ revised = FALSE
  /\ phase = "idle" /\ todo = {} /\ ok = TRUE
  /\ worker = "none" /\ exportFailed = FALSE /\ residue = FALSE
  /\ notifiers = {}
  /\ signals = 0 /\ unread = FALSE /\ gaveUp = FALSE

-----------------------------------------------------------------------------
(* Requests, commands and completions, from other threads.                 *)

\* SetSite stores a new request; null asks to detach.
RequestSessionChange(given) ==
  /\ caller = "idle"
  /\ request.version < MaxVersion
  /\ request' = [version |-> request.version + 1, site |-> given]
  /\ caller' = "stored"
  /\ UNCHANGED <<theme, threads, service, site, watch, signals, command, drive,
                 export, notifiers>>

\* RestartMail retires the commands and the caller that has read the generation.
RestartMail == /\ mail' = {}
           /\ caller' = IF caller = "push" THEN "stale" ELSE caller

\* The control thread dispatches a sent message: it is idle, or waits in a send.
Pumping == phase = "idle" \/ (phase \in {"restoring", "draining", "hosts"} /\ todo # {})

\* InitializeControl, sent to the control thread: StartReloadWatch restarts the
\* mailbox unless the events are watched already, and may fail after that.
InitializeControl ==
  /\ caller = "stored"
  /\ Pumping
  /\ \/ /\ watch
        /\ caller' = "called"
        /\ UNCHANGED <<mail, watch>>
     \/ /\ ~watch
        /\ mail' = {}
        /\ watch' \in BOOLEAN
        /\ caller' = "called"
  /\ UNCHANGED <<theme, threads, service, site, request, signals, pending, wanted,
                 revised, unread, gaveUp, drive, export, notifiers>>

\* The send failed: the request is retained, without a command.
ControlUnavailable ==
  /\ caller = "stored"
  /\ caller' = "idle"
  /\ gaveUp' = TRUE
  /\ UNCHANGED <<theme, threads, service, site, request, watch, signals, mail, pending,
                 wanted, revised, unread, drive, export, notifiers>>

\* The generation is read...
ReadGeneration ==
  /\ caller = "called"
  /\ caller' = "push"
  /\ UNCHANGED <<theme, threads, service, site, request, watch, signals, command, drive,
                 export, notifiers>>

\* ... and the command pushed, unless the generation is retired by then.
PushSite ==
  /\ caller \in {"push", "stale"}
  /\ mail' = IF caller = "push" THEN mail \cup {"site"} ELSE mail
  /\ caller' = "idle"
  /\ UNCHANGED <<theme, threads, service, site, request, watch, signals, pending, wanted,
                 revised, unread, gaveUp, drive, export, notifiers>>

\* OnCommandSignaled, for the reload or the export event.
Signal(c) ==
  /\ watch
  /\ signals < MaxSignals
  /\ signals' = signals + 1
  /\ mail' = mail \cup {c}
  /\ unread' = (unread \/ c = "reload")
  /\ UNCHANGED <<theme, threads, service, site, request, caller, watch, pending, wanted,
                 revised, gaveUp, drive, export, notifiers>>

\* NotifyContinuation.
Notify(n) ==
  /\ n \in notifiers
  /\ notifiers' = notifiers \ {n}
  /\ mail' = mail \cup {"continue"}
  /\ UNCHANGED <<theme, threads, service, site, outside, pending, wanted, revised, unread,
                 gaveUp, drive, export>>

\* A mutant: the worker ends without a continuation.
WorkerEndsSilently ==
  /\ worker # "none"
  /\ worker' = "none"
  /\ residue' = FALSE
  /\ exportFailed' \in BOOLEAN
  /\ UNCHANGED <<theme, threads, service, site, outside, command, drive, notifiers>>

\* The export worker's result: a residue makes it a failure.
WorkerEnds ==
  /\ worker # "none"
  /\ worker' = "none"
  /\ \/ residue' = FALSE /\ exportFailed' \in BOOLEAN
     \/ residue' = TRUE /\ exportFailed' = TRUE
  /\ notifiers' = notifiers \cup {"worker"}
  /\ UNCHANGED <<theme, threads, service, site, outside, command, drive>>

-----------------------------------------------------------------------------
(* The UI threads.                                                         *)

\* XAML enters the callback while it is advised, and it styles while enabled.
Advised == sub \in {"advising", "live", "stopping", "failed"}
Enabled == sub \in {"advising", "live"}

\* No callback is active (those of the control thread are one step).
Quiet == \A h \in Hosts : doing[h] # "report"

\* OnVisualTreeChange begins on a host; OnElementAdded takes the current theme
\* if this thread is initialized.
ReportBegins(h) ==
  /\ Advised
  /\ doing[h] = "idle"
  /\ doing' = [doing EXCEPT ![h] = "report"]
  /\ captured' = [captured EXCEPT ![h] = IF Enabled /\ ready[h] = "styled" THEN theme
                                         ELSE NoTheme]
  /\ UNCHANGED <<theme, held, queue, ready, late, service, site, outside, command, drive,
                 export, notifiers>>

\* It may match a rule, always queues its handles, and gives the thread a
\* release-only window.  The last report of a disabled callback notifies.
ReportEnds(h) ==
  /\ doing[h] = "report"
  /\ doing' = [doing EXCEPT ![h] = "idle"]
  /\ captured' = [captured EXCEPT ![h] = NoTheme]
  /\ \/ captured[h] # NoTheme /\ held' = [held EXCEPT ![h] = captured[h]]
     \/ UNCHANGED held
  /\ queue' = [queue EXCEPT ![h] = TRUE]
  /\ ready' = [ready EXCEPT ![h] = IF @ = "none" THEN "release" ELSE @]
  /\ notifiers' = IF ~Enabled /\ \A g \in Hosts \ {h} : doing[g] # "report"
                  THEN notifiers \cup {"subscription"} ELSE notifiers
  /\ UNCHANGED <<theme, late, service, site, outside, command, drive, export>>

\* A report on the control thread, between two messages or while it restores.
ReportOnControl ==
  /\ Advised
  /\ phase \in {"idle", "restore"}
  /\ queue' = [queue EXCEPT ![Control] = TRUE]
  /\ \/ Enabled /\ theme # NoTheme /\ held' = [held EXCEPT ![Control] = theme]
     \/ UNCHANGED held
  /\ notifiers' = IF ~Enabled /\ Quiet THEN notifiers \cup {"subscription"} ELSE notifiers
  /\ UNCHANGED <<theme, ready, doing, captured, late, service, site, outside, command,
                 drive, export>>

Busy(t) == IF t = Control THEN phase # "idle" ELSE doing[t] # "idle"

\* The release timer of a quiet thread drains the queue; handles whose release
\* fails, or whose element is styled, are retained.
QuietDrain(t) ==
  /\ ~Busy(t)
  /\ queue[t]
  /\ queue' = [queue EXCEPT ![t] = FALSE]
  /\ UNCHANGED <<theme, held, ready, doing, captured, late, service, site, outside,
                 command, drive, export, notifiers>>

\* Hosts where a sent message can be dispatched.
Dispatching(h) == doing[h] = "idle"

\* A mutant: a late restore does not look at the current theme.
LateRestoreUnchecked(h) ==
  /\ "restore" \in late[h]
  /\ Dispatching(h)
  /\ late' = [late EXCEPT ![h] = @ \ {"restore"}]
  /\ doing' = [doing EXCEPT ![h] = "restore"]
  /\ UNCHANGED <<theme, held, queue, ready, captured, service, site, outside, command,
                 drive, export, notifiers>>

\* RestoreThunk of a send that timed out: nothing to do under a theme.
LateRestore(h) ==
  /\ "restore" \in late[h]
  /\ Dispatching(h)
  /\ late' = [late EXCEPT ![h] = @ \ {"restore"}]
  /\ doing' = [doing EXCEPT ![h] = IF theme = NoTheme THEN "restore" ELSE @]
  /\ UNCHANGED <<theme, held, queue, ready, captured, service, site, outside, command,
                 drive, export, notifiers>>

\* RestoreAllOnThisThread, some time after the check.
LateRestoreActs(h) ==
  /\ doing[h] = "restore"
  /\ doing' = [doing EXCEPT ![h] = "idle"]
  /\ held' = [held EXCEPT ![h] = NoTheme]
  /\ UNCHANGED <<theme, queue, ready, captured, late, service, site, outside, command,
                 drive, export, notifiers>>

\* DrainThread of a send that timed out: nothing to do under a theme.  (The
\* thunks of an older drain return at once: DrainAllThreads drops them.)
LateDrain(h) ==
  /\ "drain" \in late[h]
  /\ Dispatching(h)
  /\ late' = [late EXCEPT ![h] = @ \ {"drain"}]
  /\ \/ theme = NoTheme /\ queue' = [queue EXCEPT ![h] = FALSE]
     \/ UNCHANGED queue
  /\ UNCHANGED <<theme, held, ready, doing, captured, service, site, outside, command,
                 drive, export, notifiers>>

\* InitializeForCurrentThread of a send that timed out.
LateInitialize(h) ==
  /\ "init" \in late[h]
  /\ Dispatching(h)
  /\ late' = [late EXCEPT ![h] = @ \ {"init"}]
  /\ ready' = [ready EXCEPT ![h] = "styled"]
  /\ UNCHANGED <<theme, held, queue, doing, captured, service, site, outside, command,
                 drive, export, notifiers>>

\* HostCreatedProc, from the control thread's message loop: the new host's
\* thread is initialized, at once or late.
HostCreated(h) ==
  /\ hostWatch
  /\ phase = "idle"
  /\ \/ Dispatching(h) /\ ready' = [ready EXCEPT ![h] = "styled"] /\ UNCHANGED late
     \/ late' = [late EXCEPT ![h] = @ \cup {"init"}] /\ UNCHANGED ready
  /\ UNCHANGED <<theme, held, queue, doing, captured, service, site, outside, command,
                 drive, export, notifiers>>

HostStep(h) == \/ ReportBegins(h) \/ ReportEnds(h) \/ QuietDrain(h)
               \/ LateRestore(h) \/ LateRestoreActs(h) \/ LateDrain(h)
               \/ LateInitialize(h) \/ HostCreated(h)

\* The advise worker returns: the subscription is live, or it is unadvised, which
\* may fail; the callbacks still inside keep it published.
Unadvised == IF Quiet THEN "none" ELSE "quiescing"

AdviseReturns ==
  /\ \/ sub = "advising" /\ sub' \in {"live", Unadvised, "failed"}
     \/ sub = "stopping" /\ sub' \in {Unadvised, "failed"}
  /\ notifiers' = notifiers \cup {"subscription"}
  /\ UNCHANGED <<theme, threads, hostWatch, site, outside, command, drive, export>>

-----------------------------------------------------------------------------
(* DriveTransition, on the control thread.                                 *)

\* The transition returns and waits for a continuation.
Defer == phase' = "idle" /\ UNCHANGED <<mail, pending, wanted, revised, unread, gaveUp>>

\* It returns with an error that asks for a retry.
GiveUp == /\ phase' = "idle"
          /\ pending' = FALSE
          /\ gaveUp' = TRUE
          /\ UNCHANGED <<mail, wanted, revised, unread>>

GoOn(next) == phase' = next /\ UNCHANGED command

\* OnCommand takes every command.  XAML may dispatch the message while a
\* transition calls it; the transition then only learns of it.
OnCommand ==
  /\ mail # {}
  /\ mail' = {}
  /\ pending' = (pending \/ mail \cap Work # {})
  /\ wanted' = (wanted \/ ("export" \in mail /\ worker # "export"))
  /\ gaveUp' = (gaveUp /\ mail \cap Work = {})
  /\ \/ /\ phase = "idle"
        /\ revised' = FALSE
        /\ IF pending' /\ worker = "none"
           THEN phase' = "restore" /\ theme' = NoTheme
           ELSE UNCHANGED <<phase, theme>>
     \/ /\ phase \in {"restore", "stop", "drain", "site", "load"}
        /\ revised' = (revised \/ mail \cap Work # {})
        /\ UNCHANGED <<phase, theme>>
  /\ UNCHANGED <<threads, service, site, outside, todo, ok, export, notifiers, unread>>

\* RestoreThemeOnAllThreads: this thread first, then every thread with a window.
RestoreOwn ==
  /\ phase = "restore"
  /\ todo' = {h \in Hosts : ready[h] # "none"}
  /\ \/ held' = [held EXCEPT ![Control] = NoTheme] /\ ok' = TRUE
     \/ ok' = FALSE /\ UNCHANGED held
  /\ GoOn("restoring")
  /\ UNCHANGED <<theme, queue, ready, doing, captured, late, service, site, outside,
                 export, notifiers>>

RestoreOther(h) ==
  /\ phase = "restoring"
  /\ h \in todo
  /\ Dispatching(h)
  /\ todo' = todo \ {h}
  /\ held' = [held EXCEPT ![h] = NoTheme]
  /\ UNCHANGED <<theme, queue, ready, doing, captured, late, service, site, outside,
                 command, phase, ok, export, notifiers>>

\* A mutant: a send that timed out counts as done.
RestoreTimeoutIgnored(h) ==
  /\ phase = "restoring"
  /\ h \in todo
  /\ todo' = todo \ {h}
  /\ late' = [late EXCEPT ![h] = @ \cup {"restore"}]
  /\ UNCHANGED <<theme, held, queue, ready, doing, captured, service, site, outside,
                 command, phase, ok, export, notifiers>>

\* RunOnWindowThread gives up; its message stays in the thread's queue.
RestoreTimeout(h) ==
  /\ phase = "restoring"
  /\ h \in todo
  /\ todo' = todo \ {h}
  /\ ok' = FALSE
  /\ late' = [late EXCEPT ![h] = @ \cup {"restore"}]
  /\ UNCHANGED <<theme, held, queue, ready, doing, captured, service, site, outside,
                 command, phase, export, notifiers>>

\* Then the host watch stops, unless it cannot be removed.
StopHostWatch ==
  /\ phase = "restoring"
  /\ todo = {}
  /\ \/ ok /\ hostWatch' = FALSE /\ GoOn("stop")
     \/ GiveUp /\ UNCHANGED hostWatch
  /\ UNCHANGED <<theme, threads, sub, site, outside, todo, ok, export, notifiers>>

\* A mutant: a stop that is deferred lets the transition go on.
StopDeferredGoesOn ==
  /\ phase = "stop"
  /\ \/ sub \in {"advising", "stopping"} /\ sub' = "stopping" /\ GoOn("drain")
     \/ sub \in {"live", "failed", "quiescing"} /\ sub' = Unadvised /\ GoOn("drain")
     \/ sub = "none" /\ GoOn("drain") /\ UNCHANGED sub
  /\ UNCHANGED <<theme, threads, hostWatch, site, outside, todo, ok, export, notifiers>>

\* StopSubscription: deferred while the advise worker or a callback is active; a
\* failed Unadvise notifies (change_subscription.cpp).
StopSubscription ==
  /\ phase = "stop"
  /\ \/ /\ sub \in {"advising", "stopping"}
        /\ sub' = "stopping"
        /\ Defer
        /\ UNCHANGED notifiers
     \/ /\ sub \in {"live", "failed", "quiescing"}
        /\ sub' = Unadvised
        /\ IF Quiet THEN GoOn("drain") ELSE Defer
        /\ notifiers' = IF Quiet THEN notifiers \cup {"subscription"} ELSE notifiers
     \/ /\ sub \in {"live", "failed"}
        /\ sub' = "failed"
        /\ GiveUp
        /\ notifiers' = notifiers \cup {"subscription"}
     \/ /\ sub = "none"
        /\ GoOn("drain")
        /\ UNCHANGED <<sub, notifiers>>
  /\ UNCHANGED <<theme, threads, hostWatch, site, outside, todo, ok, export>>

\* A snapshot left behind is stopped by a worker first, once per command.
StopSnapshot ==
  /\ phase = "drain"
  /\ residue
  /\ \/ exportFailed /\ exportFailed' = FALSE /\ GiveUp /\ UNCHANGED worker
     \/ ~exportFailed /\ worker' = "stop" /\ Defer /\ UNCHANGED exportFailed
     \/ ~exportFailed /\ exportFailed' = TRUE /\ GiveUp /\ UNCHANGED worker
  /\ UNCHANGED <<theme, threads, service, site, outside, todo, ok, residue, notifiers>>

\* DrainAllThreads: a new generation retires the late drains; this thread's queue
\* first, then every thread with a window.
DrainOwn ==
  /\ phase = "drain"
  /\ ~residue
  /\ todo' = {h \in Hosts : ready[h] # "none"}
  /\ late' = [h \in Hosts |-> late[h] \ {"drain"}]
  /\ \/ queue' = [queue EXCEPT ![Control] = FALSE] /\ ok' = TRUE
     \/ queue[Control] /\ ok' = FALSE /\ UNCHANGED queue
  /\ GoOn("draining")
  /\ UNCHANGED <<theme, held, ready, doing, captured, service, site, outside, export,
                 notifiers>>

DrainOther(h) ==
  /\ phase = "draining"
  /\ h \in todo
  /\ Dispatching(h)
  /\ todo' = todo \ {h}
  /\ \/ queue' = [queue EXCEPT ![h] = FALSE] /\ UNCHANGED ok
     \/ queue[h] /\ ok' = FALSE /\ UNCHANGED queue
  /\ UNCHANGED <<theme, held, ready, doing, captured, late, service, site, outside,
                 command, phase, export, notifiers>>

DrainTimeout(h) ==
  /\ phase = "draining"
  /\ h \in todo
  /\ todo' = todo \ {h}
  /\ ok' = FALSE
  /\ late' = [late EXCEPT ![h] = @ \cup {"drain"}]
  /\ UNCHANGED <<theme, held, queue, ready, doing, captured, service, site, outside,
                 command, phase, export, notifiers>>

\* A mutant: retained handles do not stop the transition.
DrainEndsAnyway ==
  /\ phase = "draining"
  /\ todo = {}
  /\ GoOn("site")
  /\ UNCHANGED <<theme, threads, service, site, outside, todo, ok, export, notifiers>>

DrainEnds ==
  /\ phase = "draining"
  /\ todo = {}
  /\ IF ok THEN GoOn("site") ELSE GiveUp
  /\ UNCHANGED <<theme, threads, service, site, outside, todo, ok, export, notifiers>>

\* The latest request is processed once: its session replaces the old one, and an
\* export is requested with it.  OpenDiagnostics may fail.
ProcessRequest ==
  /\ phase = "site"
  /\ LET changed == \/ request.version # siteVersion
                    \/ request.site /\ session = 0
     IN \/ /\ changed
           /\ siteVersion' = request.version
           /\ \/ /\ request.site
                 /\ session' = request.version
                 /\ wanted' = TRUE
                 /\ phase' = "export"
                 /\ UNCHANGED <<mail, pending, revised, unread, gaveUp>>
              \/ /\ request.site
                 /\ session' = 0
                 /\ GiveUp
              \/ /\ ~request.site
                 /\ session' = 0
                 /\ GoOn("detach")
        \/ /\ ~changed
           /\ GoOn(IF request.site THEN "export" ELSE "detach")
           /\ UNCHANGED site
  /\ UNCHANGED <<theme, threads, service, outside, todo, ok, export, notifiers>>

\* PostCommand(kContinueCommand): the work is outdated, the transition goes again.
PostContinue == /\ mail' = mail \cup {"continue"}
                /\ phase' = "idle"
                /\ UNCHANGED <<pending, wanted, revised, unread, gaveUp>>

\* No session is asked for: unless that changed, StopReloadWatch ends the
\* generation of commands, with nothing left for them to do.
Detach ==
  /\ phase = "detach"
  /\ IF request.version # siteVersion \/ revised
     THEN PostContinue /\ UNCHANGED outside
     ELSE /\ phase' = "inactive"
          /\ pending' = FALSE /\ wanted' = FALSE /\ unread' = FALSE
          /\ watch' = FALSE
          /\ RestartMail
          /\ UNCHANGED <<request, signals, revised, gaveUp>>
  /\ UNCHANGED <<theme, threads, service, site, todo, ok, export, notifiers>>

\* A worker exports the tree; the transition goes on when it ends.
StartExport ==
  /\ phase = "export"
  /\ wanted
  /\ wanted' = FALSE
  /\ phase' = "idle"
  /\ \/ worker' = "export" /\ exportFailed' = FALSE /\ UNCHANGED <<pending, gaveUp>>
     \/ exportFailed' = TRUE /\ pending' = FALSE /\ gaveUp' = TRUE /\ UNCHANGED worker
  /\ UNCHANGED <<theme, threads, service, site, outside, mail, revised, unread, todo, ok,
                 residue, notifiers>>

SkipExport ==
  /\ phase = "export"
  /\ ~wanted
  /\ exportFailed' = FALSE
  /\ GoOn("load")
  /\ UNCHANGED <<theme, threads, service, site, outside, todo, ok, worker, residue,
                 notifiers>>

\* LoadConfiguredTheme prepares a theme object no thread knows yet, or installs
\* none: no theme configured, or one that is rejected.
LoadConfiguredTheme ==
  /\ phase = "load"
  /\ theme' \in {NoTheme} \cup (Themes \ ({held[t] : t \in Threads} \cup
                                          {captured[h] : h \in Hosts}))
  /\ unread' = FALSE
  /\ phase' = "recheck"
  /\ UNCHANGED <<threads, service, site, outside, mail, pending, wanted, revised, gaveUp,
                 todo, ok, export, notifiers>>

\* A mutant: only commands still in the mailbox make the work outdated.
RecheckMailOnly ==
  /\ phase = "recheck"
  /\ IF mail \cap Work # {}
     THEN PostContinue /\ UNCHANGED todo
     ELSE /\ pending' = FALSE
          /\ IF theme = NoTheme
             THEN phase' = "inactive" /\ UNCHANGED todo
             ELSE phase' = "hosts" /\ todo' \in SUBSET Hosts
          /\ UNCHANGED <<mail, wanted, revised, unread, gaveUp>>
  /\ UNCHANGED <<theme, threads, service, site, outside, ok, export, notifiers>>

\* Outdated work is not published; otherwise the transition is over, and a theme
\* is applied to the hosts there are.
Recheck ==
  /\ phase = "recheck"
  /\ IF request.version # siteVersion \/ revised \/ mail \cap Work # {}
     THEN PostContinue /\ UNCHANGED todo
     ELSE /\ pending' = FALSE
          /\ IF theme = NoTheme
             THEN phase' = "inactive" /\ UNCHANGED todo
             ELSE phase' = "hosts" /\ todo' \in SUBSET Hosts
          /\ UNCHANGED <<mail, wanted, revised, unread, gaveUp>>
  /\ UNCHANGED <<theme, threads, service, site, outside, ok, export, notifiers>>

\* The log line "TAP inactive" or "TAP detached: no subscription, host hook or
\* release timer".
LogInactive ==
  /\ phase = "inactive"
  /\ GoOn("idle")
  /\ UNCHANGED <<theme, threads, service, site, outside, todo, ok, export, notifiers>>

\* Every host is initialized; one that cannot be takes the theme back.
InitializeHost(h) ==
  /\ phase = "hosts"
  /\ h \in todo
  /\ \/ /\ Dispatching(h)
        /\ ready' = [ready EXCEPT ![h] = "styled"]
        /\ todo' = todo \ {h}
        /\ GoOn("hosts")
        /\ UNCHANGED <<theme, late>>
     \/ /\ late' = [late EXCEPT ![h] = @ \cup {"init"}]
        /\ theme' = NoTheme
        /\ GoOn("idle")
        /\ UNCHANGED <<ready, todo>>
  /\ UNCHANGED <<held, queue, doing, captured, service, site, outside, ok, export,
                 notifiers>>

StartHostWatch ==
  /\ phase = "hosts"
  /\ todo = {}
  /\ \/ hostWatch' = TRUE /\ GoOn("subscribe") /\ UNCHANGED theme
     \/ theme' = NoTheme /\ GoOn("idle") /\ UNCHANGED hostWatch
  /\ UNCHANGED <<threads, sub, site, outside, todo, ok, export, notifiers>>

\* StartSubscription may fail, even after it has published a subscription; then
\* the theme is taken back and the host watch stopped, if it can be.
StartSubscription ==
  /\ phase = "subscribe"
  /\ \/ /\ sub = "none"
        /\ sub' = "advising"
        /\ UNCHANGED <<theme, hostWatch, notifiers>>
     \/ /\ theme' = NoTheme
        /\ hostWatch' \in {FALSE, hostWatch}
        /\ \/ UNCHANGED <<sub, notifiers>>
           \/ /\ sub = "none"
              /\ sub' \in {"none", "failed"}
              /\ notifiers' = notifiers \cup {"subscription"}
  /\ GoOn("idle")
  /\ UNCHANGED <<threads, site, outside, todo, ok, export>>

\* An exception ends the transition anywhere.
Throw ==
  /\ phase \notin {"idle", "inactive", "restore"}
  /\ GiveUp
  /\ UNCHANGED <<theme, threads, service, site, outside, todo, ok, export, notifiers>>

DriveStep ==
  \/ RestoreOwn \/ StopHostWatch \/ StopSubscription \/ StopSnapshot
  \/ DrainOwn \/ DrainEnds \/ ProcessRequest \/ Detach \/ StartExport \/ SkipExport
  \/ LoadConfiguredTheme \/ Recheck \/ LogInactive \/ StartHostWatch
  \/ StartSubscription \/ Throw
  \/ \E h \in Hosts : \/ RestoreOther(h) \/ RestoreTimeout(h) \/ DrainOther(h)
                      \/ DrainTimeout(h) \/ InitializeHost(h)

OutsideStep == \/ \E given \in BOOLEAN : RequestSessionChange(given)
               \/ InitializeControl \/ ControlUnavailable \/ ReadGeneration \/ PushSite
               \/ \E c \in {"reload", "export"} : Signal(c)
               \/ \E n \in notifiers : Notify(n)
               \/ WorkerEnds \/ AdviseReturns \/ ReportOnControl \/ QuietDrain(Control)

Next == \/ OnCommand \/ DriveStep \/ OutsideStep
        \/ \E h \in Hosts : HostStep(h)

Spec == Init /\ [][Next]_vars

\* The control thread runs on and takes its messages; workers and reports end and
\* their notifications are posted; a caller that reached the control thread goes
\* on to push.  Late messages, timers, new reports and requests need not come.
Fairness == /\ WF_vars(DriveStep) /\ WF_vars(OnCommand)
            /\ WF_vars(WorkerEnds) /\ WF_vars(AdviseReturns)
            /\ WF_vars(ReadGeneration) /\ WF_vars(PushSite)
            /\ WF_vars(\E n \in notifiers : Notify(n))
            /\ \A h \in Hosts : WF_vars(ReportEnds(h)) /\ WF_vars(LateRestoreActs(h))

-----------------------------------------------------------------------------
\* A thread never keeps the state of another theme than the installed one: what
\* RestoreThemeOnAllThreads could not reach, because a send timed out or a thread
\* became reachable late, keeps the next theme from being installed.
OneThemeAtATime == theme # NoTheme => \A t \in Threads : held[t] \in {NoTheme, theme}

\* The diagnostics session is opened, replaced or closed only when no callback of
\* it is active and no thread has a handle of it to release.
Drained == Quiet /\ \A t \in Threads : ~queue[t]

SessionOutlivesHandles == [][session' # session => Drained /\ sub = "none"]_vars

\* A restore that comes late never takes an installed theme off a thread.
LateRestoreIsHarmless ==
  [][\A t \in Threads : held[t] # NoTheme /\ held'[t] = NoTheme => theme = NoTheme]_vars

\* When the code logs that the TAP is inactive or detached, it is: no theme, no
\* styled element, no subscription, no host watch and no handle left to release.
InactiveIsClean == phase = "inactive" =>
  /\ theme = NoTheme /\ sub = "none" /\ ~hostWatch
  /\ \A t \in Threads : held[t] = NoTheme /\ ~queue[t]

\* A session request or a reload that nobody has served is still on its way:
\* with its caller, in the mailbox, or in a transition that has not ended, unless
\* an error asked for a retry.
NothingForgotten ==
  (unread \/ siteVersion # request.version) /\ ~gaveUp =>
    pending \/ caller # "idle" \/ mail \cap Work # {}

\* A transition ends, and so is never left waiting for a continuation that no
\* worker, subscription or command will post.
TransitionEnds == pending ~> ~pending
=============================================================================
