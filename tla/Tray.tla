------------------------------- MODULE Tray --------------------------------
(* The tray program: its state machine (TrayStateMachine.cs), the           *)
(* controller that drives it (TrayContext.cs), its view of Explorer         *)
(* (WindowsShell.cs) and the configuration file (ConfigStore.cs) it shares  *)
(* with the command line (cli/main.cpp) and with the TAP in Explorer.       *)
(*                                                                          *)
(* The tray's handlers run on one UI thread: only a load, an export's wait  *)
(* and a restart's wait are awaited, so only there can another handler run  *)
(* in the middle of an operation.  Explorer, the TAP and the command line   *)
(* are other processes, and take steps between any two of the tray's.       *)
EXTENDS Naturals, FiniteSets

CONSTANTS
  Themes,           \* theme identifiers
  None,             \* no theme
  Torn,             \* a file that does not parse: truncated, not yet written
  MaxGenerations,   \* bound: Explorer processes, one after the other
  MaxUser,          \* bound: actions of the user
  MaxCli            \* bound: commands of the command line

ASSUME TrayAssumption ==
  /\ None \notin Themes /\ Torn \notin Themes /\ None # Torn
  /\ MaxGenerations \in Nat \ {0} /\ MaxUser \in Nat /\ MaxCli \in Nat

VARIABLES
  machine,     \* TrayStateMachine: state, pending, attempted, explorer, enabled
  op,          \* the operation under way on the UI thread (_busy, and its locals)
  coalesced,   \* _pending: the trigger kept during an operation
  posted,      \* triggers posted to the UI thread (BeginInvoke)
  selected,    \* _selectedTheme
  closing,     \* _closing
  file,        \* config.json
  shell,       \* the process of the taskbar's window, 0 when there is none
  generation,  \* Explorer processes so far
  broadcast,   \* a TaskbarCreated message waits in the tray's queue
  tap,         \* the TAP in that process: absent, loading, listening
  reread,      \* the TAP has a reload to do
  installed,   \* the theme the TAP has read last
  cli,         \* the command line: its step and the theme it writes
  users, clis, \* actions so far
  asked,       \* a trigger that allows a retry came and no attempt was made for it
  blocked,     \* processes in which an attempt failed, with no such trigger since
  accepted     \* processes that accepted a request of the tray

trayVars == <<machine, op, coalesced, posted, selected, closing>>
worldVars == <<file, shell, generation, broadcast, tap, reread, installed, cli, users, clis>>
historyVars == <<asked, blocked, accepted>>
vars == <<trayVars, worldVars, historyVars>>

Triggers == {"startup", "poll", "created", "user"}
NoOp == [kind |-> "none", trigger |-> "poll", explorer |-> 0, enabled |-> FALSE,
         action |-> "none", exit |-> FALSE]

Init ==
  /\ machine = [state |-> "inactive", pending |-> FALSE, attempted |-> FALSE,
                explorer |-> 0, enabled |-> FALSE]
  /\ op = NoOp /\ coalesced = "none" /\ posted = {"startup"}
  /\ selected = None /\ closing = FALSE
  /\ file \in Themes \cup {None}
  /\ shell \in {0, 1} /\ generation = shell
  /\ broadcast = FALSE
  /\ tap \in (IF shell = 0 THEN {"absent"} ELSE {"absent", "listening"})
  /\ installed = (IF tap = "listening" THEN file ELSE None)
  /\ reread = FALSE
  /\ cli = [step |-> "idle", theme |-> None]
  /\ users = 0 /\ clis = 0
  /\ asked = TRUE /\ blocked = {} /\ accepted = {}

-----------------------------------------------------------------------------
(* TrayStateMachine.  A request is the one of the operation under way: its  *)
(* number is `pending` itself.                                              *)

Resting(enabled) == IF enabled THEN "waiting" ELSE "inactive"

(* BeginOperation's reset, on a new process or a new taskbar.               *)
Changed(m, explorer) == m.explorer # explorer
Renewed(m, explorer, trigger, enabled) ==
  IF Changed(m, explorer) \/ trigger = "created"
  THEN [m EXCEPT !.pending = FALSE, !.attempted = FALSE, !.explorer = explorer,
                 !.state = Resting(enabled)]
  ELSE m

(* What a poll leaves alone, without the check for a failed attempt.        *)
DeclinedUnlessFailed(m, r, explorer, enabled, present) ==
  \/ r.pending
  \/ enabled /\ present /\ r.state = "active"
  \/ ~enabled /\ r.state = "inactive" /\ ~Changed(m, explorer)

(* What a poll leaves alone, an inactive tray whatever the configuration.   *)
DeclinedInactive(m, r, explorer, enabled, present) ==
  \/ r.pending \/ r.state = "failed"
  \/ enabled /\ present /\ r.state = "active"
  \/ r.state = "inactive" /\ ~Changed(m, explorer)

Declined(m, r, explorer, enabled, present) ==
  \/ r.pending \/ r.state = "failed"
  \/ enabled /\ present /\ r.state = "active"
  \/ ~enabled /\ r.state = "inactive" /\ ~Changed(m, explorer)

LostChannel(r, enabled, present) == enabled /\ ~present /\ r.attempted

(* Whether BeginOperation returns a request.                                *)
Asks(m, explorer, trigger, enabled, present) ==
  LET r == Renewed(m, explorer, trigger, enabled) IN
  /\ explorer # 0
  /\ trigger = "poll" => /\ ~Declined(m, r, explorer, enabled, present)
                         /\ ~LostChannel(r, enabled, present)
  /\ enabled \/ present

Begun(r, enabled) ==
  [r EXCEPT !.pending = TRUE, !.enabled = enabled, !.attempted = TRUE,
            !.state = "waiting"]

(* The machine after BeginOperation.                                        *)
BeginOperation(m, explorer, trigger, enabled, present) ==
  LET r == Renewed(m, explorer, trigger, enabled) IN
  IF Asks(m, explorer, trigger, enabled, present) THEN Begun(r, enabled)
  ELSE IF explorer = 0
    THEN [r EXCEPT !.pending = FALSE, !.state = Resting(enabled)]
  ELSE IF trigger = "poll" /\ Declined(m, r, explorer, enabled, present) THEN r
  ELSE IF trigger = "poll" /\ LostChannel(r, enabled, present)
    THEN [r EXCEPT !.state = "failed"]
  ELSE [r EXCEPT !.pending = FALSE, !.state = "inactive"]

Action(enabled, present) ==
  IF ~enabled THEN "reset" ELSE IF present THEN "reload" ELSE "load"

BeginExport(m, explorer, enabled) == Begun([m EXCEPT !.explorer = explorer], enabled)

Complete(m, success) ==
  IF ~m.pending THEN m
  ELSE [m EXCEPT !.pending = FALSE,
                 !.state = IF ~success THEN "failed"
                           ELSE IF m.enabled THEN "active" ELSE "inactive"]

Fail(m) == [m EXCEPT !.pending = FALSE, !.state = "failed"]

-----------------------------------------------------------------------------
(* The controller's operations.                                             *)

Busy == op.kind # "none"
Awaited == {"none", "loading", "exportLoading", "exporting", "restarting"}
UiFree == ~closing /\ op.kind \in Awaited

(* The end of an operation: `_busy` is cleared, the trigger kept meanwhile  *)
(* is posted (SchedulePending), and the exit goes on unless it failed.      *)
Finish(m, kept) ==
  /\ machine' = m
  /\ op' = NoOp
  /\ posted' = posted \cup ({kept} \ {"none"})
  /\ coalesced' = "none"
  /\ closing' = (op.exit /\ m.state # "failed")

(* An operation that has a request fails.                                   *)
FinishFailed ==
  /\ Finish(Complete(machine, FALSE), coalesced)
  /\ blocked' = IF machine.pending THEN blocked \cup {op.explorer} ELSE blocked
  /\ UNCHANGED <<asked, accepted>>

Retries(trigger) == trigger # "poll"

(* ReconcileAsync during an operation, a poll taking the place of what is   *)
(* kept.                                                                    *)
CoalesceLatest(trigger) ==
  /\ coalesced' = trigger
  /\ asked' = (asked \/ Retries(trigger))
  /\ UNCHANGED <<machine, op, selected, closing, blocked, accepted>>

(* ReconcileAsync during an operation: the trigger is kept, a poll only     *)
(* when nothing else is.                                                    *)
Coalesce(trigger) ==
  /\ coalesced' = IF coalesced = "none" \/ trigger # "poll" THEN trigger ELSE coalesced
  /\ asked' = (asked \/ Retries(trigger))
  /\ UNCHANGED <<machine, op, selected, closing, blocked, accepted>>

(* ReconcileAsync at rest, up to the theme catalogue: the configuration     *)
(* must parse and its theme must be in the package.                         *)
Start(trigger, config, exit) ==
  /\ asked' = (asked /\ ~Retries(trigger))
  /\ blocked' = IF Retries(trigger) THEN {} ELSE blocked
  /\ UNCHANGED <<coalesced, closing, accepted>>
  /\ \/ /\ config # Torn
        /\ selected' = config
        /\ op' = [NoOp EXCEPT !.kind = "deciding", !.trigger = trigger,
                              !.enabled = config # None, !.exit = exit]
        /\ UNCHANGED machine
     \/ /\ config # None
        /\ selected' = IF config = Torn THEN selected ELSE config
        /\ machine' = Fail(machine)
        /\ UNCHANGED op

Reconcile(trigger) ==
  IF Busy THEN Coalesce(trigger) ELSE Start(trigger, file, FALSE)

(* FindExplorer, IsTapPresent and BeginOperation.                           *)
Decide ==
  LET present == tap = "listening"
      asks == Asks(machine, shell, op.trigger, op.enabled, present)
      begun == BeginOperation(machine, shell, op.trigger, op.enabled, present)
      action == Action(op.enabled, present) IN
  /\ op.kind = "deciding" /\ ~closing
  /\ \/ /\ asks
        /\ machine' = begun
        /\ op' = [op EXCEPT !.explorer = shell, !.action = action,
                            !.kind = IF action = "load" THEN "loading" ELSE "signalling"]
        /\ UNCHANGED <<coalesced, posted, closing, historyVars>>
     \/ ~asks /\ Finish(begun, coalesced) /\ UNCHANGED historyVars
     \/ (* the prerequisite is not set: the request fails at once *)
        /\ asks /\ op.enabled
        /\ Finish(Complete(begun, FALSE), coalesced)
        /\ blocked' = blocked \cup {shell}
        /\ UNCHANGED <<asked, accepted>>
     \/ (* IsTapPresent throws: a TAP of another package, a process that ends *)
        /\ shell # 0
        /\ Finish(Fail(machine), coalesced)
        /\ UNCHANGED historyVars
  /\ UNCHANGED <<selected, worldVars>>

(* SignalAsync.                                                             *)
Signal ==
  /\ op.kind = "signalling"
  /\ IF shell = op.explorer /\ tap = "listening"
     THEN /\ reread' = TRUE
          /\ accepted' = accepted \cup {op.explorer}
          /\ op' = [op EXCEPT !.kind = "checking"]
          /\ UNCHANGED <<machine, coalesced, posted, closing, asked, blocked>>
     ELSE FinishFailed /\ UNCHANGED reread
  /\ UNCHANGED <<selected, file, shell, generation, broadcast, tap, installed, cli,
                 users, clis>>

(* The TAP is loaded into the process of the taskbar, by the tray or by the *)
(* command line: a resident one is given its site again.                    *)
TapLoaded ==
  /\ shell # 0
  /\ IF tap = "absent" THEN tap' = "loading" /\ UNCHANGED reread
     ELSE reread' = (reread \/ tap = "listening") /\ UNCHANGED tap

(* LoadAsync on its STA thread: it may fail, and does when Explorer is not  *)
(* the one it was asked for.                                                *)
Load ==
  /\ op.kind \in {"loading", "exportLoading"}
  /\ \/ /\ shell = op.explorer
        /\ TapLoaded
        /\ accepted' = accepted \cup {op.explorer}
        /\ op' = [op EXCEPT !.kind = IF @ = "loading" THEN "checking" ELSE "exportSignal"]
        /\ UNCHANGED <<machine, coalesced, posted, closing, asked, blocked>>
     \/ FinishFailed /\ UNCHANGED <<tap, reread>>
  /\ UNCHANGED <<selected, file, shell, generation, broadcast, installed, cli, users, clis>>

(* The request was accepted: complete it, whatever has become of Explorer.  *)
CheckNothing ==
  /\ op.kind = "checking"
  /\ Finish(Complete(machine, TRUE), coalesced)
  /\ UNCHANGED <<selected, worldVars, historyVars>>

(* The request was accepted: complete it, unless Explorer has changed.      *)
Check ==
  /\ op.kind = "checking"
  /\ IF shell # op.explorer
     THEN Finish(BeginOperation(machine, 0, "created", op.enabled, FALSE), "created")
     ELSE Finish(Complete(machine, TRUE), coalesced)
  /\ UNCHANGED <<selected, worldVars, historyVars>>

(* ExportAsync.                                                             *)
Export ==
  /\ UiFree /\ ~Busy /\ users < MaxUser
  /\ users' = users + 1
  /\ \/ /\ shell # 0 /\ file # Torn
        /\ selected' = file
        /\ machine' = BeginExport(machine, shell, file # None)
        /\ op' = [NoOp EXCEPT !.explorer = shell, !.action = "export",
                    !.kind = IF tap = "listening" THEN "exportSignal" ELSE "exportLoading"]
     \/ /\ shell = 0 \/ file = Torn
        /\ machine' = Fail(machine)
        /\ UNCHANGED <<selected, op>>
  /\ blocked' = {}
  /\ UNCHANGED <<coalesced, posted, closing, asked, accepted, file, shell, generation,
                 broadcast, tap, reread, installed, cli, clis>>

ExportSignal ==
  /\ op.kind = "exportSignal"
  /\ IF shell = op.explorer /\ tap = "listening"
     THEN /\ reread' = TRUE
          /\ accepted' = accepted \cup {op.explorer}
          /\ op' = [op EXCEPT !.kind = "exporting"]
          /\ UNCHANGED <<machine, coalesced, posted, closing, asked, blocked>>
     ELSE FinishFailed /\ UNCHANGED reread
  /\ UNCHANGED <<selected, file, shell, generation, broadcast, tap, installed, cli,
                 users, clis>>

(* The new file is there, or Explorer has changed, or 15 seconds pass.      *)
ExportEnds ==
  /\ op.kind = "exporting"
  /\ \/ /\ shell = op.explorer
        /\ Finish(Complete(machine, TRUE), coalesced)
        /\ UNCHANGED historyVars
     \/ FinishFailed
  /\ UNCHANGED <<selected, worldVars>>

(* RestartAsync: the process is killed, and started when nothing else does. *)
Restart ==
  /\ UiFree /\ ~Busy /\ users < MaxUser
  /\ users' = users + 1
  /\ machine' = BeginOperation(machine, 0, "user", selected # None, FALSE)
  /\ op' = [NoOp EXCEPT !.kind = "restarting"]
  /\ blocked' = {}
  /\ shell' = 0 /\ tap' = "absent" /\ reread' = FALSE /\ installed' = None
  /\ UNCHANGED <<coalesced, posted, selected, closing, file, generation, broadcast, cli,
                 clis, asked, accepted>>

ShellAppears ==
  /\ shell = 0 /\ generation < MaxGenerations
  /\ generation' = generation + 1
  /\ shell' = generation + 1
  /\ broadcast' = TRUE
  /\ UNCHANGED <<tap, reread, installed>>

RestartEnds ==
  /\ op.kind = "restarting"
  /\ \/ shell # 0 /\ Finish(machine, coalesced) /\ UNCHANGED <<shell, generation, broadcast>>
     \/ ShellAppears /\ Finish(machine, coalesced)
     \/ Finish(Fail(machine), coalesced) /\ UNCHANGED <<shell, generation, broadcast>>
  /\ UNCHANGED <<selected, file, tap, reread, installed, cli, users, clis, historyVars>>

(* ChangeThemeAsync, and ExitAsync with no theme: the file is replaced in   *)
(* one step, unless it does not parse or the command line holds it open.    *)
ChangeTheme(theme, exit) ==
  /\ UiFree /\ ~Busy /\ users < MaxUser
  /\ exit => theme = None
  /\ users' = users + 1
  /\ \/ /\ file # Torn
        /\ file' = theme
        /\ Start("user", theme, exit)
     \/ /\ machine' = Fail(machine)
        /\ UNCHANGED <<file, op, selected, coalesced, closing, historyVars>>
  /\ UNCHANGED <<posted, shell, generation, broadcast, tap, reread, installed, cli, clis>>

-----------------------------------------------------------------------------
(* The other handlers of the UI thread.                                     *)

Poll ==
  /\ UiFree
  /\ Reconcile("poll")
  /\ UNCHANGED <<posted, worldVars>>

Retry ==
  /\ UiFree /\ ~Busy /\ users < MaxUser
  /\ users' = users + 1
  /\ Reconcile("user")
  /\ UNCHANGED <<posted, file, shell, generation, broadcast, tap, reread, installed,
                 cli, clis>>

OnTaskbarCreated ==
  /\ UiFree /\ broadcast
  /\ broadcast' = FALSE
  /\ Reconcile("created")
  /\ UNCHANGED <<posted, file, shell, generation, tap, reread, installed, cli, users, clis>>

RunsPosted(trigger) ==
  /\ UiFree /\ trigger \in posted
  /\ posted' = posted \ {trigger}
  /\ Reconcile(trigger)
  /\ UNCHANGED worldVars

(* The catalogue, the log or a dialog fails: RecordFailure, ReportUnhandled.*)
HandlerFails ==
  /\ UiFree
  /\ machine' = Fail(machine)
  /\ UNCHANGED <<op, coalesced, posted, selected, closing, worldVars, historyVars>>

-----------------------------------------------------------------------------
(* The command line: apply and reset.                                       *)

CliBegins(theme) ==
  /\ cli.step = "idle" /\ clis < MaxCli
  /\ clis' = clis + 1
  /\ cli' = [step |-> "open", theme |-> theme]
  /\ file' = Torn
  /\ UNCHANGED <<trayVars, historyVars, shell, generation, broadcast, tap, reread,
                 installed, users>>

(* A command line that signals the TAP before its file is written.          *)
CliWritesLate ==
  /\ \/ /\ cli.step = "open"
        /\ cli' = [cli EXCEPT !.step = "late"]
        /\ reread' = (reread \/ tap = "listening")
        /\ UNCHANGED file
     \/ /\ cli.step = "late"
        /\ cli' = [cli EXCEPT !.step = "idle"]
        /\ file' = cli.theme
        /\ UNCHANGED reread
  /\ UNCHANGED <<trayVars, historyVars, shell, generation, broadcast, tap, installed,
                 users, clis>>

CliWrites ==
  /\ cli.step = "open"
  /\ cli' = [cli EXCEPT !.step = "written"]
  /\ file' = cli.theme
  /\ UNCHANGED <<trayVars, historyVars, shell, generation, broadcast, tap, reread,
                 installed, users, clis>>

(* SignalReloadIfLoaded, and CmdLoad when there is nothing to signal.       *)
CliSignals ==
  /\ cli.step = "written"
  /\ cli' = [cli EXCEPT !.step = "idle"]
  /\ \/ tap = "listening" /\ reread' = TRUE /\ UNCHANGED tap
     \/ tap # "listening" /\ cli.theme # None /\ TapLoaded
     \/ tap # "listening" /\ UNCHANGED <<tap, reread>>
  /\ UNCHANGED <<trayVars, historyVars, file, shell, generation, broadcast, installed,
                 users, clis>>

-----------------------------------------------------------------------------
(* Explorer and the TAP.                                                    *)

ShellStarts ==
  /\ ShellAppears
  /\ UNCHANGED <<trayVars, historyVars, file, cli, users, clis>>

ShellDies ==
  /\ shell # 0 /\ generation < MaxGenerations
  /\ shell' = 0 /\ tap' = "absent" /\ reread' = FALSE /\ installed' = None
  /\ UNCHANGED <<trayVars, historyVars, file, generation, broadcast, cli, users, clis>>

(* InitializeControl creates the reload event; the configuration is read    *)
(* after it, on the first transition.                                       *)
TapListens ==
  /\ tap = "loading"
  /\ tap' = "listening" /\ reread' = TRUE
  /\ UNCHANGED <<trayVars, historyVars, file, shell, generation, broadcast, installed,
                 cli, users, clis>>

(* LoadConfiguredTheme.                                                     *)
TapReads ==
  /\ tap = "listening" /\ reread
  /\ reread' = FALSE
  /\ installed' = IF file = Torn THEN None ELSE file
  /\ UNCHANGED <<trayVars, historyVars, file, shell, generation, broadcast, tap, cli,
                 users, clis>>

Next ==
  \/ Decide \/ Signal \/ Load \/ Check
  \/ Export \/ ExportSignal \/ ExportEnds
  \/ Restart \/ RestartEnds
  \/ \E theme \in Themes \cup {None}, exit \in BOOLEAN : ChangeTheme(theme, exit)
  \/ Poll \/ Retry \/ OnTaskbarCreated \/ HandlerFails
  \/ \E trigger \in Triggers : RunsPosted(trigger)
  \/ \E theme \in Themes \cup {None} : CliBegins(theme)
  \/ CliWrites \/ CliSignals
  \/ ShellStarts \/ ShellDies \/ TapListens \/ TapReads

(* The UI thread runs its handlers and its timer, awaited work ends, the    *)
(* command line finishes what it began, the TAP starts and reads.           *)
Fairness ==
  /\ WF_vars(Decide) /\ WF_vars(Signal) /\ WF_vars(Load) /\ WF_vars(Check)
  /\ WF_vars(ExportSignal) /\ WF_vars(ExportEnds) /\ WF_vars(RestartEnds)
  /\ WF_vars(Poll) /\ WF_vars(OnTaskbarCreated)
  /\ \A trigger \in Triggers : WF_vars(RunsPosted(trigger))
  /\ WF_vars(CliWrites) /\ WF_vars(CliSignals)
  /\ WF_vars(TapListens) /\ WF_vars(TapReads)

Spec == Init /\ [][Next]_vars
FairSpec == Spec /\ Fairness

-----------------------------------------------------------------------------
(* The machine is active for the Explorer in place, once that process has   *)
(* accepted a request (plan 4: "configuração habilitada e pedido de         *)
(* carga/recarga aceito"): never for one that has gone while it was asked,  *)
(* nor for a new one on the strength of the old.                            *)
ActiveIsAccepted ==
  [][machine' # machine /\ machine'.state = "active"
       => machine'.explorer = shell /\ shell \in accepted]_vars

(* A trigger that allows a retry, arriving during an operation, is kept or  *)
(* posted until an attempt is made for it: no poll takes its place          *)
(* (TrayContext.ReconcileAsync, SchedulePending).                           *)
TriggerKept ==
  asked => \/ closing
           \/ Retries(coalesced) /\ coalesced # "none"
           \/ \E trigger \in posted : Retries(trigger)

(* A poll makes no attempt in a process where an attempt has failed and     *)
(* nothing has allowed a retry (design, 6.5: "o poll periódico não tenta    *)
(* novamente").                                                             *)
NoPollRetry ==
  [][(op.kind = "deciding" /\ op.trigger = "poll" /\ op'.kind \in {"loading", "signalling"})
       => op'.explorer \notin blocked]_vars

(* Once Explorer, the user and the command line are quiet, the tray is      *)
(* active or inactive as the configuration says, or it has failed.          *)
Settles ==
  <>[](\/ closing \/ machine.state = "failed"
       \/ machine.state = (IF shell # 0 /\ file # None THEN "active" ELSE Resting(file # None)))

(* A TAP ends up with the theme of the configuration, whoever wrote it and  *)
(* however writing, loading and signalling interleave, unless the tray has  *)
(* shown a failure.                                                         *)
TapFollows ==
  <>[](tap = "listening" /\ machine.state # "failed" => installed = file)
=============================================================================
