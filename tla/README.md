# TLA+ models of Taskbar Styler

Taskbar Styler applies themes to the Windows taskbar. A DLL (the *TAP*) runs inside
`explorer.exe`, subscribes to the XAML diagnostics of every UI thread, styles the elements
that XAML reports, and undoes everything when the theme changes or is reset. A command line
and a tray program write `config.json`, load the TAP and signal it.

This directory holds the TLA+ models of the TAP's concurrent core, of its style engine, of the
tray and the command line, and of the algorithms that prepare a theme; the TLC configurations
that check them on small instances; and proofs for every value of the constants. Source
paths below are relative to `src/`.

## 1. Inventory

Threads of the TAP: the **control thread** (the taskbar's UI thread, where every transition
runs), the **other UI threads** with XAML hosts (task view, input switch), the thread that
calls `SetSite`, thread-pool **wait callbacks** for the reload and export events, one **advise
worker** per subscription and one **export worker** at a time. UI threads are reached by
synchronous sends with a 5 s timeout; everything else only posts to the control thread.

| Component | State it keeps | Operations | What makes it correct |
|---|---|---|---|
| Handle ledger (`tap/handle_ledger`) | per (session, handle): latest observation, release in flight, retired mark; revision and sequence counters; completeness | `Observe`, `MarkOwnerRetired`, `BeginRelease`, `MarkUntracked`, `CompleteRelease`, `Snapshot` | never under-counts what XAML still holds while it claims completeness; a token is completed by its owner only; residual counts are exact |
| Diagnostics sessions (`tap/visual_tree_watcher`) | current session, retired flag per session | `OpenDiagnostics`, `CloseDiagnostics`, `Retire`, `Observe`, `ReleaseHandle` | a displaced session is retired by whoever displaced it, also for reports already on their way |
| Change subscription (`tap/change_subscription`, `tap/subscription_state.h`) | the published subscription, its phase, `enabled`, the count of active callbacks | `StartSubscription`, `StopSubscription`, advise worker, `Unadvise`, `CompleteStop`, callback entry and exit | one `Unadvise` per subscription; published until no callback is left; a deferred stop is answered |
| Command mailbox (`tap/command_mailbox.h`) | generation, pending commands, posted flag | `Push`, `PostFailed`, `Take`, `Restart` | one wake-up per set of commands; no command waits behind a flag that stands for nothing |
| Theme transitions (`tap/theme_session`) | the session request, pending transition, export wish and result, watch, theme | `RequestSessionChange`, `OnCommand`, `DriveTransition`, `LoadConfiguredTheme`, export worker, `StartReloadWatch`, `StopReloadWatch` | one theme at a time on all threads; a session outlives its handles; no request forgotten; every transition ends |
| Thread dispatch (`tap/thread_init`) | per thread: window, initialized, handler; host hook | `RunOnWindowThread`, `InitializeForCurrentThread`, `StartHostWatch`, `StopHostWatch` | a send that timed out may run late, and must be harmless then |
| Release queue (`tap/release_queue`, `tap/owned_release_queue.h`) | per thread: handles with their session, a one-shot timer | `QueueRelease`, `FlushReleasesIfQuiet`, `FlushReleasesNow`, `StopReleaseQueueOnThisThread` | no handle lost by a drain that throws or re-enters; a quiet burst drains |
| Snapshot export (`tap/tree_export`) | the pending snapshot, batches per thread with a phase, active count, idle event | `ExportTreeToFile`, `StopPendingSnapshot`, `ReleaseSnapshot`, `ReleaseOnOwnerThread` | a cancelled batch never runs; every handle is released once or kept for the retry |
| Style engine (`tap/style_engine`) | the theme; per thread: theme adopted, per-element buckets, original values, generations | `OnElementAdded`, `OnElementRemoved`, `RestoreAllOnThisThread`, `SetTheme` | restores exactly what it changed, also when XAML re-enters |
| Element registry (`tap/element_registry`) | per thread: handle -> id and weak reference | find or make an id, forget, reap | state of an element can always be found again, and is restored before its handle is given up |
| Style and resource variables (`tap/style_variables`, `tap/resource_variables`) | per thread: definitions, consumers, merged dictionaries | define, consume, propagate, merge, unmerge | propagation ends, nested or not; unmerging leaves the application's own resources |
| Core algorithms (`core/`) | none | selector parsing and matching, rules, constants, expressions, blur rewriting, theme and config loading | results agree with their definition for all inputs |
| Command line (`cli/`) | none | `load`, `apply`, `reset`, `status`, `setup` | `config.json` readable at any time; a signal reaches the resident TAP |
| Tray (`tray/`) | operation in flight, pending trigger, state per Explorer generation | `ReconcileAsync`, `ExportAsync`, `RestartAsync`, `TrayStateMachine`, `ConfigStore` | no trigger lost, no retry storm; the state shown belongs to the current Explorer; the TAP ends with the configured theme |

Interactions. `SetSite`, the event waits and the workers push commands into the mailbox and
post one window message. `OnCommand` takes them on the control thread and drives a pending
transition: restore on all threads, stop host watch and subscription, stop a left snapshot,
drain all release queues, replace the session, export, load the theme, initialize hosts,
subscribe. A transition that has to wait returns, and a worker or the last callback posts the
continuation. Reports from XAML go to the style engine, the ledger (through the session) and
the release queue of their thread.

Hard behaviours: callbacks that are not joined by `Unadvise`; sends that time out and run
later; commands taken in the middle of a transition, while it waits in a send or calls XAML;
generations of the mailbox that change under callers; releases outside the ledger's lock;
counters at their limit; continuations that nobody posts; loads of XAML values that pump
messages, under which any other operation of the thread may begin; propagation that nests in
itself; three processes that share a file and an Explorer which may be replaced at any step. `PROJECT.json` lists each hazard
with its line and the properties that cover it.

## 2. Modules and how they correspond to the code

| Module | Models | Composition |
|---|---|---|
| `HandleLedger` | the ledger, its sessions and `ReleaseHandle` | one action per critical section or external call, any number of threads |
| `Subscription` | one subscription after another, the advise workers, reports and the control thread's stop and start | implements `ExclusiveSubscription` |
| `ExclusiveSubscription` | what `change_subscription.h` promises: a slot that one subscription holds until it is detached and empty | abstract |
| `CommandMailbox` | the mailbox, its callers and the control window | - |
| `ThemeTransition` | `DriveTransition` and all it calls, UI threads, workers, requests | uses the mailbox and the subscription in the summarized form that the two modules above justify |
| `SnapshotExport` | the export worker, the reports of its callback and the releases on the UI threads | the detail behind the export worker of `ThemeTransition` |
| `ReleaseQueue` | the deferred releases of a thread and the element registry | the release queue that `ThemeTransition` drains |
| `StyleEngine` | reports, re-evaluations, watches, removal and restore of one thread | extends `ResourceVariables` |
| `ResourceVariables` | the application's resources that a theme overrides | the part of a report and of a restore that merges and unmerges |
| `StyleVariables` | captures, consumers and the nested propagation | the engine's steps, with one dynamic property per element |
| `Tray` | the tray's state machine and controller, its view of Explorer, `config.json`, the command line | the TAP from the outside |
| `Selectors`, `Expressions`, `StyleConstants` | the matcher, the evaluator, the constants | `MCPreparation` puts them side by side |
| `...Proofs` | theorems about `HandleLedger`, `Subscription`, `SnapshotExport`, `ReleaseQueue`, `StyleEngine` and `Tray` | extend their module |
| `ControlThreadProofs` | theorems about `CommandMailbox` and `ThemeTransition` | extends both |
| `StylingProofs` | theorems about `StyleVariables`, `Selectors` and `Expressions` | extends them |
| `MC...` | TLC instances | extend their module |
| `MCDiagnostics`, `MCControlThread`, `MCStyling` | TLC instances of two components at once | extend both, side by side (section 3) |

`HandleLedger`. A key is `<<owner, handle>>`; an entry holds the observation, the attempt in
flight and the observation at which it began, as `HandleLedger::Entry` does. `registered` is
XAML's own table and not a program variable. A thread's `pc` shows where it stands between the
locked methods: after XAML registered a handle and before `Observe`; between `BeginRelease`,
the external unregister and `CompleteRelease`; between the exchange of the session, the
`retired` flag and `MarkOwnerRetired`. The session's observation lock holds `Observe` and
`Retire` apart, as the code's mutex does.

`Subscription`. `phase` is `SubscriptionState`'s atomic; every compare-exchange, store and
COM call is one step of the thread that makes it (`pc`). `CompleteStop` is four steps: read
the count, take the phase to Stopped, unpublish, notify. A report is counted, runs for any time
and leaves; the last to leave reads `enabled` in a separate step.

`CommandMailbox`. Every method is one step under its mutex. Callers read the generation first
and push later, so they may be stale; the post may fail; messages are counted per generation
because `Take` does not depend on their order. `Take` refuses a message of another generation.

`ThemeTransition`. `phase` is the point that `DriveTransition` has reached; each of its calls
is a step with every result it can have. Loops over windows are `todo`. A host's `doing` says
whether a report or a restore has read the theme and not acted yet; `late` is the set of thunks
whose send timed out. Assumptions of the abstraction:
- what an element looks like is reduced to "this thread holds state of a theme";
- messages are dispatched between reports on a thread, not inside one; a report on the control
  thread is one step, on a host two;
- a command can be taken inside a transition where it calls XAML or waits in a send
  (restore, stop, drain, opening the session, loading the theme); the code guards this with
  `t_driving` and `t_command_revision`;
- posts do not fail (`CommandMailbox` has that), windows can be created, and they live as long
  as the process;
- `StopReloadWatch` and the assignments around it are one step; a late drain that reports
  failure into a newer drain only makes `ok` false, which is covered by any drain failing.

`SnapshotExport`. `step` is the point the worker has reached, `goal` what its current stop is
for (an old snapshot before a new one, the end of reporting before the file, or the release
after it). A report's `at` splits its count, the reset and the set of the idle event, and the
locked collection, because the three do not happen together. Payloads are numbered per thread:
a canceled one stays with the message that may still arrive, and `batch` names the one that
counts. A pass over the batches is `todo`; its order is the map's, by thread, and left open.
What memory runs out for during a report is any part of its handles; the batch itself can be
made. A new operation has a new event, so a report still in the epilogue of the old callback
is out for the model. A tree that is incomplete, empty or not writable is one failing result.

`ReleaseQueue`. `frames` is the call stack of the thread: reports that still have to queue
what they registered, removals that have looked their element's id up and still have to restore
it and to forget the handle's id, and drains with the batch they swapped out, the handles they hold or
retain and the one they are examining. Styling inside a report, restoring inside a removal and
every release call XAML, so a new frame may
begin there. `RemovalEnds` drops the state of the id that was found at the beginning, and the id that
the handle has at the end, as `change_subscription.cpp:120` and `138` do. If the same element is
reported in between, these may be two ids, and the state of the second is left without a handle that
finds it; the code has no guard against it, and no evidence that XAML reports an element inside the
report of its removal. `readded` remembers that it has happened, and `NoStateStranded` excuses it. The clock is `recent`: the last handle was queued less than `kQuietMs` ago. An
address may serve a second object, which is what the registry's weak references are for. A
capture-only element keeps no style state; its id goes with `ForgetElementIdIfDead`, so the
reaper does not find its captures (`StyleVariables` has such a death as one nobody notices).

`StyleEngine`. A frame of `stack` is an operation that is waiting: a report, for the property filter
of a selector, for a rule's property or value or while it registers captures, or the re-evaluation
of one property. Resolving (`CachedSetter`, `ResolveSetter`) loads XAML, and registering a capture
tells the consumers of its variable; there a further operation may begin. The innermost frame
alone goes on. A report that has got its value finds by its generation whether it is still wanted
(`ReportReturns`). One whose value fails to load does not look, and neither does one that has registered
its captures: `PropertyFails` and `CapturesEnd` go on whether the element was removed, reported again
or neither. What they go on with is borrowed:
- the *bucket* of the match, which the element's next report clears and its removal frees. It is
  used again only to publish the consumers of what the match has claimed (`Publishes`), where a freed
  one may show any of these properties, dynamic or not;
- the *state*, a node of `t_state`, which lasts until the element is removed. (A node is
  named by the generation that put it there, so that a new one for the same element is another.) A freed one is read as empty or, if the
  new state of the element has got its memory, as that (`Stands`).

`astray` remembers that either was used after it was freed. `NothingFreedIsUsed` says that this
does not happen, and fails; nothing is claimed of the engine afterwards. An overtaken
report that uses neither is not excused: the element was reported again, its state is
the same node, and the report appends to its successor's buckets, applies them again and watches
them again. A watch that is registered over another one loses the older token, so that it is never
revoked; `lostWatches` and `lostStates` keep them in force.

A shell write to a property that a nested operation has set, and that the report around it does not
watch yet, goes unnoticed, and the restore gives the older original back.
`ShellValuesReturned` says that the shell's last write is given back, and fails;
`ShellValuesKept` says it of the writes that fell on a property not held or that a watch saw (`seen`).

Deliberate limits, each a place where the code does more:
- other calls into XAML (reading and setting values, the visual state's name, the watches) are
  taken not to re-enter, nor is a merge of resources that pumps modelled;
- the memory of a freed state that another element's node has got;
- a re-report restores the element without forgetting its variables; the removal of the watches
  that throws in `RestoreElement`, which skips `Unapply`, is not modelled.

`readopted` remembers something the code allows: a report takes the theme (`style_engine.cpp:558`)
and waits in its match (575: a property filter loads XAML). Meanwhile the theme is retired, the
thread is restored and another theme is installed; the report then goes on, and `CachedSetter`
adopts the retired theme again (251). Until a report of the theme in force adopts that one, the
watches of elements that it has styled find a cache that is not the current theme and do
nothing, so a state change is missed and not made up for. `ShowsItsState` excuses a thread on
which this has happened, until it is restored again. (It takes two themes and three reports, one of them in
its match across the change; the attempt to prove the property without the excuse led to
it.) `ThemeTransition` has no such report: there a thread answers a restore between its reports.

`ResourceVariables`. Of an original only "the application's value", "an override" or "no
entry" is kept. A restore whose insertion throws (the others are then skipped and forgotten,
`resource_variables.cpp:182`) is not in the model, and `OverridesUndone` says nothing of it. `RefreshReferences` may insert a key that
the application does not define; it is never removed, and `OverridesUndone` does not ask for it.

`StyleVariables`. `frames` is again the call stack: a propagation with its copy of the
consumers, the re-application of one of them, a registration, a removal. `capped`, `pumped` and
`moved` record that something happened after which the code does not promise convergence:
- the depth limit drops what is below it;
- an event that ran inside a resolution, so that the outer re-application puts its older value
  over the newer one;
- a captured element that was re-parented and reported again: its report resolves its own styles
  against the chain its capture had at the old place, and `RegisterCapture`'s path for a
  known capture then refreshes the chain and does not propagate. The header says that
  a re-parented element cannot leave a stale spine behind; `ReparentingConverges` is `Converged`
  without this excuse, and fails;
- an element that died without a removal leaves its captures until the reaper comes.
`Converged` excuses exactly these. An element whose report is registering its captures is not
reported or removed again meanwhile; `StyleEngine` has what the engine does then. `ClearStyleVariablesOnThisThread` is one step. `Closest` is the site that the loop of
`LookupForConsumer` ends with: the sequence numbers differ, so there is one. `Shared` and
`Depth` count what the code counts; `Without` is `std::erase_if`.

`Tray`. `op` is the operation under way with its locals; between its steps other handlers run
only where the code awaits: the load, the export's wait and the restart's wait. A second
trigger meanwhile is coalesced. Explorer, the TAP and the command line are other processes and
take steps at any time. The file holds a theme, nothing, or is torn while the command line
is between truncating and writing it. `asked`, `blocked` and `accepted` remember what the
properties speak of. Limits: the request's number is whether it is pending; posted triggers are
a set; a living Explorer is always found; the manual retry is possible only when the tray is not busy,
as its menu item is disabled then; the load is one awaited step, so neither its attempts in the
slots and seconds of `WindowsShell.cs:91` nor a native call that never returns are in it. One thing the model shows and no document excludes: a poll
coalesced during a load runs right after it, before the TAP has made its reload event, and the
tray shows Failed for a load that was accepted, until the next trigger.

`Selectors`. A part is its kind, its type and whether it names the visual state group; name,
index and property filters are further conditions of the same test. The match returns
the group that was written last, as the out parameter does. A wildcard next to `:root` parses
and matches nothing, as `selector.cpp:43` says. The recursion of `MatchParents` drops the parts
nearest to the element one by one, so it is a function of the parts that are left, and each of
its levels the table of what the call answers from every depth and with every reference;
the loop after a wildcard is a second function, of the ancestors that are left. `Expressions`: the evaluator works on a
sequence of tokens, and its recursive descent is a table again: `Calls` says of each level of
the grammar, position and value of `live_` what a call answers when the calls it makes answer by
the table before, and `Evaluate` reads the table that is deep enough for any text of this length.
What a call leaves of the C++ object (its position, the dependencies recorded, an exception) is
in its outcome. The actions are not code: they push literals, names and strings on a stack
and combine the topmost with an operator, each expression with its text, in parentheses
only where the grammar needs them, and with its meaning. Numbers are whole and
division rounds, on both sides of the comparison; results that are not finite, functions other
than `min` and `max`, and a captured object without text, are left out. `StyleConstants`: texts are sequences of characters, since the match of
a name is by its beginning. The values compared are those in which no letter follows a
reference directly: with `$cb`, where `c` is `$a` and there is an `ab`, iterating over the text may
read `$ab` where expanding in order gives the value of `a` and a `b`; the comment at
`constants.cpp:45` claims agreement for the shipped themes, which have no such value.

## 3. Runs

| Run | Instance | Distinct states | Checks |
|---|---|---|---|
| `diagnostics` | ledger: 2 sessions (one without the test hook), 1 handle, 2 threads, 4 revisions; transitions: 1 host beside the control thread, 2 themes, 2 session requests, 1 signal | 2.8 M | `TypeOK`, `CoverageExact`, `AttemptsOwned`, `ResidualExact`, `SequenceCounts`; `OneThemeAtATime`, `InactiveIsClean`, `NothingForgotten`, `SessionOutlivesHandles`, `LateRestoreIsHarmless` |
| `subscription` | 2 subscriptions, 2 concurrent reports each | 0.5 M | `OneUnadvise`, `WaitIsAnswered`, `NeverOverlaps` (refinement), `TransitionResolves` (liveness) |
| `subscription_replaced` | 2 subscriptions, 1 report each | violation | `StoppedIsReplaceable` |
| `control_thread` | mailbox: 3 callers, 2 commands, 3 generations; transitions: as above without signals, with fairness | 0.5 M | `OneWakeUp`, `Heard` (liveness); `TransitionEnds` (liveness) |
| `snapshot_export` | 2 UI threads, 2 handles, 2 workers, 2 reports | 1.0 M | `HandlesKept`, `OneReleaser`, `NothingLeftBehind`, `IdleIsSignalled`, `WorkerEnds` (liveness) |
| `release_queue` | 2 handles, 2 sessions, 2 objects per address, 2 reports or removals, 2 frames | 0.6 M | `NothingLost`, `NoStateStranded`, `BurstDrains` (liveness) |
| `style_engine` | 2 themes over a button and a label, 2 properties, 2 states, 2 resource keys, 2 frames | 1.8 M | `ShellValuesKept`, `OneOwner`, `ShowsItsState`, `OverridesUndone` |
| `style_engine_returned` | the same | violation | `ShellValuesReturned` |
| `style_engine_freed` | the same | violation | `NothingFreedIsUsed` |
| `styling` | variables: 3 elements, 2 variables that feed one another, 6 events; preparation: chains of 4 parts on paths of 4, expressions of 2 operators, 4 constants | 4.6 M | `ConsumersIndexed`, `Converged`, `RemovedStaysBare`; `MatchesExactly`, `EvaluatesLazily`, `ResolvesAsDeclared` |
| `style_variables_moved` | the variables alone | violation | `ReparentingConverges` |
| `tray` | 1 theme, 2 Explorers, 2 actions of the user, 1 command | 1.0 M | `TriggerKept`, `ActiveIsAccepted`, `NoPollRetry`, `Settles` (liveness), `TapFollows` (liveness) |

`diagnostics`, `control_thread` and `styling` check two components in one state space, side by side:
every behaviour belongs to one of the two and leaves the other's variables at their start, where
none of its fair steps is enabled, so the states are the sum of both and each property means
what it means for its component alone. The components do not interact in these runs.

The type invariants of the other modules document their variables; where a theorem is proved about a
module, they are part of the proof.

Why the bounds are enough for the cases they are there for:
- *Ledger*: two threads and one handle give every race on one entry (report against release,
  release against release, report against retirement); two sessions give the replacement; four
  revisions are two observe/release rounds, with one of the reports falling into a release or not,
  and leave the counter exhausted for what comes after.
- *Subscription*: a race is between one subscription's stop and its worker or its reports, or
  between the old and the replacement; two concurrent reports distinguish "a report left" from
  "the last one left".
- *Mailbox*: three callers let a stale caller, a failing one and a current one overlap, in
  three generations (before, between and after two restarts).
- *Transitions*: with one host every loop has a thread that can be done, late or missing; two
  themes (interchangeable, hence the symmetry) let an old theme survive into a new one; two
  requests let the second overtake the first.
- *Export*: two threads can report the same handle and each other's parents; two workers give
  a release that is cut off and the one that takes it up, with a late message of the first; a
  second report overlaps the first.
- *Release queue*: two handles (an element and its parent) tell a queue from a set with one
  member; a second object at an address is the registry's case; two frames are one nesting, and a
  third adds no new pair of an outer and an inner operation.
- *Style engine*: the rules are chosen so that each claim of the code has its case: a property
  that two rules claim, a bucket of the group beside an unconditional one, a dynamic style and a
  static one of one property, captures after styles and without any, a style that is inert and
  leaves its bucket empty. Two frames are one nesting; a third would nest in the nested one.
- *Style variables*: the two variables feed each other, so the cycle reaches the limit of 3; `b`
  starts beside `w` and may be moved below it; six events leave room for a
  report of each element, a change, a removal and one more report.
- *Tray*: two Explorers give the replacement at every step; two actions let one fall into the
  operation of the other.
- *Preparation*: backtracking needs a wildcard, two parts above it and a path on which the first
  candidate fails (two wildcards, one inside the other, need five parts: the theorem alone covers them);
  two operators give every pair of precedences and every operator inside every
  other; four names of which one begins another give chains of references against the loop's
  order, which takes fewer than the eight passes that the loop allows.

`CHECK_DEADLOCK FALSE` where the bounded requests, signals, reports, events or workers may be
used up: the idle system then stops, as the real one waits. (The subscription has no such end;
ledger and mailbox have none either, the transitions beside them have.)

Fairness. `Subscription`: the control thread, the workers and the reports already inside a
callback go on; COM calls return. New commands and reports need not come. `CommandMailbox`: messages
are received and callers finish their push and post; restarts need not come. `ThemeTransition`:
the control thread runs and takes its messages, workers end and notify, reports end.
`SnapshotExport`: the worker alone goes on; UI threads may stall for ever in a report or a
release, which is what the timeouts are for. `ReleaseQueue`: XAML's calls return, the clock and
the armed timer go on, a drain examines its batch; reports and nested work need not come. `Tray`: every
awaited call returns (the export and the restart have a time limit in the code; the load has one for
its attempts, but none for the native call inside, of which the design says that it is not
interrupted when it blocks: a tray whose load blocks waits with it, and `Settles` does not speak of
it), the poll timer ticks, messages of its
own queue are dispatched, a command that has begun writes and signals, and a TAP that is loaded
goes on to listen and to read; Explorer, the user and commands need not start anything. It is weak
fairness throughout: threads are scheduled by the operating system, and nothing is assumed of
late messages, of the outside, or of timers other than those named. A transition waits in no send for ever, since the
timeout is a step of its own.

The fairness of `ThemeTransition` and of `CommandMailbox` is `Fairness` and `MailboxFairness`; in the other
modules it is part of `FairSpec`.

The violations. `StoppedIsReplaceable`: `SubscriptionState` becomes Stopped (`change_subscription.cpp:187`) before
`g_subscription` is cleared (189). When the advise worker runs these steps and a stop on the
control thread falls in between, the stop returns Stopped, the transition goes on, and
`StartSubscription` finds the old subscription published (219) and returns `E_PENDING`. The
theme is then disabled with the transition already over, and nothing retries it. The header's
comment ties Stopped to the end of publication.

`ShellValuesReturned`: a report has claimed a property, found it dynamic and published its bucket, and
still has captures to register or later values to load. A variable changes meanwhile, and the nested
re-evaluation sets the property (`style_engine.cpp:926`), with the value it finds as the original. The
shell writes the property, and nothing watches it: the report registers its watches at its end (804).
The element is removed, then or after the report has ended with the original kept, and gets the
older value back.

`NothingFreedIsUsed`: a report waits for a setter, its element is removed underneath, and the setter
fails to load. The exception goes past the check of the generation (`style_engine.cpp:732`), and
the report goes on with the state that the removal has erased.

`ReparentingConverges`: an element that captures a variable and reads it is moved and reported. The
report resolves its expression while its capture has the chain of the old place, and another
captor looks closer; then the chain is refreshed, and nobody is told.

## 4. Proofs

Checked by TLAPS for any (also infinite) sets of sessions, handles, threads, subscriptions,
reports, callers, themes, elements and properties, any rules and any bound. The only assumptions
are the modules' named ones: that the constants standing for "none" and the control thread are not
members of the sets they are added to, that bounds are natural numbers, that `Hookless` is a set
of owners, that rules are sequences of matches with a style or a capture each, that the keys
an application defines are keys, and that the names of variables are finitely many.

- `HandleLedgerProofs`: `TypeCorrect`, `AttemptsAlwaysOwned`, `CoverageAlwaysExact`,
  `ResidualAlwaysExact`, and the action property `SequenceAlwaysCounts`. Ownership of attempts is inductive with `TokensCurrent` (a thread's
  token is the attempt recorded in its entry, and no two threads share one). Coverage needs
  `ReregistrationSeen`: a handle registered again behind a successful release either still has
  its report to come, or was observed after that release began, which is what
  `CompleteRelease` compares. It in turn needs that no entry refers to a later revision
  (`RevisionsBounded`), and that a release without a token has given up completeness. Residual
  counts rest on the session's lock between the retired flag and the marking.
- `SubscriptionProofs`: `TypeCorrect`, `UnadviseHasOneOwner`, `ReplacementNeverOverlaps` (the
  refinement of `ExclusiveSubscription`), `NoWakeUpIsLost`. The invariant is `Ownership /\
  Lease /\ Waiting`: `Ownership` names, phase by phase, the thread that must move the
  subscription on; `Lease` says what has been given back in each phase (callback disabled,
  registration dropped, no report inside); `Waiting` strengthens `WaitIsAnswered` with where
  the control thread is in a stop. The property alone is not inductive: that the last step of a
  stop notifies depends on who owns it.
- `ReleaseQueueProofs`: `ReleaseTypeCorrect`, `NothingIsLost`: for any number of handles,
  sessions and frames, and any nesting, a registered handle stays queued, in a batch under way, or with
  the report that will queue it. Inductive with the types and the shape of the stack: only the innermost
  frame changes, and what an outer drain has swapped out stays in its frame.
  `NoStateEverStranded` adds `Requeueing`: a handle that is being released while its element has
  style state again was reported underneath and is queued again; `Remembered`: while a handle is being
  removed, its element has state under no other id than the removal has found; and that ids are
  unique. `Remembered` is what a report of the element inside its own removal would break, so all
  of this is inductive under `~readded`.
- `ControlThreadProofs`, of the mailbox: `MailboxTypeCorrect`, `AlwaysOneWakeUp`. Inductive with
  `Begun`: no caller and no message has a generation that has not begun.
  Of the transitions: `TransitionTypeCorrect`, `OneThemeAlways`, `InactiveAlwaysClean`,
  `NothingEverForgotten`, and the action properties `SessionAlwaysOutlivesHandles` and
  `LateRestoreAlwaysHarmless`. The invariant is a conjunction of what the steps of
  `DriveTransition` hand to one another: `OneTheme` (what threads hold
  or have captured is the installed theme, and a late restore that has passed its check finds none),
  `Restoring` (from the restore to the hosts' initialization every thread that has answered
  is bare: it neither holds nor has captured a theme), `Draining` (from the end of the
  subscription to the next there is none, and from the end of the drain no queue holds a
  handle), `Reports` (what a report can bring about, and only under a subscription), and
  `Informed` (a stale caller or an unread reload has been seen, or has left a command).
- `SnapshotExportProofs`: `SnapshotTypeCorrect`, `HandlesAlwaysKept`, `OneReleaserAlways`,
  `NothingEverLeftBehind`, `IdleAlwaysSignalled`. `Counted` and `Signalled` tie the count
  of callbacks to the threads inside and to the event, which changes in a step of its own (a
  count is a cardinality: here `FiniteSetTheorems` are used, though the set of threads may be
  infinite). `Lives` states the life of a payload, from posted to settled, by who can still refer
  to it; `Stopping`, `Visiting` and `Afforded` place the worker, down to the number of payloads a
  thread can still get; `Kept` is `HandlesKept` with the worker's position.
- `StyleEngineProofs`: `EngineTypeCorrect`, `ShellValuesAlwaysKept`, `AlwaysOneOwner`,
  `AlwaysShowsItsState`, `OverridesAlwaysUndone`. All but the last hold
  until a report goes astray. A report in the middle of its rules is the
  hard case: anything may have run since its last step. The invariant says, of every
  frame on the stack, that its element either has another generation by now, or is still
  unwatched and holds only properties that the report itself has claimed (`Building`). A report that
  was overtaken and goes on all the same changes buckets that are another's: nobody builds these,
  because the other report of the element began inside it and has ended (`Succession`). Buckets
  are `Whole`: each property in one of them, values of the owning report, originals
  that the shell wrote. Operations that keep the shape of the buckets (applying, putting a value,
  honouring a write) keep `Building` for every frame, which is one lemma for all of them. `Caches`
  and `Showing` follow the theme that the thread has adopted; `readopted` came out of their proof. That
  dropping empty buckets keeps the order and the rest (`Kept`) is proved from the least element of a set
  of numbers, as the definition is not recursive. `Overrides` is the invariant of the resources: a
  key that the application defines and that an entry names has its original kept.
- `StylingProofs`, of the variables: `VariablesTypeCorrect`, `ConsumersAlwaysIndexed`, `RemovedAlwaysBare`,
  `AlwaysConverges`. `ConsumersIndexed` is inductive with the types alone, once it is known what
  erasing from a list leaves (`Without`, an induction by the least counterexample, as the definition
  recurs over the list). `RemovedStaysBare` needs that an element whose report is about to apply its
  property is still styled, and that no removal of it has begun inside that report
  (`Exclusive`). Convergence holds at rest only, so its invariant says what holds during the
  propagations, as long as nothing excused has happened (`Calm`): a styled element's
  resolved value and names are what its expression yields now (`Sound`), or a propagation on
  the stack still has the element to visit for a name it reads (`Pending`), or a
  capture it reads has died unnoticed (`Orphaned`); and it shows its value, or a report or
  removal of it is under way and will set it (`Handled`). What carries the proof: an expansion
  depends on no name but those it has read (`ExpansionIsLocal`), so a change of a capture can
  disturb only the elements registered for its name, and by `ConsumersIndexed` the
  propagation started with the change has exactly those in its copy. `Numbered` (a later
  capture has a greater sequence number, and no two of a name have the same) makes the closest
  capture unique.
  Of the matcher: `AlwaysMatchesExactly`. A step of the specification only adds a part or an
  element, so the invariant is that the chain was validated; the theorem is about
  `MatchesChain` on every chain and path. `Exact` says of each level of `MatchParents`, from
  every depth and with every reference, that it matches if and only if the parts left can be laid
  above (`Laid`, `Reaches`), and then leaves the group of such a placement (`Told`). One lemma per
  kind of part takes `Exact` from the levels below; the wildcard's is an induction over the
  ancestors left. A candidate given up there may leave a reference behind: a later
  match overwrites it if a part left names the group, and if none does, the reference
  was never touched, the fourth conjunct of `Exact`. Validation lets only one part name a group,
  so the last writer does not matter. Both inductions take a least counterexample, after a
  lemma that the recursive function exists.
  Of the evaluator: `AlwaysEvaluatesLazily`, for any variables and bindings, any literals
  and any number of operators. The invariant is that every expression on the stack is `Correct`: at
  its level of the grammar (and so at every looser one, and in parentheses at any) its text is
  `Parsed`. That is, wherever it stands in some tokens, with a table deep enough for it (`Room`)
  and followed by something that cannot continue it (`Ends`), a live call ends behind the text
  with its meaning and its dependencies, or fails if it means a failure; and a call that
  is not live ends behind it, without failing and without a dependency. The second half is what makes
  the first hold for a conditional. Operators associate to the left, so the left
  operand of a loop at its own level is what the loop has read after some of its turns: `Taken` says
  that. One lemma per way to combine expressions takes the operands to the result
  (`ComputedCorrect`, `ConditionalCorrect`, ...). Depth is counted, not recursed over: the
  induction is over the building steps, and a least counterexample is needed only to show
  that the table and the loop exist.
- `TrayProofs`: `TriggerIsKept`, `ActiveIsAlwaysAccepted`, `PollsNeverRetry`. Inductive with
  `RequestOwned` (while a request is under way, the machine speaks of the process it was made
  to, and what is about to complete has been accepted there), `FailureShown` (a process where an
  attempt failed is a past one, or the machine still shows the failure, which is what stops a
  poll) and `ClosesAtRest`.

Only model-checked: liveness (`TransitionResolves`, `Heard`, `TransitionEnds`, `WorkerEnds`,
`BurstDrains`, `Settles`, `TapFollows`), which is beyond the prover, and one algorithm of the preparation, `ResolvesAsDeclared`: texts are
rewritten character by character, by operators declared RECURSIVE, and the eight passes of
`kMaxPasses` suffice for the constants of the run, not for chains of any length.

## 5. Not modelled, and the plan

Left, in the order planned:

1. The forest of a snapshot (`tap/tree_format.cpp`) against its definition; `FindMatchingRules`.

Not planned: property setter, blur brushes and effects (what XAML and the compositor do with
values), the log, DLL entry points, JSON and UTF conversions, tray windows, installer, tools
and theme files. They keep no state that another component depends on, or their behaviour is
that of a library. The end of a UI thread with its window, in a living Explorer, is not
modelled either.

## 6. Running

    tlc -config MCDiagnostics.cfg MCDiagnostics
    tlc -config MCSubscription.cfg MCSubscription
    tlc -config MCSubscriptionReplaced.cfg MCSubscription     # finds the violation
    tlc -config MCControlThread.cfg MCControlThread
    tlc -config MCSnapshotExport.cfg MCSnapshotExport
    tlc -config MCReleaseQueue.cfg MCReleaseQueue
    tlc -config MCStyleEngine.cfg MCStyleEngine
    tlc -config MCStyleEngineReturned.cfg MCStyleEngine       # finds the violation
    tlc -config MCStyleEngineFreed.cfg MCStyleEngine          # finds the violation
    tlc -config MCStyling.cfg MCStyling
    tlc -config MCStyleVariablesMoved.cfg MCStyleVariables    # finds the violation
    tlc -config MCTray.cfg MCTray
    tlapm HandleLedgerProofs.tla
    tlapm SubscriptionProofs.tla
    tlapm ControlThreadProofs.tla
    tlapm SnapshotExportProofs.tla
    tlapm ReleaseQueueProofs.tla
    tlapm StyleEngineProofs.tla
    tlapm StylingProofs.tla
    tlapm TrayProofs.tla

The definitions that TLC has to see broken (`...Always`, `...Silently`, and the like, each
commented as a mutant) stand before the definition they alter; no specification uses them.
