---------------------------- MODULE HandleLedger ----------------------------
(***************************************************************************)
(* The accounting of XAML handles that are registered with diagnostics     *)
(* and not yet released: HandleLedger (handle_ledger.cpp), the diagnostics *)
(* sessions that feed it and ReleaseHandle, its only client                *)
(* (visual_tree_watcher.cpp).                                              *)
(*                                                                         *)
(* A key is a pair <<owner, handle>>.  An owner is one diagnostics         *)
(* session.  `registered' is what XAML itself holds: it is not a variable  *)
(* of the program, and the point of the ledger is to never under-count it. *)
(* Every action is one critical section of the code or one external call,  *)
(* so a report, a release and a retirement interleave wherever two threads *)
(* of explorer.exe can.                                                    *)
(*                                                                         *)
(* Abstracted: the outcome counters and log lines, and std::mutex::lock    *)
(* throwing.  Allocation failure and revision overflow are modelled:       *)
(* MaxRevision stands for the largest 64-bit revision.                     *)
(***************************************************************************)
EXTENDS Integers

CONSTANTS Owners,       \* identities a DiagnosticsSession can get
          Handles,      \* XAML instance handles
          Callers,      \* explorer threads that report, release, open or close
          Hookless,     \* owners whose IXamlDiagnosticsTestHooks is missing
          NoOwner,      \* g_session holds no session
          MaxRevision   \* std::numeric_limits<uint64_t>::max()

ASSUME LedgerAssumption ==
    /\ MaxRevision \in Nat
    /\ Hookless \subseteq Owners
    /\ NoOwner \notin Owners

VARIABLES
    entries,      \* entries_: what the ledger knows of each key
    revision,     \* revision_
    sequence,     \* sequence_, which a Snapshot exposes
    complete,     \* complete_: no coverage has been lost
    opened,       \* owners handed out by g_next_owner
    current,      \* g_session
    retired,      \* owners whose retired_ flag is set
    registered,   \* keys XAML holds a registration for (external)
    pc, arg, token, victim   \* what each thread is doing, and its locals

ledgerVars  == <<entries, revision, sequence, complete>>
sessionVars == <<opened, current, retired>>
threadVars  == <<pc, arg, token, victim>>
handleVars == <<ledgerVars, sessionVars, registered, threadVars>>

Keys == Owners \X Handles

Untracked == [tracked |-> FALSE, observation |-> 0, attempt |-> 0,
              releaseObservation |-> 0, retired |-> FALSE]

Locations == {"idle", "report", "untracked", "begun", "succeeded", "failed",
              "unavailable", "retire", "mark"}

Entry == [tracked : BOOLEAN, observation : Nat, attempt : Nat,
          releaseObservation : Nat, retired : BOOLEAN]

TypeOK ==
    /\ entries \in [Keys -> Entry]
    /\ revision \in 0..MaxRevision
    /\ sequence \in Nat
    /\ complete \in BOOLEAN
    /\ opened \subseteq Owners
    /\ current \in Owners \cup {NoOwner}
    /\ retired \subseteq Owners
    /\ registered \subseteq Keys
    /\ pc \in [Callers -> Locations]
    /\ arg \in [Callers -> Keys]
    /\ token \in [Callers -> Nat]
    /\ victim \in [Callers -> Owners]

LedgerInit ==
    /\ entries = [k \in Keys |-> Untracked]
    /\ revision = 0
    /\ sequence = 0
    /\ complete = TRUE
    /\ opened = {}
    /\ current = NoOwner
    /\ retired = {}
    /\ registered = {}
    /\ pc = [t \in Callers |-> "idle"]
    /\ arg \in [Callers -> Keys]
    /\ token = [t \in Callers |-> 0]
    /\ victim \in [Callers -> Owners]

(***************************************************************************)
(* HandleLedger: one operator per locked method.                           *)
(***************************************************************************)
UncheckedRevision == revision + 1      \* mutant: wraps past the limit

\* NextRevisionLocked: 0 means that the counter is exhausted.
NextRevision == IF revision = MaxRevision THEN 0 ELSE revision + 1

RevisionTaken == /\ NextRevision # 0
                 /\ revision' = NextRevision

Observed(e, isRetired) ==
    [e EXCEPT !.tracked = TRUE, !.observation = NextRevision,
              !.retired = e.retired \/ isRetired]

LedgerObserve(k, isRetired) ==
    \/ /\ RevisionTaken
       /\ entries' = [entries EXCEPT ![k] = Observed(entries[k], isRetired)]
       /\ sequence' = sequence + 1
       /\ UNCHANGED complete
    \/ /\ RevisionTaken            \* try_emplace throws on a new key
       /\ ~entries[k].tracked
       /\ complete' = FALSE
       /\ UNCHANGED <<entries, sequence>>
    \/ /\ NextRevision = 0         \* MarkIncomplete, return false
       /\ complete' = FALSE
       /\ UNCHANGED <<entries, revision, sequence>>

AnySuccessErases(e, outcome) ==    \* mutant: forgets the newer report
    IF outcome = "succeeded" THEN Untracked ELSE [e EXCEPT !.attempt = 0]

\* The entry as CompleteRelease leaves it: a success erases it, unless a
\* report arrived while the external call was in progress.
Completed(e, outcome) ==
    IF outcome = "succeeded" /\ e.observation = e.releaseObservation
    THEN Untracked
    ELSE [e EXCEPT !.attempt = 0]

\* A token that is not the entry's attempt any more is ignored.
TokenCurrent(k, r) == r # 0 /\ entries[k].tracked /\ entries[k].attempt = r

LedgerCompleteUncounted(k, r, outcome) ==    \* mutant: no ++sequence_
    /\ UNCHANGED sequence
    /\ entries' = IF TokenCurrent(k, r)
                  THEN [entries EXCEPT ![k] = Completed(entries[k], outcome)]
                  ELSE entries

LedgerComplete(k, r, outcome) ==
    IF TokenCurrent(k, r)
    THEN /\ entries' = [entries EXCEPT ![k] = Completed(entries[k], outcome)]
         /\ sequence' = sequence + 1
    ELSE UNCHANGED <<entries, sequence>>

-----------------------------------------------------------------------------
Goto(t, l) == pc' = [pc EXCEPT ![t] = l]

(***************************************************************************)
(* Reports.  XAML registers a handle, then calls back into the watch,      *)
(* whose first statement is DiagnosticsSession::Observe.  Both halves of   *)
(* the pair run on the reporting thread; everything else runs in between.  *)
(***************************************************************************)
Report(t, k) ==
    /\ pc[t] = "idle"
    /\ k[1] \in opened
    /\ registered' = registered \cup {k}
    /\ arg' = [arg EXCEPT ![t] = k]
    /\ Goto(t, "report")
    /\ UNCHANGED <<ledgerVars, sessionVars, token, victim>>

\* observation_mutex_ is held by a thread inside Retire.
ObservationLocked(o) == \E t \in Callers : pc[t] = "mark" /\ victim[t] = o

ObserveStaleFlag(t) ==      \* mutant: retired_ read before the mutex is taken
    /\ pc[t] = "report"
    /\ LedgerObserve(arg[t], FALSE)
    /\ Goto(t, "idle")
    /\ UNCHANGED <<sessionVars, registered, arg, token, victim>>

Observe(t) ==
    /\ pc[t] = "report"
    /\ ~ObservationLocked(arg[t][1])
    /\ LedgerObserve(arg[t], arg[t][1] \in retired)
    /\ Goto(t, "idle")
    /\ UNCHANGED <<sessionVars, registered, arg, token, victim>>

(***************************************************************************)
(* ReleaseHandle.                                                          *)
(***************************************************************************)
\* A queued handle whose session is gone: nothing can be called.
ReleaseWithoutOwner(t) ==
    /\ pc[t] = "idle"
    /\ complete' = FALSE
    /\ UNCHANGED <<entries, revision, sequence, sessionVars, registered,
                   threadVars>>

BeginRelease(t, k) ==
    /\ pc[t] = "idle"
    /\ k[1] \in opened
    /\ arg' = [arg EXCEPT ![t] = k]
    /\ \/ /\ ~entries[k].tracked              \* Untracked: release it anyway
          /\ token' = [token EXCEPT ![t] = 0]
          /\ Goto(t, "untracked")
          /\ UNCHANGED ledgerVars
       \/ /\ entries[k].tracked               \* Started
          /\ entries[k].attempt = 0
          /\ RevisionTaken
          /\ entries' = [entries EXCEPT
                            ![k].attempt = NextRevision,
                            ![k].releaseObservation = entries[k].observation]
          /\ sequence' = sequence + 1
          /\ token' = [token EXCEPT ![t] = NextRevision]
          /\ Goto(t, "begun")
          /\ UNCHANGED complete
       \/ /\ entries[k].tracked               \* InFlight: the caller keeps it
          /\ entries[k].attempt # 0
          /\ UNCHANGED <<ledgerVars, token, pc>>
       \/ /\ entries[k].tracked               \* no revision left: Unavailable
          /\ entries[k].attempt = 0
          /\ NextRevision = 0
          /\ complete' = FALSE
          /\ UNCHANGED <<entries, revision, sequence, token, pc>>
    /\ UNCHANGED <<sessionVars, registered, victim>>

MarkUntracked(t) ==
    /\ pc[t] = "untracked"
    /\ complete' = FALSE
    /\ Goto(t, "begun")
    /\ UNCHANGED <<entries, revision, sequence, sessionVars, registered,
                   arg, token, victim>>

\* UnregisterInstance, outside every lock.  A failing HRESULT and an
\* exception leave the registration and are both completed as Failed.
Unregister(t) ==
    /\ pc[t] = "begun"
    /\ IF arg[t][1] \in Hookless
       THEN Goto(t, "unavailable") /\ UNCHANGED registered
       ELSE \/ /\ registered' = registered \ {arg[t]}
               /\ Goto(t, "succeeded")
            \/ /\ Goto(t, "failed")
               /\ UNCHANGED registered
    /\ UNCHANGED <<ledgerVars, sessionVars, arg, token, victim>>

CompleteUnlessUnavailable(t) ==    \* mutant: no completion without hooks
    /\ pc[t] \in {"succeeded", "failed", "unavailable"}
    /\ IF pc[t] = "unavailable"
       THEN UNCHANGED <<entries, sequence>>
       ELSE LedgerComplete(arg[t], token[t], pc[t])
    /\ token' = [token EXCEPT ![t] = 0]
    /\ Goto(t, "idle")
    /\ UNCHANGED <<revision, complete, sessionVars, registered, arg, victim>>

CompleteRelease(t) ==
    /\ pc[t] \in {"succeeded", "failed", "unavailable"}
    /\ LedgerComplete(arg[t], token[t], pc[t])
    /\ token' = [token EXCEPT ![t] = 0]
    /\ Goto(t, "idle")
    /\ UNCHANGED <<revision, complete, sessionVars, registered, arg, victim>>

(***************************************************************************)
(* OpenDiagnostics and CloseDiagnostics: the atomic exchange of g_session, *)
(* then Retire on the session that was displaced.                          *)
(***************************************************************************)
RetireDisplaced(t) ==
    IF current = NoOwner
    THEN UNCHANGED <<pc, victim>>
    ELSE /\ victim' = [victim EXCEPT ![t] = current]
         /\ Goto(t, "retire")

OpenDiagnostics(t) ==
    /\ pc[t] = "idle"
    /\ \E o \in Owners \ opened :
          /\ opened' = opened \cup {o}
          /\ current' = o
    /\ RetireDisplaced(t)
    /\ UNCHANGED <<ledgerVars, retired, registered, arg, token>>

CloseDiagnostics(t) ==
    /\ pc[t] = "idle"
    /\ current # NoOwner
    /\ current' = NoOwner
    /\ RetireDisplaced(t)
    /\ UNCHANGED <<ledgerVars, opened, retired, registered, arg, token>>

\* Retire takes observation_mutex_ and sets the flag...
RetireFlag(t) ==
    /\ pc[t] = "retire"
    /\ retired' = retired \cup {victim[t]}
    /\ Goto(t, "mark")
    /\ UNCHANGED <<ledgerVars, opened, current, registered, arg, token, victim>>

\* ... and MarkOwnerRetired, still under it, flags what the ledger holds.
ToMark(o) ==
    {k \in Keys : k[1] = o /\ entries[k].tracked /\ ~entries[k].retired}

MarkOwnerRetired(t) ==
    /\ pc[t] = "mark"
    /\ entries' = [k \in Keys |-> IF k \in ToMark(victim[t])
                                  THEN [entries[k] EXCEPT !.retired = TRUE]
                                  ELSE entries[k]]
    /\ sequence' = IF ToMark(victim[t]) = {} THEN sequence ELSE sequence + 1
    /\ Goto(t, "idle")
    /\ UNCHANGED <<revision, complete, sessionVars, registered, arg, token,
                   victim>>

LedgerNext ==
    \E t \in Callers :
        \/ \E k \in Keys : Report(t, k) \/ BeginRelease(t, k)
        \/ Observe(t)
        \/ ReleaseWithoutOwner(t)
        \/ MarkUntracked(t)
        \/ Unregister(t)
        \/ CompleteRelease(t)
        \/ OpenDiagnostics(t)
        \/ CloseDiagnostics(t)
        \/ RetireFlag(t)
        \/ MarkOwnerRetired(t)

LedgerSpec == LedgerInit /\ [][LedgerNext]_handleVars

-----------------------------------------------------------------------------
(***************************************************************************)
(* Properties                                                              *)
(***************************************************************************)
ReportPending(k) == \E t \in Callers : pc[t] = "report" /\ arg[t] = k

\* While coverage is claimed to be complete, every handle XAML still holds
\* registered is outstanding in the ledger, or its report is on its way in:
\* handle_ledger.h, "zero with complete=false is not an exact zero", taken
\* the other way round.  A release in progress may not swallow a report of
\* the same handle that arrives during the external call.
CoverageExact ==
    complete => \A k \in registered : entries[k].tracked \/ ReportPending(k)

\* Every attempt recorded in an entry is the unfinished call of exactly one
\* thread: no handle is released by two threads at once, and no entry stays
\* in flight with nobody left to complete it (it could never be released).
Releasing(t) == pc[t] \in {"begun", "succeeded", "failed", "unavailable"}

AttemptsOwned ==
    \A k \in Keys :
        entries[k].attempt # 0 =>
            \E t \in Callers :
                /\ Releasing(t) /\ arg[t] = k /\ token[t] = entries[k].attempt
                /\ \A u \in Callers \ {t} :
                      ~(Releasing(u) /\ arg[u] = k /\ token[u] # 0)

\* Once a displaced session's Retire has run, everything the ledger still
\* holds for it counts as residual, a report that was already on its way
\* when the session was closed included; and every displaced session is
\* retired by the thread that displaced it.
ResidualExact ==
    \A o \in opened \ {current} :
        \/ \E t \in Callers : pc[t] \in {"retire", "mark"} /\ victim[t] = o
        \/ \A h \in Handles : entries[<<o, h>>].tracked => entries[<<o, h>>].retired

\* Two snapshots with the same sequence describe the same ledger: whatever
\* changes an entry moves the sequence forward.
SequenceCounts == [][entries' # entries => sequence' > sequence]_handleVars
=============================================================================
