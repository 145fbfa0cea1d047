--------------------------- MODULE CommandMailbox ---------------------------
(***************************************************************************)
(* CommandMailbox (src/tap/command_mailbox.h) with the callers that fill   *)
(* it, PostCommand and NotifyContinuation, and the control window that     *)
(* empties it, OnCommand (src/tap/theme_session.cpp).  A wait callback, a  *)
(* worker or SetSite pushes commands from its own thread and posts one     *)
(* window message for all that are pending; StartReloadWatch and           *)
(* StopReloadWatch begin a new generation, which retires the old commands  *)
(* and the old messages.  Every method of the mailbox is one step, taken   *)
(* under its mutex.                                                        *)
(*                                                                         *)
(* External: PostMessageW may fail; messages of the window are kept as a   *)
(* count per generation, because Take does not depend on their order.      *)
(***************************************************************************)
EXTENDS Naturals

CONSTANTS Callers,       \* threads that push commands
          Commands,      \* kReloadCommand, kExportCommand, kSiteCommand, ...
          MaxGeneration, \* bounds the restarts of a run
          NoMessage      \* OnCommand is not running

ASSUME MailboxAssumption == MaxGeneration \in Nat /\ NoMessage \notin Nat

VARIABLES generation, flags, posted,  \* the mailbox; flags is pending_
          queued,     \* external: window messages not received, per generation
          received,   \* the message OnCommand is about to take, or NoMessage
          pc,         \* where each caller stands
          ticket,     \* the generation a caller pushes for
          pushed      \* the command it pushes

mailboxVars == <<generation, flags, posted, queued, received, pc, ticket, pushed>>

mailbox == <<generation, flags, posted>>

window == <<queued, received>>

Generations == 0..MaxGeneration

\* A generation never has two messages in the window's queue.
MailboxTypeOK ==
  /\ generation \in Generations
  /\ flags \subseteq Commands
  /\ posted \in BOOLEAN
  /\ queued \in [Generations -> 0..1]
  /\ received \in Generations \cup {NoMessage}
  /\ pc \in [Callers -> {"idle", "push", "post", "failed"}]
  /\ ticket \in [Callers -> Generations]
  /\ pushed \in [Callers -> Commands]

\* generation_ starts at 0; the first StartReloadWatch makes it 1.
MailboxInit ==
  /\ generation = 0
  /\ flags = {}
  /\ posted = FALSE
  /\ queued = [g \in Generations |-> 0]
  /\ received = NoMessage
  /\ pc = [p \in Callers |-> "idle"]
  /\ ticket = [p \in Callers |-> 0]
  /\ pushed \in [Callers -> Commands]

Goto(p, step) == pc' = [pc EXCEPT ![p] = step]

\* A caller reads the generation (NotifyContinuation), or was born with it (the
\* CommandEvent of a registered wait); it may be stale when it pushes.
BeginPost(p, c) ==
  /\ pc[p] = "idle"
  /\ ticket' = [ticket EXCEPT ![p] = generation]
  /\ pushed' = [pushed EXCEPT ![p] = c]
  /\ Goto(p, "push")
  /\ UNCHANGED <<mailbox, window>>

\* Push: only the first pending command of a generation asks for a message.
Push(p) ==
  /\ pc[p] = "push"
  /\ IF ticket[p] # generation
     THEN /\ Goto(p, "idle")
          /\ UNCHANGED <<flags, posted>>
     ELSE /\ flags' = flags \cup {pushed[p]}
          /\ posted' = TRUE
          /\ Goto(p, IF posted THEN "idle" ELSE "post")
  /\ UNCHANGED <<generation, window, ticket, pushed>>

\* PostThreadCommand: no window yet, a destroyed one or a full queue fails.
PostMessage(p) ==
  /\ pc[p] = "post"
  /\ \/ /\ queued' = [queued EXCEPT ![ticket[p]] = @ + 1]
        /\ Goto(p, "idle")
     \/ /\ Goto(p, "failed")
        /\ UNCHANGED queued
  /\ UNCHANGED <<mailbox, received, ticket, pushed>>

\* A mutant: a failure of a retired generation clears the current one.
PostFailedAlways(p) ==
  /\ pc[p] = "failed"
  /\ posted' = FALSE
  /\ Goto(p, "idle")
  /\ UNCHANGED <<generation, flags, window, ticket, pushed>>

\* PostFailed: the commands stay pending, the next Push posts for them.
PostFailed(p) ==
  /\ pc[p] = "failed"
  /\ posted' = (posted /\ ticket[p] # generation)
  /\ Goto(p, "idle")
  /\ UNCHANGED <<generation, flags, window, ticket, pushed>>

\* The control thread receives a message...
Receive(g) ==
  /\ received = NoMessage
  /\ queued[g] > 0
  /\ queued' = [queued EXCEPT ![g] = @ - 1]
  /\ received' = g
  /\ UNCHANGED <<mailbox, pc, ticket, pushed>>

\* A mutant: commands are taken but the mailbox is not reopened.
TakeKeepsPosted ==
  /\ received # NoMessage
  /\ flags' = IF received = generation THEN {} ELSE flags
  /\ received' = NoMessage
  /\ UNCHANGED <<generation, posted, queued, pc, ticket, pushed>>

\* ... and takes everything pending, unless the message is of a retired
\* generation.
Take ==
  /\ received # NoMessage
  /\ IF received = generation
     THEN flags' = {} /\ posted' = FALSE
     ELSE UNCHANGED <<flags, posted>>
  /\ received' = NoMessage
  /\ UNCHANGED <<generation, queued, pc, ticket, pushed>>

\* A mutant: the flag survives into the new generation.
RestartKeepsPosted ==
  /\ received = NoMessage
  /\ generation < MaxGeneration
  /\ generation' = generation + 1
  /\ flags' = {}
  /\ UNCHANGED <<posted, window, pc, ticket, pushed>>

\* Restart, by the control thread between two messages.
Restart ==
  /\ received = NoMessage
  /\ generation < MaxGeneration
  /\ generation' = generation + 1
  /\ flags' = {}
  /\ posted' = FALSE
  /\ UNCHANGED <<window, pc, ticket, pushed>>

CallerStep(p) == \/ \E c \in Commands : BeginPost(p, c)
                 \/ Push(p) \/ PostMessage(p) \/ PostFailed(p)

ControlStep == \/ \E g \in Generations : Receive(g)
               \/ Take \/ Restart

MailboxNext == ControlStep \/ \E p \in Callers : CallerStep(p)

MailboxSpec == MailboxInit /\ [][MailboxNext]_mailboxVars

\* Threads run on and the control thread receives every message; it need not
\* restart, and a post need not succeed.
MailboxFairness ==
  /\ WF_mailboxVars(Take)
  /\ \A g \in Generations : WF_mailboxVars(Receive(g))
  /\ \A p \in Callers :
        WF_mailboxVars(Push(p) \/ PostMessage(p) \/ PostFailed(p))

-----------------------------------------------------------------------------
\* Callers between a Push that returned true and the end of their post.
Posting(g) == {p \in Callers : pc[p] \in {"post", "failed"} /\ ticket[p] = g}

\* A message of this generation is on its way, or about to be sent.
Awake(g) == queued[g] > 0 \/ received = g \/ Posting(g) # {}

\* No generation has two wake-ups, wherever they stand.
Single(g) == /\ queued[g] > 0 => received # g /\ Posting(g) = {}
             /\ received = g => Posting(g) = {}
             /\ \A p, q \in Posting(g) : p = q

\* The mailbox says "posted" exactly while one wake-up of its generation is
\* on its way: a restart, a stale message, a stale push or a failure reported
\* late never makes it deaf (posted, nothing on its way), which would swallow
\* every later command, nor makes it wake the window twice.
OneWakeUp == /\ posted <=> Awake(generation)
             /\ \A g \in Generations : Single(g)

\* A pending command with a wake-up behind it is taken by OnCommand, unless
\* the post fails or the generation is retired.
Heard == \A c \in Commands : (c \in flags /\ posted) ~> (c \notin flags \/ ~posted)
=============================================================================
