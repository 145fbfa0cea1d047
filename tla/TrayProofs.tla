----------------------------- MODULE TrayProofs ------------------------------
(* What holds of the tray for any number of themes, Explorers, actions and  *)
(* commands.                                                                *)
EXTENDS Tray, TLAPS

Machine == [state : {"inactive", "waiting", "active", "failed"}, pending : BOOLEAN,
            attempted : BOOLEAN, explorer : Nat, enabled : BOOLEAN]

Kinds == {"none", "deciding", "signalling", "loading", "checking",
          "exportLoading", "exportSignal", "exporting", "restarting"}

Operation == [kind : Kinds, trigger : Triggers, explorer : Nat, enabled : BOOLEAN,
              action : {"none", "reset", "reload", "load", "export"}, exit : BOOLEAN]

TypeOK ==
  /\ machine \in Machine /\ op \in Operation
  /\ coalesced \in Triggers \cup {"none"} /\ posted \subseteq Triggers
  /\ closing \in BOOLEAN /\ asked \in BOOLEAN
  /\ shell \in Nat /\ generation \in Nat

(* The program ends only after its operation has.                           *)
ClosesAtRest == closing => ~Busy

(* A request is under way exactly as the machine says.                      *)
Requesting == op.kind \in {"signalling", "loading", "checking",
                           "exportLoading", "exportSignal", "exporting"}
RequestOwned ==
  /\ Requesting => machine.explorer = op.explorer /\ op.explorer <= generation
  /\ op.kind \in {"checking", "exporting"} => op.explorer \in accepted
  /\ machine.pending => machine.state = "waiting"

(* A process where an attempt has failed is one of the past, or the machine *)
(* still shows the failure.                                                 *)
FailureShown ==
  /\ shell <= generation
  /\ \A e \in blocked : e \in Nat /\ e <= generation
  /\ shell \in blocked /\ shell # 0 => machine.explorer = shell /\ machine.state = "failed"
  /\ op.kind = "deciding" /\ op.trigger # "poll" => blocked = {}

Inv == TypeOK /\ ClosesAtRest /\ RequestOwned /\ FailureShown /\ TriggerKept

-----------------------------------------------------------------------------
(* The operations of the machine.                                           *)

LEMMA RenewedResult ==
  ASSUME NEW m \in Machine, NEW explorer \in Nat, NEW trigger \in Triggers,
         NEW enabled \in BOOLEAN
  PROVE  /\ Renewed(m, explorer, trigger, enabled) \in Machine
         /\ Renewed(m, explorer, trigger, enabled).explorer = explorer
         /\ \/ Renewed(m, explorer, trigger, enabled) = m
            \/ /\ Renewed(m, explorer, trigger, enabled).state \in {"waiting", "inactive"}
               /\ ~Renewed(m, explorer, trigger, enabled).pending
         /\ trigger = "poll" /\ m.explorer = explorer
              => Renewed(m, explorer, trigger, enabled) = m
BY DEF Renewed, Changed, Resting, Machine, Triggers

(* BeginOperation never makes a machine active, and a poll leaves a failed  *)
(* one alone.                                                               *)
LEMMA BeginOperationResult ==
  ASSUME NEW m \in Machine, NEW explorer \in Nat, NEW trigger \in Triggers,
         NEW enabled \in BOOLEAN, NEW present \in BOOLEAN,
         m.pending => m.state = "waiting",
         NEW b, b = BeginOperation(m, explorer, trigger, enabled, present)
  PROVE  /\ b \in Machine
         /\ b.explorer = explorer
         /\ b = m \/ b.state # "active"
         /\ b.pending => b.state = "waiting"
         /\ Asks(m, explorer, trigger, enabled, present) => explorer # 0 /\ b.pending
         /\ trigger = "poll" /\ m.explorer = explorer /\ m.state = "failed" /\ explorer # 0
              => /\ ~Asks(m, explorer, trigger, enabled, present)
                 /\ b.state = "failed"
<1> DEFINE r == Renewed(m, explorer, trigger, enabled)
<1>1. /\ r \in Machine /\ r.explorer = explorer
      /\ r = m \/ (r.state \in {"waiting", "inactive"} /\ ~r.pending)
      /\ trigger = "poll" /\ m.explorer = explorer => r = m
  BY RenewedResult
<1>2. Asks(m, explorer, trigger, enabled, present) <=>
        /\ explorer # 0
        /\ trigger = "poll" => /\ ~Declined(m, r, explorer, enabled, present)
                               /\ ~LostChannel(r, enabled, present)
        /\ enabled \/ present
  BY DEF Asks
<1>3. b = IF Asks(m, explorer, trigger, enabled, present) THEN Begun(r, enabled)
          ELSE IF explorer = 0
            THEN [r EXCEPT !.pending = FALSE, !.state = Resting(enabled)]
          ELSE IF trigger = "poll" /\ Declined(m, r, explorer, enabled, present) THEN r
          ELSE IF trigger = "poll" /\ LostChannel(r, enabled, present)
            THEN [r EXCEPT !.state = "failed"]
          ELSE [r EXCEPT !.pending = FALSE, !.state = "inactive"]
  BY DEF BeginOperation
<1>4. r.pending \/ r.state = "failed" => Declined(m, r, explorer, enabled, present)
  BY DEF Declined
<1> HIDE DEF r
<1>5. CASE Asks(m, explorer, trigger, enabled, present)
  BY <1>1, <1>2, <1>3, <1>4, <1>5 DEF Begun, Machine
<1>6. CASE ~Asks(m, explorer, trigger, enabled, present)
  <2>1. CASE explorer = 0
    BY <1>1, <1>3, <1>6, <2>1 DEF Machine, Resting
  <2>2. CASE explorer # 0 /\ trigger = "poll" /\ Declined(m, r, explorer, enabled, present)
    BY <1>1, <1>3, <1>6, <2>2
  <2>3. CASE /\ explorer # 0
             /\ ~(trigger = "poll" /\ Declined(m, r, explorer, enabled, present))
    BY <1>1, <1>3, <1>4, <1>6, <2>3 DEF Machine
  <2> QED BY <2>1, <2>2, <2>3
<1> QED BY <1>5, <1>6

LEMMA CompleteResult ==
  ASSUME NEW m \in Machine, NEW success \in BOOLEAN, m.pending => m.state = "waiting",
         NEW c, c = Complete(m, success)
  PROVE  /\ c \in Machine /\ c.explorer = m.explorer /\ ~c.pending
         /\ m.pending /\ ~success => c.state = "failed"
         /\ ~success => c.state = m.state \/ c.state = "failed"
         /\ ~m.pending \/ (~success /\ m.state = "failed") => c.state = m.state
         /\ ~m.pending => c = m
BY DEF Complete, Machine

LEMMA FailResult ==
  ASSUME NEW m \in Machine
  PROVE  /\ Fail(m) \in Machine /\ Fail(m).explorer = m.explorer /\ ~Fail(m).pending
         /\ Fail(m).state = "failed"
BY DEF Fail, Machine

LEMMA BeginExportResult ==
  ASSUME NEW m \in Machine, NEW explorer \in Nat, NEW enabled \in BOOLEAN,
         NEW b, b = BeginExport(m, explorer, enabled)
  PROVE  b \in Machine /\ b.explorer = explorer /\ b.pending /\ b.state = "waiting"
BY DEF BeginExport, Begun, Machine
-----------------------------------------------------------------------------
LEMMA InitInv == Init => Inv
<1> SUFFICES ASSUME Init PROVE Inv
  OBVIOUS
<1> USE DEF Init, NoOp, Triggers
<1>1. machine \in Machine /\ op \in Operation
  BY DEF Machine, Operation, Kinds
<1>2. TypeOK
  <2>1. /\ coalesced \in Triggers \cup {"none"} /\ posted \subseteq Triggers
        /\ closing \in BOOLEAN /\ asked \in BOOLEAN
    BY Zenon
  <2>2. shell \in Nat /\ generation \in Nat
    OBVIOUS
  <2> QED BY <1>1, <2>1, <2>2 DEF TypeOK
<1>3. ClosesAtRest /\ RequestOwned /\ FailureShown
  BY DEF ClosesAtRest, RequestOwned, FailureShown, Requesting
<1>4. TriggerKept
  BY DEF TriggerKept, Retries
<1> QED BY <1>2, <1>3, <1>4 DEF Inv

(* The end of an operation keeps the trigger.                               *)
LEMMA FinishKeepsTrigger ==
  ASSUME Inv, NEW m \in Machine, NEW kept,
         Finish(m, kept), kept = coalesced \/ kept = "created", ~closing, UNCHANGED asked
  PROVE  /\ op' = NoOp /\ machine' = m
         /\ op' \in Operation /\ posted' \subseteq Triggers
         /\ coalesced' \in Triggers \cup {"none"} /\ closing' \in BOOLEAN
         /\ ClosesAtRest' /\ TriggerKept'
<1>1. /\ op' = NoOp /\ machine' = m /\ coalesced' = "none"
      /\ posted' = posted \cup ({kept} \ {"none"})
      /\ closing' = (op.exit /\ m.state # "failed")
  BY DEF Finish
<1>2. op' \in Operation /\ op'.kind = "none"
  BY <1>1 DEF NoOp, Operation, Kinds, Triggers
<1>3. posted' \subseteq Triggers /\ coalesced' \in Triggers \cup {"none"}
  BY <1>1 DEF Inv, TypeOK, Triggers
<1>4. closing' \in BOOLEAN
  BY <1>1 DEF Inv, TypeOK, Operation
<1>5. ClosesAtRest'
  BY <1>2 DEF ClosesAtRest, Busy
<1>6. TriggerKept'
  BY <1>1 DEF Inv, TriggerKept, Retries, TypeOK
<1> QED BY <1>1, <1>2, <1>3, <1>4, <1>5, <1>6

(* An operation with a request fails.                                       *)
LEMMA FinishFailedKeepsInv ==
  ASSUME Inv, FinishFailed, Requesting, UNCHANGED <<shell, generation>>
  PROVE  Inv'
<1> DEFINE c == Complete(machine, FALSE)
<1>1. machine \in Machine /\ (machine.pending => machine.state = "waiting") /\ ~closing
  BY DEF Inv, TypeOK, RequestOwned, ClosesAtRest, Requesting, Busy
<1>2. /\ c \in Machine /\ c.explorer = machine.explorer /\ ~c.pending
      /\ machine.pending => c.state = "failed"
      /\ ~machine.pending => c = machine
      /\ machine.state = "failed" => c.state = "failed"
  <2>1. FALSE \in BOOLEAN
    OBVIOUS
  <2> QED BY <1>1, <2>1, CompleteResult
<1>3. /\ Finish(c, coalesced) /\ UNCHANGED <<asked, accepted>>
      /\ blocked' = IF machine.pending THEN blocked \cup {op.explorer} ELSE blocked
  BY DEF FinishFailed
<1> HIDE DEF c
<1>4. /\ op' = NoOp /\ machine' = c
      /\ op' \in Operation /\ posted' \subseteq Triggers
      /\ coalesced' \in Triggers \cup {"none"} /\ closing' \in BOOLEAN
      /\ ClosesAtRest' /\ TriggerKept'
  BY <1>1, <1>2, <1>3, FinishKeepsTrigger
<1>5. TypeOK'
  BY <1>2, <1>3, <1>4 DEF Inv, TypeOK
<1>6. RequestOwned'
  BY <1>2, <1>4 DEF RequestOwned, Requesting, NoOp
<1>7. FailureShown'
  <2>1. machine.explorer = op.explorer /\ op.explorer <= generation /\ op.explorer \in Nat
    BY DEF Inv, RequestOwned, TypeOK, Operation
  <2>2. \A e \in blocked' : e \in Nat /\ e <= generation
    BY <1>3, <2>1 DEF Inv, FailureShown
  <2>3. ASSUME shell \in blocked', shell # 0
        PROVE  c.explorer = shell /\ c.state = "failed"
    BY <1>2, <1>3, <2>1, <2>3 DEF Inv, FailureShown
  <2> QED BY <1>3, <1>4, <2>2, <2>3 DEF Inv, FailureShown, NoOp
<1> QED BY <1>4, <1>5, <1>6, <1>7 DEF Inv

(* A trigger is taken at rest, or kept during an operation.                 *)
LEMMA StartKeepsInv ==
  ASSUME Inv, UiFree, ~Busy, NEW trigger \in Triggers, NEW config, NEW exit \in BOOLEAN,
         Start(trigger, config, exit),
         posted' = posted \ {trigger} \/ posted' = posted,
         UNCHANGED <<shell, generation>>
  PROVE  Inv'
<1>1. /\ machine \in Machine /\ ~closing /\ op.kind = "none"
      /\ asked' = (asked /\ ~Retries(trigger))
      /\ blocked' = IF Retries(trigger) THEN {} ELSE blocked
      /\ UNCHANGED <<coalesced, closing, accepted>>
  BY DEF Start, Inv, TypeOK, UiFree, Busy
<1>2. posted' \subseteq Triggers /\ asked' \in BOOLEAN
  BY <1>1 DEF Inv, TypeOK
<1>3. TriggerKept'
  BY <1>1 DEF Inv, TriggerKept, Retries
<1>4. ClosesAtRest'
  BY <1>1 DEF ClosesAtRest
<1>5. CASE /\ op' = [NoOp EXCEPT !.kind = "deciding", !.trigger = trigger,
                                 !.enabled = config # None, !.exit = exit]
           /\ UNCHANGED machine
  <2>1. op' \in Operation /\ op'.kind = "deciding" /\ op'.trigger = trigger
    BY <1>5 DEF NoOp, Operation, Kinds, Triggers
  <2>2. TypeOK'
    BY <1>1, <1>2, <1>5, <2>1 DEF Inv, TypeOK
  <2>3. RequestOwned'
    BY <1>1, <1>5, <2>1 DEF Inv, RequestOwned, Requesting
  <2>4. FailureShown'
    BY <1>1, <1>5, <2>1 DEF Inv, FailureShown, Retries
  <2> QED BY <1>3, <1>4, <2>2, <2>3, <2>4 DEF Inv
<1>6. CASE machine' = Fail(machine) /\ UNCHANGED op
  <2>1. /\ machine' \in Machine /\ machine'.explorer = machine.explorer
        /\ ~machine'.pending /\ machine'.state = "failed"
    BY <1>1, <1>6, FailResult
  <2>2. TypeOK'
    BY <1>1, <1>2, <1>6, <2>1 DEF Inv, TypeOK
  <2>3. RequestOwned'
    BY <1>1, <1>6, <2>1 DEF Inv, RequestOwned, Requesting
  <2>4. FailureShown'
    BY <1>1, <1>6, <2>1 DEF Inv, FailureShown
  <2> QED BY <1>3, <1>4, <2>2, <2>3, <2>4 DEF Inv
<1> QED BY <1>5, <1>6 DEF Start

LEMMA CoalesceKeepsInv ==
  ASSUME Inv, Busy, NEW trigger \in Triggers, Coalesce(trigger), ~closing,
         posted' = posted \ {trigger} \/ posted' = posted,
         UNCHANGED <<shell, generation>>
  PROVE  Inv'
<1>1. /\ coalesced' = IF coalesced = "none" \/ trigger # "poll" THEN trigger ELSE coalesced
      /\ asked' = (asked \/ Retries(trigger))
      /\ UNCHANGED <<machine, op, closing, blocked, accepted>>
  BY DEF Coalesce
<1>2. TypeOK'
  BY <1>1 DEF Inv, TypeOK, Retries
<1>3. TriggerKept'
  BY <1>1 DEF Inv, TriggerKept, Retries, TypeOK, Triggers
<1>4. ClosesAtRest' /\ RequestOwned' /\ FailureShown'
  BY <1>1 DEF Inv, ClosesAtRest, RequestOwned, FailureShown, Requesting, Busy
<1> QED BY <1>2, <1>3, <1>4 DEF Inv

LEMMA ReconcileKeepsInv ==
  ASSUME Inv, UiFree, NEW trigger \in Triggers, Reconcile(trigger),
         posted' = posted \ {trigger} \/ posted' = posted,
         UNCHANGED <<shell, generation>>
  PROVE  Inv'
<1>1. CASE Busy
  BY <1>1, CoalesceKeepsInv DEF Reconcile, UiFree
<1>2. CASE ~Busy
  <2>1. Start(trigger, file, FALSE) /\ FALSE \in BOOLEAN
    BY <1>2 DEF Reconcile
  <2> QED BY <1>2, <2>1, StartKeepsInv
<1> QED BY <1>1, <1>2

LEMMA DecideKeepsInv == Inv /\ Decide => Inv'
<1> SUFFICES ASSUME Inv, Decide PROVE Inv'
  OBVIOUS
<1> DEFINE present == tap = "listening"
           asks == Asks(machine, shell, op.trigger, op.enabled, present)
           begun == BeginOperation(machine, shell, op.trigger, op.enabled, present)
           action == Action(op.enabled, present)
<1>1. /\ machine \in Machine /\ op \in Operation /\ shell \in Nat /\ ~closing
      /\ op.kind = "deciding" /\ op.trigger \in Triggers /\ op.enabled \in BOOLEAN
      /\ present \in BOOLEAN /\ (machine.pending => machine.state = "waiting")
      /\ shell <= generation
      /\ UNCHANGED <<shell, generation>>
  BY DEF Decide, Inv, TypeOK, Operation, RequestOwned, FailureShown, worldVars
<1>2. /\ begun \in Machine /\ begun.explorer = shell
      /\ begun.pending => begun.state = "waiting"
      /\ asks => shell # 0 /\ begun.pending
      /\ op.trigger = "poll" /\ machine.explorer = shell /\ machine.state = "failed" /\ shell # 0
           => ~asks /\ begun.state = "failed"
  <2>1. begun = BeginOperation(machine, shell, op.trigger, op.enabled, present)
    OBVIOUS
  <2> HIDE DEF begun, present
  <2> QED BY <1>1, <2>1, BeginOperationResult
<1>3. shell \in blocked /\ shell # 0 =>
        op.trigger = "poll" /\ machine.explorer = shell /\ machine.state = "failed"
  BY <1>1 DEF Inv, FailureShown
<1>4. \/ /\ asks /\ machine' = begun
         /\ op' = [op EXCEPT !.explorer = shell, !.action = action,
                             !.kind = IF action = "load" THEN "loading" ELSE "signalling"]
         /\ UNCHANGED <<coalesced, posted, closing, historyVars>>
      \/ ~asks /\ Finish(begun, coalesced) /\ UNCHANGED historyVars
      \/ /\ asks /\ op.enabled
         /\ Finish(Complete(begun, FALSE), coalesced)
         /\ blocked' = blocked \cup {shell}
         /\ UNCHANGED <<asked, accepted>>
      \/ shell # 0 /\ Finish(Fail(machine), coalesced) /\ UNCHANGED historyVars
  BY DEF Decide
<1>5. action \in {"reset", "reload", "load"}
  BY DEF Action
<1> HIDE DEF present, asks, begun, action
<1>6. CASE /\ asks /\ machine' = begun
           /\ op' = [op EXCEPT !.explorer = shell, !.action = action,
                               !.kind = IF action = "load" THEN "loading" ELSE "signalling"]
           /\ UNCHANGED <<coalesced, posted, closing, historyVars>>
  <2>1. /\ op' \in Operation /\ op'.kind \in {"loading", "signalling"}
        /\ op'.explorer = shell
    BY <1>1, <1>5, <1>6 DEF Operation, Kinds
  <2>2. TypeOK'
    BY <1>1, <1>2, <1>6, <2>1 DEF Inv, TypeOK, historyVars
  <2>3. ClosesAtRest' /\ TriggerKept'
    BY <1>1, <1>6 DEF Inv, ClosesAtRest, TriggerKept, Retries, historyVars
  <2>4. RequestOwned'
    BY <1>1, <1>2, <1>6, <2>1 DEF RequestOwned, Requesting
  <2>5. FailureShown'
    BY <1>1, <1>2, <1>3, <1>6, <2>1 DEF Inv, FailureShown, historyVars
  <2> QED BY <2>2, <2>3, <2>4, <2>5 DEF Inv
<1>7. ASSUME NEW m \in Machine, Finish(m, coalesced), UNCHANGED <<asked, accepted>>,
             m.pending => m.state = "waiting",
             blocked' = blocked \/ blocked' = blocked \cup {shell},
             shell \in blocked' /\ shell # 0 => m.explorer = shell /\ m.state = "failed"
      PROVE  Inv'
  <2>1. /\ op' = NoOp /\ machine' = m
        /\ op' \in Operation /\ posted' \subseteq Triggers
        /\ coalesced' \in Triggers \cup {"none"} /\ closing' \in BOOLEAN
        /\ ClosesAtRest' /\ TriggerKept'
    BY <1>1, <1>7, FinishKeepsTrigger
  <2>2. TypeOK'
    BY <1>1, <1>7, <2>1 DEF Inv, TypeOK
  <2>3. RequestOwned'
    BY <1>7, <2>1 DEF RequestOwned, Requesting, NoOp
  <2>4. FailureShown'
    BY <1>1, <1>7, <2>1 DEF Inv, FailureShown, NoOp
  <2> QED BY <2>1, <2>2, <2>3, <2>4 DEF Inv
<1>8. CASE ~asks /\ Finish(begun, coalesced) /\ UNCHANGED historyVars
  BY <1>2, <1>3, <1>7, <1>8 DEF historyVars
<1>9. CASE /\ asks
           /\ Finish(Complete(begun, FALSE), coalesced)
           /\ blocked' = blocked \cup {shell}
           /\ UNCHANGED <<asked, accepted>>
  <2>1. /\ Complete(begun, FALSE) \in Machine /\ Complete(begun, FALSE).explorer = shell
        /\ ~Complete(begun, FALSE).pending /\ Complete(begun, FALSE).state = "failed"
    <3>1. FALSE \in BOOLEAN
      OBVIOUS
    <3> QED BY <1>2, <1>9, <3>1, CompleteResult
  <2> QED BY <1>7, <1>9, <2>1
<1>10. CASE shell # 0 /\ Finish(Fail(machine), coalesced) /\ UNCHANGED historyVars
  <2>1. /\ Fail(machine) \in Machine /\ Fail(machine).explorer = machine.explorer
        /\ ~Fail(machine).pending /\ Fail(machine).state = "failed"
    BY <1>1, FailResult
  <2> QED BY <1>3, <1>7, <1>10, <2>1 DEF historyVars
<1> QED BY <1>4, <1>6, <1>8, <1>9, <1>10
-----------------------------------------------------------------------------
(* A request is accepted: the operation goes on.                            *)
LEMMA AcceptedKeepsInv ==
  ASSUME Inv, Requesting,
         NEW kind \in {"checking", "exportSignal", "exporting"},
         op' = [op EXCEPT !.kind = kind],
         accepted' = accepted \cup {op.explorer},
         UNCHANGED <<machine, coalesced, posted, closing, asked, blocked>>,
         UNCHANGED <<shell, generation>>
  PROVE  Inv'
<1>1. /\ op' \in Operation /\ op'.kind = kind /\ op'.explorer = op.explorer
      /\ op'.trigger = op.trigger
  BY DEF Inv, TypeOK, Operation, Kinds
<1>2. TypeOK'
  BY <1>1 DEF Inv, TypeOK
<1>3. ClosesAtRest' /\ TriggerKept'
  BY DEF Inv, ClosesAtRest, TriggerKept, Retries, Requesting, Busy
<1>4. RequestOwned'
  BY <1>1 DEF Inv, RequestOwned, Requesting
<1>5. FailureShown'
  BY <1>1 DEF Inv, FailureShown
<1> QED BY <1>2, <1>3, <1>4, <1>5 DEF Inv

(* An operation ends with a machine that fits what is known of Explorer.    *)
LEMMA FinishKeepsInv ==
  ASSUME Inv, NEW m \in Machine, NEW kept, Finish(m, kept),
         kept = coalesced \/ kept = "created", ~closing, UNCHANGED historyVars,
         m.pending => m.state = "waiting",
         shell' \in Nat, generation' \in Nat, shell' <= generation',
         generation <= generation',
         shell' \in blocked /\ shell' # 0 => m.explorer = shell' /\ m.state = "failed"
  PROVE  Inv'
<1>1. /\ op' = NoOp /\ machine' = m
      /\ op' \in Operation /\ posted' \subseteq Triggers
      /\ coalesced' \in Triggers \cup {"none"} /\ closing' \in BOOLEAN
      /\ ClosesAtRest' /\ TriggerKept'
  BY FinishKeepsTrigger DEF historyVars
<1>2. TypeOK'
  BY <1>1 DEF Inv, TypeOK, historyVars
<1>3. RequestOwned'
  BY <1>1 DEF RequestOwned, Requesting, NoOp
<1>4. FailureShown'
  BY <1>1 DEF Inv, TypeOK, FailureShown, NoOp, historyVars
<1> QED BY <1>1, <1>2, <1>3, <1>4 DEF Inv

LEMMA SignalKeepsInv == Inv /\ (Signal \/ ExportSignal) => Inv'
<1> SUFFICES ASSUME Inv, Signal \/ ExportSignal PROVE Inv'
  OBVIOUS
<1>1. Requesting /\ UNCHANGED <<shell, generation>>
  BY DEF Signal, ExportSignal, Requesting
<1>2. CASE FinishFailed
  BY <1>1, <1>2, FinishFailedKeepsInv
<1>3. CASE ~FinishFailed
  <2>1. PICK kind \in {"checking", "exportSignal", "exporting"} :
          /\ op' = [op EXCEPT !.kind = kind]
          /\ accepted' = accepted \cup {op.explorer}
          /\ UNCHANGED <<machine, coalesced, posted, closing, asked, blocked>>
    BY <1>3 DEF Signal, ExportSignal
  <2> QED BY <1>1, <2>1, AcceptedKeepsInv
<1> QED BY <1>2, <1>3

LEMMA LoadKeepsInv == Inv /\ Load => Inv'
<1> SUFFICES ASSUME Inv, Load PROVE Inv'
  OBVIOUS
<1>1. Requesting /\ UNCHANGED <<shell, generation>>
  BY DEF Load, Requesting
<1>2. CASE FinishFailed
  BY <1>1, <1>2, FinishFailedKeepsInv
<1>3. CASE ~FinishFailed
  <2>1. /\ op' = [op EXCEPT !.kind = IF @ = "loading" THEN "checking" ELSE "exportSignal"]
        /\ accepted' = accepted \cup {op.explorer}
        /\ UNCHANGED <<machine, coalesced, posted, closing, asked, blocked>>
    BY <1>3 DEF Load
  <2>2. PICK kind \in {"checking", "exportSignal", "exporting"} :
          op' = [op EXCEPT !.kind = kind]
    BY <2>1
  <2> QED BY <1>1, <2>1, <2>2, AcceptedKeepsInv
<1> QED BY <1>2, <1>3

(* A request that is accepted completes.                                    *)
LEMMA CompletesKeepsInv ==
  ASSUME Inv, Requesting, Finish(Complete(machine, TRUE), coalesced),
         UNCHANGED <<shell, generation>>, UNCHANGED historyVars
  PROVE  Inv'
<1> DEFINE c == Complete(machine, TRUE)
<1>1. /\ machine \in Machine /\ (machine.pending => machine.state = "waiting") /\ ~closing
      /\ shell \in Nat /\ generation \in Nat /\ shell <= generation
  BY DEF Inv, TypeOK, RequestOwned, FailureShown, ClosesAtRest, Requesting, Busy
<1>2. c \in Machine /\ c.explorer = machine.explorer /\ ~c.pending
      /\ (~machine.pending => c = machine)
  <2>1. TRUE \in BOOLEAN
    OBVIOUS
  <2> QED BY <1>1, <2>1, CompleteResult
<1>3. shell \in blocked /\ shell # 0 => c.explorer = shell /\ c.state = "failed"
  BY <1>1, <1>2 DEF Inv, FailureShown
<1> HIDE DEF c
<1>4. Finish(c, coalesced)
  BY DEF c
<1> QED BY <1>1, <1>2, <1>3, <1>4, FinishKeepsInv

(* What BeginOperation makes of a machine without an Explorer.              *)
LEMMA WithoutExplorer ==
  ASSUME Inv, NEW trigger, trigger \in Triggers, NEW enabled, enabled \in BOOLEAN,
         NEW b, b = BeginOperation(machine, 0, trigger, enabled, FALSE)
  PROVE  b \in Machine /\ b.explorer = 0 /\ (b.pending => b.state = "waiting")
         /\ (b = machine \/ b.state # "active")
<1>1. /\ machine \in Machine /\ (machine.pending => machine.state = "waiting")
  BY DEF Inv, TypeOK, RequestOwned
<1> DEFINE explorer == 0
           present == FALSE
           begun == BeginOperation(machine, explorer, trigger, enabled, present)
<1>2. /\ explorer \in Nat /\ present \in BOOLEAN /\ b = begun
  OBVIOUS
<1>3. /\ begun \in Machine /\ begun.explorer = explorer
      /\ begun.pending => begun.state = "waiting"
      /\ begun = machine \/ begun.state # "active"
  <2>1. begun = BeginOperation(machine, explorer, trigger, enabled, present)
    OBVIOUS
  <2> HIDE DEF begun, present, explorer
  <2> QED BY <1>1, <1>2, <2>1, BeginOperationResult
<1> QED BY <1>2, <1>3 DEF explorer

LEMMA CheckKeepsInv == Inv /\ Check => Inv'
<1> SUFFICES ASSUME Inv, Check PROVE Inv'
  OBVIOUS
<1>1. /\ Requesting /\ UNCHANGED <<shell, generation>> /\ UNCHANGED historyVars
      /\ ~closing /\ op.enabled \in BOOLEAN /\ op.kind = "checking"
      /\ shell \in Nat /\ generation \in Nat /\ shell <= generation
      /\ "created" \in Triggers
  BY DEF Check, Requesting, worldVars, Inv, ClosesAtRest, Busy, TypeOK, Operation,
         FailureShown, Triggers
<1>2. CASE shell = op.explorer
  <2>1. Finish(Complete(machine, TRUE), coalesced)
    BY <1>2 DEF Check
  <2> QED BY <1>1, <2>1, CompletesKeepsInv
<1>3. CASE shell # op.explorer
  <2>1. PICK b : b = BeginOperation(machine, 0, "created", op.enabled, FALSE)
    OBVIOUS
  <2>2. Finish(b, "created")
    BY <1>3, <2>1 DEF Check
  <2>3. b \in Machine /\ (b.pending => b.state = "waiting")
    BY <1>1, <2>1, WithoutExplorer
  <2>4. ~(shell \in blocked /\ shell # 0)
    BY <1>1, <1>3 DEF Inv, FailureShown, RequestOwned
  <2> QED BY <1>1, <2>2, <2>3, <2>4, FinishKeepsInv
<1> QED BY <1>2, <1>3

LEMMA ExportEndsKeepsInv == Inv /\ ExportEnds => Inv'
<1> SUFFICES ASSUME Inv, ExportEnds PROVE Inv'
  OBVIOUS
<1>1. Requesting /\ UNCHANGED <<shell, generation>>
  BY DEF ExportEnds, Requesting, worldVars
<1>2. CASE FinishFailed
  BY <1>1, <1>2, FinishFailedKeepsInv
<1>3. CASE Finish(Complete(machine, TRUE), coalesced) /\ UNCHANGED historyVars
  BY <1>1, <1>3, CompletesKeepsInv
<1> QED BY <1>2, <1>3 DEF ExportEnds

(* A command of the user begins, or fails at once.                          *)
LEMMA ExportKeepsInv == Inv /\ Export => Inv'
<1> SUFFICES ASSUME Inv, Export PROVE Inv'
  OBVIOUS
<1>1. /\ machine \in Machine /\ ~closing /\ op.kind = "none" /\ blocked' = {}
      /\ shell \in Nat /\ shell <= generation
      /\ UNCHANGED <<coalesced, posted, closing, asked, accepted, shell, generation>>
  BY DEF Export, UiFree, Busy, Inv, TypeOK, FailureShown
<1>2. ClosesAtRest' /\ TriggerKept' /\ shell' <= generation'
  BY <1>1 DEF Inv, ClosesAtRest, TriggerKept, Retries
<1>3. CASE /\ machine' = BeginExport(machine, shell, file # None)
           /\ op' = [NoOp EXCEPT !.explorer = shell, !.action = "export",
                       !.kind = IF tap = "listening" THEN "exportSignal" ELSE "exportLoading"]
  <2>1. PICK enabled \in BOOLEAN : machine' = BeginExport(machine, shell, enabled)
    BY <1>3
  <2>2. machine' \in Machine /\ machine'.explorer = shell /\ machine'.state = "waiting"
    BY <1>1, <2>1, BeginExportResult
  <2>3. op' \in Operation /\ op'.kind \in {"exportSignal", "exportLoading"} /\ op'.explorer = shell
    BY <1>1, <1>3 DEF NoOp, Operation, Kinds, Triggers
  <2>4. TypeOK'
    BY <1>1, <2>2, <2>3 DEF Inv, TypeOK
  <2>5. RequestOwned' /\ FailureShown'
    BY <1>1, <1>2, <2>2, <2>3 DEF RequestOwned, FailureShown, Requesting
  <2> QED BY <1>2, <2>4, <2>5 DEF Inv
<1>4. CASE machine' = Fail(machine) /\ UNCHANGED op
  <2>1. machine' \in Machine /\ ~machine'.pending
    BY <1>1, <1>4, FailResult
  <2>2. TypeOK'
    BY <1>1, <1>4, <2>1 DEF Inv, TypeOK
  <2>3. RequestOwned' /\ FailureShown'
    BY <1>1, <1>2, <1>4, <2>1 DEF RequestOwned, FailureShown, Requesting
  <2> QED BY <1>2, <2>2, <2>3 DEF Inv
<1> QED BY <1>3, <1>4 DEF Export

LEMMA RestartKeepsInv == Inv /\ Restart => Inv'
<1> SUFFICES ASSUME Inv, Restart PROVE Inv'
  OBVIOUS
<1>1. /\ ~closing /\ blocked' = {} /\ shell' = 0 /\ generation \in Nat
      /\ machine' = BeginOperation(machine, 0, "user", selected # None, FALSE)
      /\ op' = [NoOp EXCEPT !.kind = "restarting"]
      /\ UNCHANGED <<coalesced, posted, closing, asked, generation>>
  BY DEF Restart, UiFree, Inv, TypeOK
<1>2. "user" \in Triggers /\ (selected # None) \in BOOLEAN
  BY DEF Triggers
<1>3. machine' \in Machine /\ (machine'.pending => machine'.state = "waiting")
  BY <1>1, <1>2, WithoutExplorer
<1>4. op' \in Operation /\ op'.kind = "restarting"
  BY <1>1 DEF NoOp, Operation, Kinds, Triggers
<1>5. TypeOK'
  BY <1>1, <1>3, <1>4 DEF Inv, TypeOK
<1>6. ClosesAtRest' /\ TriggerKept'
  BY <1>1 DEF Inv, ClosesAtRest, TriggerKept, Retries
<1>7. RequestOwned'
  BY <1>3, <1>4 DEF RequestOwned, Requesting
<1>8. FailureShown'
  BY <1>1, <1>4 DEF FailureShown
<1> QED BY <1>5, <1>6, <1>7, <1>8 DEF Inv

LEMMA RestartEndsKeepsInv == Inv /\ RestartEnds => Inv'
<1> SUFFICES ASSUME Inv, RestartEnds PROVE Inv'
  OBVIOUS
<1>1. /\ machine \in Machine /\ ~closing /\ (machine.pending => machine.state = "waiting")
      /\ shell \in Nat /\ generation \in Nat /\ shell <= generation
      /\ UNCHANGED historyVars
  BY DEF RestartEnds, Inv, TypeOK, ClosesAtRest, Busy, RequestOwned, FailureShown
<1>2. shell \in blocked /\ shell # 0 => machine.explorer = shell /\ machine.state = "failed"
  BY DEF Inv, FailureShown
<1>3. CASE Finish(machine, coalesced) /\ UNCHANGED <<shell, generation>>
  BY <1>1, <1>2, <1>3, FinishKeepsInv
<1>4. CASE ShellAppears /\ Finish(machine, coalesced)
  <2>1. shell' = generation + 1 /\ generation' = generation + 1
    BY <1>4 DEF ShellAppears
  <2>2. shell' \notin blocked
    BY <1>1, <2>1 DEF Inv, FailureShown
  <2> QED BY <1>1, <1>4, <2>1, <2>2, FinishKeepsInv
<1>5. CASE Finish(Fail(machine), coalesced) /\ UNCHANGED <<shell, generation>>
  <2>1. /\ Fail(machine) \in Machine /\ Fail(machine).explorer = machine.explorer
        /\ ~Fail(machine).pending /\ Fail(machine).state = "failed"
    BY <1>1, FailResult
  <2> QED BY <1>1, <1>2, <1>5, <2>1, FinishKeepsInv
<1> QED BY <1>3, <1>4, <1>5 DEF RestartEnds

(* A handler fails: the machine shows it.                                   *)
LEMMA FailsKeepsInv ==
  ASSUME Inv, machine' = Fail(machine),
         UNCHANGED <<op, coalesced, posted, closing, historyVars>>,
         UNCHANGED <<shell, generation>>
  PROVE  Inv'
<1>1. /\ machine' \in Machine /\ machine'.explorer = machine.explorer
      /\ ~machine'.pending /\ machine'.state = "failed"
  BY FailResult DEF Inv, TypeOK
<1>2. TypeOK'
  BY <1>1 DEF Inv, TypeOK, historyVars
<1>3. ClosesAtRest' /\ TriggerKept'
  BY DEF Inv, ClosesAtRest, Busy, TriggerKept, Retries, historyVars
<1>4. RequestOwned' /\ FailureShown'
  BY <1>1 DEF Inv, RequestOwned, FailureShown, Requesting, historyVars
<1> QED BY <1>2, <1>3, <1>4 DEF Inv

LEMMA ChangeThemeKeepsInv ==
  ASSUME Inv, NEW theme \in Themes \cup {None}, NEW exit \in BOOLEAN,
         ChangeTheme(theme, exit)
  PROVE  Inv'
<1>1. UiFree /\ ~Busy /\ UNCHANGED <<posted, shell, generation>> /\ "user" \in Triggers
  BY DEF ChangeTheme, Triggers
<1>2. CASE Start("user", theme, exit)
  BY <1>1, <1>2, StartKeepsInv
<1>3. CASE /\ machine' = Fail(machine)
           /\ UNCHANGED <<op, coalesced, closing, historyVars>>
  BY <1>1, <1>3, FailsKeepsInv
<1> QED BY <1>2, <1>3 DEF ChangeTheme

LEMMA HandlersKeepInv ==
  ASSUME Inv, \/ Poll \/ Retry \/ OnTaskbarCreated
              \/ \E trigger \in Triggers : RunsPosted(trigger)
  PROVE  Inv'
<1>1. PICK trigger \in Triggers :
        /\ UiFree /\ Reconcile(trigger)
        /\ posted' = posted \ {trigger} \/ posted' = posted
        /\ UNCHANGED <<shell, generation>>
  BY Zenon DEF Poll, Retry, OnTaskbarCreated, RunsPosted, Triggers, worldVars
<1> QED BY <1>1, ReconcileKeepsInv

(* Explorer, the TAP and the command line move no state of the tray.        *)
LEMMA WorldKeepsInv ==
  ASSUME Inv, UNCHANGED <<trayVars, historyVars>>,
         \/ UNCHANGED <<shell, generation>>
         \/ shell' = 0 /\ UNCHANGED generation
         \/ shell' = generation + 1 /\ generation' = generation + 1
  PROVE  Inv'
<1> USE DEF trayVars, historyVars
<1>1. TypeOK' /\ shell' <= generation' /\ generation <= generation'
  BY DEF Inv, TypeOK, FailureShown
<1>2. ClosesAtRest' /\ TriggerKept'
  BY DEF Inv, ClosesAtRest, Busy, TriggerKept, Retries
<1>3. RequestOwned'
  BY <1>1 DEF Inv, TypeOK, Operation, RequestOwned, Requesting
<1>4. FailureShown'
  BY <1>1 DEF Inv, TypeOK, FailureShown
<1> QED BY <1>1, <1>2, <1>3, <1>4 DEF Inv

LEMMA StepKeepsInv == Inv /\ [Next]_vars => Inv'
<1> SUFFICES ASSUME Inv, [Next]_vars PROVE Inv'
  OBVIOUS
<1>1. CASE Decide \/ Signal \/ Load \/ Check
  BY <1>1, DecideKeepsInv, SignalKeepsInv, LoadKeepsInv, CheckKeepsInv
<1>2. CASE Export \/ ExportSignal \/ ExportEnds \/ Restart \/ RestartEnds
  BY <1>2, ExportKeepsInv, SignalKeepsInv, ExportEndsKeepsInv, RestartKeepsInv,
     RestartEndsKeepsInv
<1>3. CASE \E theme \in Themes \cup {None}, exit \in BOOLEAN : ChangeTheme(theme, exit)
  BY <1>3, ChangeThemeKeepsInv
<1>4. CASE \/ Poll \/ Retry \/ OnTaskbarCreated
           \/ \E trigger \in Triggers : RunsPosted(trigger)
  BY <1>4, HandlersKeepInv
<1>5. CASE HandlerFails
  BY <1>5, FailsKeepsInv DEF HandlerFails, worldVars
<1>6. CASE \/ \E theme \in Themes \cup {None} : CliBegins(theme)
           \/ CliWrites \/ CliSignals \/ TapListens \/ TapReads
  <2>1. UNCHANGED <<trayVars, historyVars>> /\ UNCHANGED <<shell, generation>>
    BY <1>6 DEF CliBegins, CliWrites, CliSignals, TapListens, TapReads
  <2> QED BY <2>1, WorldKeepsInv
<1>7. CASE ShellStarts \/ ShellDies
  <2>1. /\ UNCHANGED <<trayVars, historyVars>>
        /\ \/ shell' = 0 /\ UNCHANGED generation
           \/ shell' = generation + 1 /\ generation' = generation + 1
    BY <1>7 DEF ShellStarts, ShellDies, ShellAppears
  <2> QED BY <2>1, WorldKeepsInv
<1>8. CASE UNCHANGED vars
  <2>1. UNCHANGED <<trayVars, historyVars>> /\ UNCHANGED <<shell, generation>>
    BY <1>8 DEF vars, worldVars
  <2> QED BY <2>1, WorldKeepsInv
<1> QED BY <1>1, <1>2, <1>3, <1>4, <1>5, <1>6, <1>7, <1>8 DEF Next

-----------------------------------------------------------------------------
LEMMA Invariance == Spec => []Inv
<1> QED BY InitInv, StepKeepsInv, PTL DEF Spec

(* A trigger that allows a retry (startup, TaskbarCreated, the user) is not *)
(* lost to an operation under way or to a poll (TrayContext.ReconcileAsync).*)
THEOREM TriggerIsKept == Spec => []TriggerKept
<1>1. Inv => TriggerKept
  BY DEF Inv
<1> QED BY <1>1, Invariance, PTL

(* Whatever else happens, a machine only changes to a state that is not     *)
(* active.                                                                  *)
Unclaimed == machine' = machine \/ machine'.state # "active"

LEMMA FailureUnclaimed ==
  ASSUME Inv, machine' = Fail(machine) \/ FinishFailed
  PROVE  Unclaimed
<1>1. machine \in Machine /\ (machine.pending => machine.state = "waiting")
  BY DEF Inv, TypeOK, RequestOwned
<1>2. CASE machine' = Fail(machine)
  BY <1>1, <1>2, FailResult DEF Unclaimed
<1>3. CASE FinishFailed
  <2>1. machine' = Complete(machine, FALSE) /\ FALSE \in BOOLEAN
    BY <1>3 DEF FinishFailed, Finish
  <2> QED BY <1>1, <2>1, CompleteResult DEF Unclaimed
<1> QED BY <1>2, <1>3

LEMMA DecideUnclaimed == Inv /\ Decide => Unclaimed
<1> SUFFICES ASSUME Inv, Decide PROVE Unclaimed
  OBVIOUS
<1> DEFINE present == tap = "listening"
           begun == BeginOperation(machine, shell, op.trigger, op.enabled, present)
           failed == Complete(begun, FALSE)
<1>1. /\ machine \in Machine /\ shell \in Nat /\ op.trigger \in Triggers
      /\ op.enabled \in BOOLEAN /\ present \in BOOLEAN
      /\ machine.pending => machine.state = "waiting"
  BY DEF Inv, TypeOK, Operation, RequestOwned
<1>2. /\ begun \in Machine /\ (begun.pending => begun.state = "waiting")
      /\ begun = machine \/ begun.state # "active"
  <2>1. begun = BeginOperation(machine, shell, op.trigger, op.enabled, present)
    OBVIOUS
  <2> HIDE DEF begun, present
  <2> QED BY <1>1, <2>1, BeginOperationResult
<1>3. machine' = begun \/ machine' = failed \/ machine' = Fail(machine)
  BY DEF Decide, Finish
<1> HIDE DEF begun
<1>4. (failed.state = begun.state /\ failed = begun) \/ failed.state = "failed"
  <2>1. FALSE \in BOOLEAN
    OBVIOUS
  <2> QED BY <1>2, <2>1, CompleteResult
<1> HIDE DEF failed
<1> QED BY <1>2, <1>3, <1>4, FailureUnclaimed DEF Unclaimed

(* A request that was accepted claims the process that accepted it.         *)
LEMMA CompletionIsAccepted ==
  ASSUME Inv, op.kind \in {"checking", "exporting"}, shell = op.explorer,
         machine' = Complete(machine, TRUE)
  PROVE  machine'.explorer = shell /\ shell \in accepted
<1>1. /\ machine \in Machine /\ (machine.pending => machine.state = "waiting")
      /\ machine.explorer = op.explorer /\ op.explorer \in accepted /\ TRUE \in BOOLEAN
  BY DEF Inv, TypeOK, RequestOwned, Requesting
<1>2. machine'.explorer = machine.explorer
  BY <1>1, CompleteResult
<1> QED BY <1>1, <1>2

LEMMA StepClaims ==
  ASSUME Inv, Next
  PROVE  Unclaimed \/ (machine'.explorer = shell /\ shell \in accepted)
<1>1. CASE Decide
  BY <1>1, DecideUnclaimed
<1>2. CASE Signal \/ Load \/ ExportSignal
  BY <1>2, FailureUnclaimed DEF Signal, Load, ExportSignal, Unclaimed
<1>3. CASE Check
  <2>1. CASE shell = op.explorer
    <3>1. machine' = Complete(machine, TRUE) /\ op.kind = "checking"
      BY <1>3, <2>1 DEF Check, Finish
    <3> QED BY <2>1, <3>1, CompletionIsAccepted
  <2>2. CASE shell # op.explorer
    <3>1. PICK b : b = BeginOperation(machine, 0, "created", op.enabled, FALSE)
      OBVIOUS
    <3>2. machine' = b /\ op.enabled \in BOOLEAN /\ "created" \in Triggers
      BY <1>3, <2>2, <3>1 DEF Check, Finish, Inv, TypeOK, Operation, Triggers
    <3> QED BY <3>1, <3>2, WithoutExplorer DEF Unclaimed
  <2> QED BY <2>1, <2>2
<1>4. CASE ExportEnds
  <2>1. CASE FinishFailed
    BY <2>1, FailureUnclaimed
  <2>2. CASE shell = op.explorer /\ Finish(Complete(machine, TRUE), coalesced)
    <3>1. machine' = Complete(machine, TRUE) /\ op.kind = "exporting"
      BY <1>4, <2>2 DEF ExportEnds, Finish
    <3> QED BY <2>2, <3>1, CompletionIsAccepted
  <2> QED BY <1>4, <2>1, <2>2 DEF ExportEnds
<1>5. CASE Export
  <2>1. CASE machine' = Fail(machine)
    BY <2>1, FailureUnclaimed
  <2>2. CASE machine' = BeginExport(machine, shell, file # None)
    <3>1. machine'.state = "waiting"
      BY <2>2 DEF BeginExport, Begun, Inv, TypeOK, Machine
    <3> QED BY <3>1 DEF Unclaimed
  <2> QED BY <1>5, <2>1, <2>2 DEF Export
<1>6. CASE Restart
  <2>1. /\ machine' = BeginOperation(machine, 0, "user", selected # None, FALSE)
        /\ "user" \in Triggers /\ (selected # None) \in BOOLEAN
    BY <1>6 DEF Restart, Triggers
  <2> QED BY <2>1, WithoutExplorer DEF Unclaimed
<1>7. CASE RestartEnds
  <2>1. machine' = machine \/ machine' = Fail(machine)
    BY <1>7 DEF RestartEnds, Finish
  <2> QED BY <2>1, FailureUnclaimed DEF Unclaimed
<1>8. CASE \/ \E theme \in Themes \cup {None}, exit \in BOOLEAN : ChangeTheme(theme, exit)
           \/ Poll \/ Retry \/ OnTaskbarCreated \/ HandlerFails
           \/ \E trigger \in Triggers : RunsPosted(trigger)
  <2>1. machine' = machine \/ machine' = Fail(machine)
    BY <1>8 DEF ChangeTheme, Poll, Retry, OnTaskbarCreated, HandlerFails, RunsPosted,
                Reconcile, Coalesce, Start
  <2> QED BY <2>1, FailureUnclaimed DEF Unclaimed
<1>9. CASE \/ \E theme \in Themes \cup {None} : CliBegins(theme)
           \/ CliWrites \/ CliSignals \/ ShellStarts \/ ShellDies \/ TapListens \/ TapReads
  BY <1>9 DEF CliBegins, CliWrites, CliSignals, ShellStarts, ShellDies, TapListens,
              TapReads, trayVars, Unclaimed
<1> QED BY <1>1, <1>2, <1>3, <1>4, <1>5, <1>6, <1>7, <1>8, <1>9 DEF Next

(* The tray shows Active only for the Explorer in place, and only after     *)
(* that process has accepted a request (TrayContext.cs, the comparison of   *)
(* the generation after the awaited operation).                             *)
THEOREM ActiveIsAlwaysAccepted == Spec => ActiveIsAccepted
<1>1. Inv /\ [Next]_vars =>
        [machine' # machine /\ machine'.state = "active"
           => machine'.explorer = shell /\ shell \in accepted]_vars
  BY StepClaims DEF Unclaimed
<1> QED BY <1>1, Invariance, PTL DEF Spec, ActiveIsAccepted

(* A poll never attempts again where an attempt has failed and nobody has   *)
(* asked for a retry (TrayStateMachine.BeginOperation).                     *)
THEOREM PollsNeverRetry == Spec => NoPollRetry
<1> DEFINE A == op.kind = "deciding" /\ op.trigger = "poll"
                  /\ op'.kind \in {"loading", "signalling"}
                  => op'.explorer \notin blocked
<1>1. ASSUME Inv, Next, op.kind = "deciding", op.trigger = "poll",
             op'.kind \in {"loading", "signalling"}
      PROVE  op'.explorer \notin blocked
  <2>1. op \in Operation /\ machine \in Machine /\ shell \in Nat /\ op.enabled \in BOOLEAN
        /\ (machine.pending => machine.state = "waiting")
    BY <1>1 DEF Inv, TypeOK, Operation, RequestOwned
  <2>2. op' # op /\ op' # NoOp
    BY <1>1 DEF NoOp
  <2>3. Decide
    BY <1>1, <2>2, Zenon
       DEF Next, Signal, Load, Check, Export, ExportSignal, ExportEnds, Restart, RestartEnds,
           ChangeTheme, Poll, Retry, OnTaskbarCreated, HandlerFails, RunsPosted, Reconcile,
           Coalesce, Busy, UiFree, Awaited, CliBegins, CliWrites, CliSignals, ShellStarts,
           ShellDies, TapListens, TapReads, trayVars
  <2>4. /\ Asks(machine, shell, op.trigger, op.enabled, tap = "listening")
        /\ op'.explorer = shell
    BY <2>1, <2>2, <2>3 DEF Decide, Finish, Operation
  <2>5. shell # 0
        /\ ~Declined(machine, Renewed(machine, shell, op.trigger, op.enabled), shell,
                     op.enabled, tap = "listening")
    BY <1>1, <2>4 DEF Asks
  <2>6. ~(machine.explorer = shell /\ machine.state = "failed")
    BY <1>1, <2>5 DEF Declined, Renewed, Changed
  <2> QED BY <1>1, <2>4, <2>5, <2>6 DEF Inv, FailureShown
<1>2. Inv /\ [Next]_vars => [A]_vars
  BY <1>1
<1>3. NoPollRetry <=> [][A]_vars
  BY PTL DEF NoPollRetry
<1> QED BY <1>2, <1>3, Invariance, PTL DEF Spec
=============================================================================
