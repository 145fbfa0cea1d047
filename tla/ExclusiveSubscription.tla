------------------------ MODULE ExclusiveSubscription ------------------------
(***************************************************************************)
(* What the standing subscription of src/tap/change_subscription.cpp       *)
(* promises to its callers, without its threads, its phases or its         *)
(* notifications: there is one slot; XAML only ever knows the callback of  *)
(* the subscription that occupies the slot; and the slot is vacated only   *)
(* once XAML has forgotten that callback and no report is inside it.       *)
(* A replacement therefore never overlaps the subscription it replaces.    *)
(***************************************************************************)
CONSTANTS Subs, Calls, NoSub

VARIABLES slot, attached, reports

lease == <<slot, attached, reports>>

Vacant == /\ slot = NoSub
          /\ attached = {}
          /\ reports = [s \in Subs |-> {}]

Occupy(s) == /\ slot = NoSub
             /\ slot' = s
             /\ UNCHANGED <<attached, reports>>

Attach(s) == /\ slot = s
             /\ attached' = attached \cup {s}
             /\ UNCHANGED <<slot, reports>>

Enter(s, c) == /\ s \in attached
               /\ c \notin reports[s]
               /\ reports' = [reports EXCEPT ![s] = @ \cup {c}]
               /\ UNCHANGED <<slot, attached>>

Leave(s, c) == /\ c \in reports[s]
               /\ reports' = [reports EXCEPT ![s] = @ \ {c}]
               /\ UNCHANGED <<slot, attached>>

Detach(s) == /\ s \in attached
             /\ attached' = attached \ {s}
             /\ UNCHANGED <<slot, reports>>

Vacate(s) == /\ slot = s
             /\ s \notin attached
             /\ reports[s] = {}
             /\ slot' = NoSub
             /\ UNCHANGED <<attached, reports>>

LeaseStep == \E s \in Subs : \/ Occupy(s) \/ Attach(s) \/ Detach(s) \/ Vacate(s)
                             \/ \E c \in Calls : Enter(s, c) \/ Leave(s, c)

LeaseSpec == Vacant /\ [][LeaseStep]_lease
=============================================================================
