-------------------------- MODULE StyleVariables ---------------------------
(* The style variables of one UI thread (style_variables.cpp) with the      *)
(* engine steps that use them (style_engine.cpp: OnElementAdded,            *)
(* ReapplyDynamicProperty, OnElementRemoved).  An element captures          *)
(* properties under names, and its one dynamic property reads names; the    *)
(* capture closest in the tree wins.  A captured value that changes         *)
(* re-applies the properties that read it, and applying a property that is  *)
(* itself captured propagates again, inside: `frames` is the call stack.    *)
(*                                                                          *)
(* Resolving a value calls XAML, which may pump: other events then run in   *)
(* the middle of it (`pumped`).  An element whose report is registering its *)
(* captures is not reported or removed again meanwhile (README, hazards).   *)
EXTENDS Naturals, Sequences, FiniteSets, Functions

CONSTANTS
  Elements, Names,
  Nothing,         \* no element, no name, no value
  CapturesOf,      \* element -> the names it captures, in rule order
  First, Second,   \* element -> the names its property reads, Nothing for none
  Offset,          \* element -> what its expression adds, as in {{BtnW-6}}
  Feeds,           \* element -> the name its own property is captured under
  Positions,       \* element -> its possible ancestor chains, itself last
  MaxValue,        \* bound: values are numbers modulo MaxValue + 1
  MaxDepth,        \* kMaxPropagationDepth
  MaxNest,         \* bound: frames under which an event still runs
  MaxEvents        \* bound: events

ASSUME VariablesAssumption ==
  /\ MaxValue \in Nat /\ MaxDepth \in Nat /\ MaxNest \in Nat /\ MaxEvents \in Nat
  /\ IsFiniteSet(Names) /\ Nothing \notin Elements \cup Names \cup 0..MaxValue
  /\ \A e \in Elements :
       /\ CapturesOf[e] \in Seq(Names) /\ Offset[e] \in Nat
       /\ {First[e], Second[e], Feeds[e]} \subseteq Names \cup {Nothing}
       /\ \A p \in Positions[e] : p \in Seq(Nat)

VARIABLES
  captured,    \* t_variables: element -> name -> [on, value, chain, sequence]
  consumers,   \* t_consumers: name -> the elements whose property reads it
  deps,        \* t_consumer_deps: element -> the names it is registered for
  sequence,    \* t_sequence
  frames,      \* the calls under way, innermost last
  styled,      \* elements with state and a dynamic style in it
  generation,  \* state.generation of each element
  value,       \* prop.values: the resolved value
  shown,       \* what the property has been set to, Nothing when not set
  property,    \* element -> name -> the value of the captured property
  position,    \* the ancestor chain of each element
  live,        \* elements whose weak reference still resolves
  events,
  capped, pumped, moved   \* what has happened: a propagation capped, an event
                          \* inside a resolution, a captured element moved

storeVars == <<captured, consumers, deps, sequence>>
engineVars == <<styled, generation, value, shown>>
worldVars == <<property, position, live, events>>
historyVars == <<capped, pumped, moved>>
vars == <<storeVars, frames, engineVars, worldVars, historyVars>>

NoSite == [on |-> FALSE, value |-> 0, chain |-> <<>>, sequence |-> 0]
Frame(kind, e, todo) ==
  [kind |-> kind, element |-> e, todo |-> todo, at |-> Nothing,
   value |-> Nothing, deps |-> {}, generation |-> 0]

Init ==
  /\ captured = [e \in Elements |-> [n \in Names |-> NoSite]]
  /\ consumers = [n \in Names |-> <<>>]
  /\ deps = [e \in Elements |-> {}]
  /\ sequence = 0 /\ frames = <<>>
  /\ styled = {} /\ generation = [e \in Elements |-> 0]
  /\ value = [e \in Elements |-> Nothing] /\ shown = [e \in Elements |-> Nothing]
  /\ property = [e \in Elements |-> [n \in Names |-> 0]]
  /\ position \in {p \in [Elements -> UNION {Positions[e] : e \in Elements}] :
                     \A e \in Elements : p[e] \in Positions[e]}
  /\ live = Elements /\ events = 0
  /\ capped = FALSE /\ pumped = FALSE /\ moved = FALSE

-----------------------------------------------------------------------------
(* Lookup and expansion.                                                    *)

(* How many ancestors two chains share, root first.                         *)
Shared(c, d) ==
  Cardinality({i \in 1..Len(c) : i <= Len(d) /\ \A j \in 1..i : c[j] = d[j]})

(* LookupForConsumer: of the live elements that capture the name, the one  *)
(* that shares most with the consumer's chain, the later registration       *)
(* between equals.                                                          *)
Sites(n, chain) ==
  {[depth |-> Shared(captured[e][n].chain, chain),
    sequence |-> captured[e][n].sequence,
    value |-> captured[e][n].value] : e \in {f \in live : captured[f][n].on}}

Closest(sites) ==
  CHOOSE best \in sites : \A site \in sites \ {best} :
    \/ best.depth > site.depth
    \/ best.depth = site.depth /\ best.sequence > site.sequence

Lookup(n, chain) ==
  IF Sites(n, chain) = {} THEN Nothing ELSE Closest(Sites(n, chain)).value

(* ExpandStyleVariables: the second name is read only when the first one is *)
(* not zero (a conditional), and one that is not defined leaves the style   *)
(* unresolved.  What was read are the dependencies.                         *)
Expanded(e) ==
  LET v1 == Lookup(First[e], position[e])
      reads == v1 # Nothing /\ v1 # 0 /\ Second[e] # Nothing
      v2 == IF reads THEN Lookup(Second[e], position[e]) ELSE v1 IN
  [value |-> IF v1 = Nothing \/ v2 = Nothing THEN Nothing
             ELSE (v2 + Offset[e]) % (MaxValue + 1),
   deps |-> IF reads THEN {First[e], Second[e]} ELSE {First[e]}]

Consumes(e) == First[e] # Nothing

-----------------------------------------------------------------------------
(* The call stack, and propagation.                                         *)

Top == frames[Len(frames)]
Under == SubSeq(frames, 1, Len(frames) - 1)
Depth(stack) == Cardinality({i \in 1..Len(stack) : stack[i].kind = "propagate"})

(* PropagateChange: nothing at the depth limit, or a walk over a copy of    *)
(* the name's consumers.                                                    *)
Propagate(stack, n) ==
  IF Depth(stack) >= MaxDepth
  THEN frames' = stack /\ capped' = TRUE
  ELSE /\ frames' = IF consumers'[n] = <<>> THEN stack
                    ELSE Append(stack, Frame("propagate", Nothing, consumers'[n]))
       /\ UNCHANGED capped

(* A captured property takes a value, and its callback runs SetCaptureValue *)
(* when the capture stands: the same value does nothing.                    *)
SetsProperty(stack, e, n, v) ==
  /\ property' = [property EXCEPT ![e][n] = v]
  /\ IF captured[e][n].on /\ captured[e][n].value # v
     THEN /\ captured' = [captured EXCEPT ![e][n].value = v, ![e][n].chain = position'[e]]
          /\ Propagate(stack, n)
     ELSE frames' = stack /\ UNCHANGED <<captured, capped>>

(* The element's dynamic property is set, or unset.                         *)
Applies(stack, e, v) ==
  /\ shown' = [shown EXCEPT ![e] = v]
  /\ IF Feeds[e] = Nothing
     THEN frames' = stack /\ UNCHANGED <<property, captured, capped>>
     ELSE SetsProperty(stack, e, Feeds[e], IF v = Nothing THEN 0 ELSE v)

(* std::erase_if: what is left of a list of consumers without one of them.  *)
Without(list, e) ==
  LET kept[i \in 0..Len(list)] ==
        IF i = 0 THEN <<>>
        ELSE IF list[i] = e THEN kept[i - 1] ELSE Append(kept[i - 1], list[i])
  IN  kept[Len(list)]

(* RegisterConsumer without the retraction of what was read before.         *)
RegistersMore(e, names) ==
  /\ consumers' = [n \in Names |->
       IF n \in names THEN Append(consumers[n], e) ELSE consumers[n]]
  /\ deps' = [deps EXCEPT ![e] = names]

(* RegisterConsumer: the old names are retracted, the new ones published.   *)
Registers(e, names) ==
  /\ consumers' = [n \in Names |->
       IF n \in names THEN Append(Without(consumers[n], e), e) ELSE Without(consumers[n], e)]
  /\ deps' = [deps EXCEPT ![e] = names]

(* ReapplyDynamicProperty, phases 1 and 2, for the next consumer.           *)
Resolves ==
  /\ frames # <<>> /\ Top.kind = "propagate" /\ Top.at = Nothing /\ Top.todo # <<>>
  /\ LET e == Head(Top.todo)
         next == [Top EXCEPT !.todo = Tail(@)] IN
     frames' = Append(Under,
       IF e \in styled \cap live
       THEN [next EXCEPT !.at = e, !.value = Expanded(e).value, !.deps = Expanded(e).deps,
                         !.generation = generation[e]]
       ELSE next)
  /\ UNCHANGED <<storeVars, engineVars, worldVars, historyVars>>

(* Phase 3 without its check that the state is the one phase 1 has seen.    *)
ReappliesAnyway ==
  /\ frames # <<>> /\ Top.kind = "propagate" /\ Top.at # Nothing
  /\ LET e == Top.at
         stack == Append(Under, [Top EXCEPT !.at = Nothing, !.value = Nothing,
                                            !.deps = {}, !.generation = 0]) IN
     /\ Registers(e, Top.deps)
     /\ value' = [value EXCEPT ![e] = Top.value]
     /\ UNCHANGED position
     /\ Applies(stack, e, Top.value)
  /\ UNCHANGED <<sequence, styled, generation, live, events, pumped, moved>>

(* Phase 3: the result is dropped when the element's state was replaced.    *)
Reapplies ==
  /\ frames # <<>> /\ Top.kind = "propagate" /\ Top.at # Nothing
  /\ LET e == Top.at
         stack == Append(Under, [Top EXCEPT !.at = Nothing, !.value = Nothing,
                                            !.deps = {}, !.generation = 0]) IN
     IF e \in styled \cap live /\ generation[e] = Top.generation
     THEN /\ UNCHANGED position
          /\ Registers(e, Top.deps)
          /\ value' = [value EXCEPT ![e] = Top.value]
          /\ Applies(stack, e, Top.value)
     ELSE /\ frames' = stack
          /\ UNCHANGED <<captured, consumers, deps, value, shown, property, position, capped>>
  /\ UNCHANGED <<sequence, styled, generation, live, events, pumped, moved>>

PropagationEnds ==
  /\ frames # <<>> /\ Top.kind = "propagate" /\ Top.at = Nothing /\ Top.todo = <<>>
  /\ frames' = Under
  /\ UNCHANGED <<storeVars, engineVars, worldVars, historyVars>>

-----------------------------------------------------------------------------
(* Events: at rest, or while a resolution pumps.                            *)

Resolving ==
  /\ frames # <<>>
  /\ Top.kind = "resolved" \/ (Top.kind = "propagate" /\ Top.at # Nothing)
Event ==
  /\ events < MaxEvents
  /\ events' = events + 1
  /\ frames = <<>> \/ (Resolving /\ Len(frames) < MaxNest)
  /\ pumped' = (pumped \/ frames # <<>>)

Capturing(e) == \E i \in 1..Len(frames) : frames[i].kind = "captures" /\ frames[i].element = e
Captures(e) == \E n \in Names : captured[e][n].on

(* OnElementAdded, up to the first resolution: an element that has state is *)
(* restored first, which unsets its property.                               *)
Reported(e, p) ==
  /\ Event
  /\ e \in live /\ ~Capturing(e)
  /\ moved' = (moved \/ (p # position[e] /\ Captures(e)))
  /\ position' = [position EXCEPT ![e] = p]
  /\ LET stack == Append(frames, Frame("report", e, <<>>)) IN
     IF e \in styled
     THEN /\ shown' = [shown EXCEPT ![e] = Nothing]
          /\ IF Feeds[e] = Nothing
             THEN frames' = stack /\ UNCHANGED <<property, captured, capped>>
             ELSE UNCHANGED consumers /\ SetsProperty(stack, e, Feeds[e], 0)
     ELSE frames' = stack /\ UNCHANGED <<shown, property, captured, capped>>
  /\ UNCHANGED <<consumers, deps, sequence, styled, generation, value, live>>

(* The dynamic style is resolved from the element's place in the tree.      *)
ReportResolves ==
  /\ frames # <<>> /\ Top.kind = "report"
  /\ LET e == Top.element IN
     /\ generation' = [generation EXCEPT ![e] = @ + 1]
     /\ styled' = IF Consumes(e) THEN styled \cup {e} ELSE styled
     /\ frames' = Append(Under,
          IF Consumes(e)
          THEN [Top EXCEPT !.kind = "resolved", !.value = Expanded(e).value,
                           !.deps = Expanded(e).deps, !.generation = generation[e] + 1]
          ELSE [Top EXCEPT !.kind = "captures", !.todo = CapturesOf[e],
                           !.generation = generation[e] + 1])
  /\ UNCHANGED <<storeVars, value, shown, worldVars, historyVars>>

(* A report that finds its element's state replaced returns.                *)
ReportRegisters ==
  /\ frames # <<>> /\ Top.kind = "resolved"
  /\ LET e == Top.element IN
     IF e \in styled /\ generation[e] = Top.generation
     THEN /\ value' = [value EXCEPT ![e] = Top.value]
          /\ Registers(e, Top.deps)
          /\ frames' = Append(Under, [Top EXCEPT !.kind = "captures", !.todo = CapturesOf[e],
                                                 !.value = Nothing, !.deps = {}])
     ELSE frames' = Under /\ UNCHANGED <<value, consumers, deps>>
  /\ UNCHANGED <<captured, sequence, styled, generation, shown, worldVars, historyVars>>

(* RegisterCapture that does not tell the consumers.                        *)
ReportCapturesQuietly ==
  /\ frames # <<>> /\ Top.kind = "captures" /\ Top.todo # <<>>
  /\ LET e == Top.element
         n == Head(Top.todo) IN
     /\ frames' = Append(Under, [Top EXCEPT !.todo = Tail(@)])
     /\ IF captured[e][n].on
        THEN captured' = [captured EXCEPT ![e][n].chain = position[e]] /\ UNCHANGED sequence
        ELSE /\ captured' = [captured EXCEPT ![e][n] =
                  [on |-> TRUE, value |-> property[e][n], chain |-> position[e],
                   sequence |-> sequence + 1]]
             /\ sequence' = sequence + 1
  /\ UNCHANGED <<consumers, deps, engineVars, worldVars, historyVars>>

(* RegisterCapture for each of the element's captures: one that stands only *)
(* has its chain refreshed, a new one is propagated.                        *)
ReportCaptures ==
  /\ frames # <<>> /\ Top.kind = "captures" /\ Top.todo # <<>>
  /\ UNCHANGED <<consumers, deps>>
  /\ LET e == Top.element
         n == Head(Top.todo)
         stack == Append(Under, [Top EXCEPT !.todo = Tail(@)]) IN
     IF captured[e][n].on
     THEN /\ captured' = [captured EXCEPT ![e][n].chain = position[e]]
          /\ frames' = stack
          /\ UNCHANGED <<sequence, capped>>
     ELSE /\ captured' = [captured EXCEPT ![e][n] =
               [on |-> TRUE, value |-> property[e][n], chain |-> position[e],
                sequence |-> sequence + 1]]
          /\ sequence' = sequence + 1
          /\ Propagate(stack, n)
  /\ UNCHANGED <<engineVars, worldVars, pumped, moved>>

(* The element's bucket is applied, and its report returns.                 *)
ReportApplies ==
  /\ frames # <<>> /\ Top.kind = "captures" /\ Top.todo = <<>>
  /\ UNCHANGED <<consumers, position>>
  /\ LET e == Top.element IN
     IF Consumes(e)
     THEN Applies(Under, e, value[e])
     ELSE frames' = Under /\ UNCHANGED <<shown, property, captured, capped>>
  /\ UNCHANGED <<deps, sequence, styled, generation, value, live, events, pumped, moved>>

(* A captured property changes by itself: layout, or the shell.             *)
PropertyChanges(e, n, v) ==
  /\ Event
  /\ e \in live /\ n # Feeds[e] /\ n \in Range(CapturesOf[e]) /\ v # property[e][n]
  /\ UNCHANGED <<consumers, position>>
  /\ SetsProperty(frames, e, n, v)
  /\ UNCHANGED <<deps, sequence, engineVars, live, moved>>

(* OnElementRemoved, for a removal or by the reaper of a dead element:       *)
(* every capture goes before the first of the names is propagated, in the   *)
(* order of an unordered map.                                               *)
Orders(names) ==
  {order \in [1..Cardinality(names) -> names] : Range(order) = names}

Removed(e) ==
  /\ Event
  /\ ~Capturing(e) /\ (Captures(e) \/ e \in styled)
  /\ captured' = [captured EXCEPT ![e] = [n \in Names |-> NoSite]]
  /\ \E names \in Orders({n \in Names : captured[e][n].on}) :
       frames' = Append(frames, Frame("remove", e, names))
  /\ UNCHANGED <<consumers, deps, sequence, engineVars, property, position, live, capped, moved>>

RemovalPropagates ==
  /\ frames # <<>> /\ Top.kind = "remove" /\ Top.todo # <<>>
  /\ UNCHANGED consumers
  /\ Propagate(Append(Under, [Top EXCEPT !.todo = Tail(@)]), Head(Top.todo))
  /\ UNCHANGED <<captured, deps, sequence, engineVars, worldVars, pumped, moved>>

(* The element's registrations go, and its state is restored.               *)
RemovalEnds ==
  /\ frames # <<>> /\ Top.kind = "remove" /\ Top.todo = <<>>
  /\ UNCHANGED position
  /\ Registers(Top.element, {})
  /\ styled' = styled \ {Top.element}
  /\ value' = [value EXCEPT ![Top.element] = Nothing]
  /\ Applies(Under, Top.element, Nothing)
  /\ UNCHANGED <<sequence, generation, live, events, pumped, moved>>

(* RestoreAllOnThisThread, with the theme retired before it: propagations   *)
(* find no theme and re-apply nothing (what they would have left in between *)
(* is dropped here), so that all goes at once.                              *)
RestoreAll ==
  /\ Event
  /\ \A e \in Elements : ~Capturing(e)
  /\ captured' = [e \in Elements |-> [n \in Names |-> NoSite]]
  /\ consumers' = [n \in Names |-> <<>>]
  /\ deps' = [e \in Elements |-> {}]
  /\ styled' = {}
  /\ value' = [e \in Elements |-> Nothing]
  /\ shown' = [e \in Elements |-> Nothing]
  /\ property' = [e \in Elements |-> [n \in Names |-> IF n = Feeds[e] THEN 0 ELSE property[e][n]]]
  /\ UNCHANGED <<sequence, frames, generation, position, live, capped, moved>>

(* An element dies without a removal; nothing is told.                      *)
Dies(e) ==
  /\ Event /\ e \in live
  /\ \A i \in 1..Len(frames) : e \notin {frames[i].element, frames[i].at}
  /\ live' = live \ {e}
  /\ UNCHANGED <<storeVars, frames, engineVars, property, position, capped, moved>>

Next ==
  \/ Resolves \/ Reapplies \/ PropagationEnds
  \/ \E e \in Elements : \E p \in Positions[e] : Reported(e, p)
  \/ ReportResolves \/ ReportRegisters \/ ReportCaptures \/ ReportApplies
  \/ \E e \in Elements, n \in Names, v \in 0..MaxValue : PropertyChanges(e, n, v)
  \/ \E e \in Elements : Removed(e) \/ Dies(e)
  \/ RemovalPropagates \/ RemovalEnds \/ RestoreAll

Spec == Init /\ [][Next]_vars

-----------------------------------------------------------------------------
(* The index of consumers and their dependencies say the same thing, each   *)
(* consumer once, in every state a callback can see: a property that has    *)
(* stopped reading a name is not re-applied for it.                         *)
ConsumersIndexed ==
  \A n \in Names : /\ IsInjective(consumers[n])
                   /\ Range(consumers[n]) = {e \in Elements : n \in deps[e]}

(* At rest every styled property shows what its expression says now, from   *)
(* the captures closest to it, whatever chain of captures fed by other      *)
(* properties led there; unless a propagation was capped, an event ran      *)
(* inside a resolution, a captured element was moved and only re-reported,  *)
(* or one of its captures has died unnoticed.                               *)
ShowsItsExpression(e) ==
  \/ shown[e] = Expanded(e).value
  \/ \E f \in Elements \ live, n \in {First[e], Second[e]} \ {Nothing} : captured[f][n].on

Converged ==
  frames = <<>> /\ ~capped /\ ~pumped /\ ~moved =>
    \A e \in styled \cap live : ShowsItsExpression(e)

(* "So a reparented element cannot leave a stale spine behind"              *)
(* (style_variables.h:20): the same of captured elements that were moved.   *)
(* Checked to fail: a new report refreshes the chain of a capture that      *)
(* stands, but does not tell the consumers, which a new capture would.      *)
ReparentingConverges ==
  frames = <<>> /\ ~capped /\ ~pumped =>
    \A e \in styled \cap live : ShowsItsExpression(e)

(* A removed element is left alone: no re-application that was resolved for *)
(* its former state sets its property again.                                *)
RemovedStaysBare ==
  frames = <<>> => \A e \in Elements : e \notin styled => shown[e] = Nothing
=============================================================================
