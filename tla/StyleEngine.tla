---------------------------- MODULE StyleEngine ----------------------------
(* The style engine of one UI thread (style_engine.cpp): what a report, a   *)
(* dynamic property's re-evaluation, a visual state, a change made by the   *)
(* shell, a removal and the restore of the thread do to the elements.       *)
(*                                                                          *)
(* The thread is single, but resolving a setter loads XAML, which pumps     *)
(* messages: any of these operations may begin while another one waits for  *)
(* a value.  `stack` holds the operations under way, the innermost last;    *)
(* every frame waits for a value, and only the innermost may go on.  All    *)
(* other calls into XAML are taken not to re-enter (README).                *)
EXTENDS ResourceVariables, FiniteSets

CONSTANTS
  Elements,    \* element ids
  Properties,  \* dependency properties
  States,      \* the states of the one visual state group
  Rules,       \* Rules[t][e]: the matches of e under theme t, in the order
               \* of FindMatchingRules: [group, styles, captures]; a style
               \* is [property, state, dynamic], captures says whether any
  MaxTheme,    \* themes installed, one after the other
  MaxReports, MaxShell, MaxDepth  \* bounds of reports, shell writes, nesting

\* What the captures read and tell is StyleVariables'; here they take time.
ASSUME StyleAssumption ==
  /\ MaxTheme \in Nat
  /\ LET Style == [property : Properties, state : States \cup {""}, dynamic : BOOLEAN] IN
     \A t \in 1..MaxTheme, e \in Elements :
       /\ Rules[t][e] \in Seq([group : STRING, styles : Seq(Style), captures : BOOLEAN])
       /\ \A m \in 1..Len(Rules[t][e]) : Rules[t][e][m].styles # <<>> \/ Rules[t][e][m].captures

VARIABLES
  theme,       \* g_theme, written by the control thread; 0 is null
  installed,   \* how many themes have been installed
  clean,       \* the thread has restored since the last theme was retired
  cache,       \* t_cache_theme
  elems,       \* t_state: id -> [gen, node, buckets]; a node of the map is
               \* named by the generation that put it there
  generation,  \* t_state_generation
  consumers,   \* (id, property) registered with the style variables
  value,       \* the local value of every property
  shell,       \* how often the shell has written each property
  state,       \* the group's current state
  reports,     \* reports begun
  stack,       \* the frames
  lostWatches, \* watches whose token was overwritten, never revoked: of
  lostStates   \* properties, <<id, property, bucket>>, and of states, <<id, bucket>>

\* History: what has happened, read by no step.
VARIABLES
  seen,        \* the shell's last write of each property, but for those made
               \* over a value of ours that nobody watched
  readopted,   \* a report has adopted a retired theme again, since the
               \* thread was last restored
  astray       \* an overtaken report has used what it had borrowed, freed

lost == <<lostWatches, lostStates>>
history == <<seen, readopted, astray>>
engineVars == <<theme, installed, clean, cache, elems, generation, consumers,
                value, shell, state, reports, stack, lost, history>>
vars == <<engineVars, resourceVars>>

NoTheme == 0
Themes == 1..MaxTheme
None == <<>>                        \* no original
Shell(n) == <<0, n>>                \* the shell's n-th value
Themed(t, g) == <<t, g>>            \* a value of theme t, resolved by report g
Empty == [x \in {} |-> None]

Init ==
  /\ ResourceInit
  /\ theme = NoTheme /\ installed = 0 /\ clean = TRUE /\ cache = NoTheme
  /\ elems = Empty /\ generation = 0 /\ consumers = {}
  /\ value = [e \in Elements |-> [p \in Properties |-> Shell(0)]]
  /\ shell = [e \in Elements |-> [p \in Properties |-> 0]]
  /\ state \in States
  /\ reports = 0 /\ stack = <<>> /\ lostWatches = {} /\ lostStates = {}
  /\ seen = shell /\ readopted = FALSE /\ astray = FALSE

-----------------------------------------------------------------------------
(* Buckets and properties.                                                  *)

NewProperty == [values |-> Empty, dynamic |-> {}, applied |-> FALSE,
                original |-> None, last |-> None, watch |-> 0]

(* A bucket of the group has the group's state, another one none.  (As a    *)
(* bug: the state the group still has while it says which one it gets.)     *)
StateOfGroup(group, s) == IF group = "none" THEN "" ELSE state
StateOf(group, s) == IF group = "none" THEN "" ELSE s

(* PickValue: the state's value, else the unconditional one; a set of at    *)
(* most one.                                                                *)
Pick(prop, s) ==
  IF s \in DOMAIN prop.values THEN {prop.values[s]}
  ELSE IF "" \in DOMAIN prop.values THEN {prop.values[""]} ELSE {}

(* A setter that takes what it finds for the shell's, every time.           *)
SetCustomAlways(prop, now, v) ==
  [prop EXCEPT !.applied = TRUE, !.last = v, !.original = now]

(* SetCustom: the first time, what was there is the original.               *)
SetCustom(prop, now, v) ==
  [prop EXCEPT !.applied = TRUE, !.last = v,
               !.original = IF prop.applied THEN @ ELSE now]

Unapply(prop) == [prop EXCEPT !.applied = FALSE, !.original = None]

(* One property of ApplyBucketForState: its record and its local value.     *)
ApplyProperty(prop, now, s) ==
  LET picked == Pick(prop, s)
  IN IF picked # {}
     THEN LET v == CHOOSE x \in picked : TRUE
          IN [prop |-> SetCustom(prop, now, v), value |-> v]
     ELSE [prop |-> Unapply(prop), value |-> IF prop.applied THEN prop.original ELSE now]

(* The buckets that hold a property: one at most (OneOwner), so that the    *)
(* order of the buckets does not matter in what follows.                    *)
Holding(buckets, p) == {i \in 1..Len(buckets) : p \in DOMAIN buckets[i].props}

(* ApplyBucketForState for the chosen buckets, on the element's values.     *)
Applied(buckets, chosen, row, s) ==
  LET Result(i, p) ==
        ApplyProperty(buckets[i].props[p], row[p], StateOf(buckets[i].group, s))
  IN [buckets |-> [i \in 1..Len(buckets) |->
                     IF i \in chosen
                     THEN [buckets[i] EXCEPT !.props = [p \in DOMAIN @ |-> Result(i, p).prop]]
                     ELSE buckets[i]],
      row |-> [p \in Properties |->
                 LET at == chosen \cap Holding(buckets, p)
                 IN IF at = {} THEN row[p] ELSE Result(CHOOSE i \in at : TRUE, p).value]]

(* RestoreElement: what each property had, if we hold a value of it.        *)
Customized(e, p) ==
  IF e \in DOMAIN elems
  THEN {i \in Holding(elems[e].buckets, p) : elems[e].buckets[i].props[p].applied}
  ELSE {}
RestoredRow(e) ==
  [p \in Properties |->
     IF Customized(e, p) = {} THEN value[e][p]
     ELSE elems[e].buckets[CHOOSE i \in Customized(e, p) : TRUE].props[p].original]

WithBucket(buckets, group) ==
  IF \E i \in 1..Len(buckets) : buckets[i].group = group THEN buckets
  ELSE Append(buckets, [group |-> group, watch |-> 0, props |-> Empty])
BucketOf(buckets, group) == CHOOSE i \in 1..Len(buckets) : buckets[i].group = group

With(f, x, v) == [y \in DOMAIN f \cup {x} |-> IF y = x THEN v ELSE f[y]]
Without(f, x) == [y \in DOMAIN f \ {x} |-> f[y]]
Put(buckets, i, p, prop) == [buckets EXCEPT ![i].props = With(@, p, prop)]

-----------------------------------------------------------------------------
(* The control thread.  It installs a theme only after this thread has      *)
(* restored the one before: ThemeTransition, OneThemeAtATime.               *)

InstallTheme ==
  /\ theme = NoTheme /\ clean /\ installed < MaxTheme
  /\ theme' = installed + 1
  /\ installed' = installed + 1
  /\ UNCHANGED <<clean, cache, elems, generation, consumers, value, shell,
                 state, reports, stack, lost, history, resourceVars>>

RetireTheme ==
  /\ theme # NoTheme
  /\ theme' = NoTheme
  /\ clean' = FALSE
  /\ UNCHANGED <<installed, cache, elems, generation, consumers, value, shell,
                 state, reports, stack, lost, history, resourceVars>>

(* RestoreAllOnThisThread, asked for by the control thread after it has     *)
(* retired the theme.  The variables go first: no re-evaluation.            *)
RestoreAll ==
  /\ theme = NoTheme /\ ~clean
  /\ consumers' = {}
  /\ value' = [e \in Elements |-> RestoredRow(e)]
  /\ elems' = Empty
  /\ cache' = NoTheme
  /\ clean' = TRUE
  /\ readopted' = FALSE
  /\ Unmerge
  /\ UNCHANGED <<theme, installed, generation, shell, state, reports, stack, lost,
                 seen, astray>>

-----------------------------------------------------------------------------
(* OnElementAdded.                                                          *)

Top == stack[Len(stack)]
Pop == SubSeq(stack, 1, Len(stack) - 1)
Waits(kind, at) == stack # <<>> /\ Top.kind = kind /\ Top.at = at
Matches(f) == Rules[f.theme][f.id]
Match(f) == Matches(f)[f.m]
Style(f) == Match(f).styles[f.s]

(* The theme is taken and adopted, its resources merged; then the element   *)
(* is matched, which may load XAML for a property filter.                   *)
ReportBegins(e) ==
  /\ theme # NoTheme
  /\ Len(stack) < MaxDepth /\ reports < MaxReports
  /\ reports' = reports + 1
  /\ cache' = theme
  /\ Merge(theme)
  /\ stack' = Append(stack, [kind |-> "report", at |-> "match", id |-> e,
                             theme |-> theme, gen |-> 0, node |-> 0, m |-> 1, s |-> 1,
                             claimed |-> {}, mine |-> {}])
  /\ UNCHANGED <<theme, installed, clean, elems, generation, consumers, value,
                 shell, state, lost, history>>

(* CachedSetter adopts the report's theme before it resolves a setter.      *)
Adopting(f, c) == IF f.at = "property" /\ ~Style(f).dynamic THEN f.theme ELSE c

(* The report goes on: its frame waits for the next value.                  *)
GoesOn(next) ==
  /\ stack' = Append(Pop, next)
  /\ cache' = Adopting(next, cache)
  /\ readopted' = (readopted \/ cache' \notin {cache, theme})

(* The m-th match is entered: at its first style, or at its captures.       *)
Entering(f, m) ==
  [f EXCEPT !.m = m, !.s = 1, !.claimed = @ \cup f.mine, !.mine = {},
            !.at = IF Matches(f)[m].styles = <<>> THEN "capture" ELSE "property"]

(* Matches are found: the element starts clean under a new generation.      *)
MatchesFound ==
  /\ Waits("report", "match")
  /\ IF Matches(Top) = <<>>
     THEN /\ stack' = Pop
          /\ UNCHANGED <<elems, generation, value, cache, readopted>>
     ELSE LET node == IF Top.id \in DOMAIN elems THEN elems[Top.id].node ELSE generation + 1
          IN /\ generation' = generation + 1
             /\ value' = [value EXCEPT ![Top.id] = RestoredRow(Top.id)]
             /\ elems' = With(elems, Top.id,
                              [gen |-> generation + 1, node |-> node,
                               buckets |-> WithBucket(<<>>, Matches(Top)[1].group)])
             /\ GoesOn(Entering([Top EXCEPT !.gen = generation + 1, !.node = node], 1))
  /\ UNCHANGED <<theme, installed, clean, consumers, shell, state, reports, lost,
                 seen, astray, resourceVars>>

(* The report's check after a value it has got: the element is still the    *)
(* one of this generation, and the thread has not let go of the theme.      *)
Current(f) ==
  /\ f.id \in DOMAIN elems
  /\ elems[f.id].gen = f.gen
  /\ cache = f.theme

(* A value is resolved, but the report was overtaken: it returns.           *)
ReportReturns ==
  /\ Waits("report", "property") \/ Waits("report", "value")
  /\ ~Current(Top)
  /\ stack' = Pop
  /\ UNCHANGED <<theme, installed, clean, cache, elems, generation, consumers,
                 value, shell, state, reports, lost, history, resourceVars>>

(* What a report borrows.  Its match's bucket lasts until the element is    *)
(* reported again or removed; the element's state, a node of the map, until *)
(* it is removed.  Who goes on after that uses freed memory.                *)
Owner(f) == f.id \in DOMAIN elems /\ elems[f.id].gen = f.gen
BucketFreed(f) == f.mine # {} /\ ~Owner(f)
StateFreed(f) == f.id \notin DOMAIN elems \/ elems[f.id].node # f.node

(* RegisterConsumer, once per property the match has claimed.  A bucket     *)
(* that was freed may show any properties, of any kind.                     *)
Publishes(f, all) ==
  LET own == {p \in f.mine : Holding(all[f.id].buckets, p) # {}}
      dynamic == {p \in own : \E i \in Holding(all[f.id].buckets, p) :
                                all[f.id].buckets[i].props[p].dynamic # {}}
      Registered(some, live) ==
        (consumers \ {<<f.id, p>> : p \in some}) \cup {<<f.id, p>> : p \in live}
  IN IF Owner(f) THEN consumers' = Registered(own, dynamic)
     ELSE \E some \in SUBSET f.mine : \E live \in SUBSET some :
            consumers' = Registered(some, live)

(* The end of the report: buckets without properties go, then each bucket   *)
(* is applied for its current state and its properties are watched under    *)
(* the bucket's index.  A watch that was there loses its token.             *)
Kept(buckets) ==
  LET filled == {i \in 1..Len(buckets) : DOMAIN buckets[i].props # {}}
      order == CHOOSE f \in [1..Cardinality(filled) -> filled] :
                 \A j, k \in 1..Cardinality(filled) : j < k => f[j] < f[k]
  IN [k \in 1..Cardinality(filled) |-> buckets[order[k]]]

Watched(b, i) ==
  [b EXCEPT !.watch = i, !.props = [p \in DOMAIN @ |-> [@[p] EXCEPT !.watch = i]]]
AllWatched(buckets) == [i \in 1..Len(buckets) |-> Watched(buckets[i], i)]

LosesWatches(e, kept) ==
  LET at == {ip \in (1..Len(kept)) \X Properties : ip[2] \in DOMAIN kept[ip[1]].props}
      Old(ip) == kept[ip[1]].props[ip[2]].watch
  IN /\ lostWatches' = lostWatches \cup {<<e, ip[2], Old(ip)>> : ip \in {x \in at : Old(x) # 0}}
     /\ lostStates' = lostStates \cup
          {<<e, kept[i].watch>> : i \in {j \in 1..Len(kept) :
                                           kept[j].watch # 0 /\ kept[j].group # "none"}}

Finished(f, buckets, all) ==
  LET kept == Kept(buckets)
      done == Applied(kept, 1..Len(kept), value[f.id], state)
  IN /\ IF kept = <<>>
        THEN /\ elems' = Without(all, f.id)
             /\ UNCHANGED value
        ELSE /\ elems' = [all EXCEPT ![f.id].buckets = AllWatched(done.buckets)]
             /\ value' = [value EXCEPT ![f.id] = done.row]
     /\ LosesWatches(f.id, kept)

(* A state that was freed reads as what its memory holds now: nothing or,   *)
(* if the node of the element's new state got it, that state.               *)
Stands(f) == IF ~StateFreed(f) THEN {TRUE}
             ELSE IF f.id \in DOMAIN elems THEN BOOLEAN ELSE {FALSE}

(* From one match to the next, whose bucket is found or appended, or to the *)
(* end.                                                                     *)
MatchEnds(f, all) ==
  /\ astray' = (astray \/ BucketFreed(f) \/ StateFreed(f))
  /\ \E stands \in Stands(f) :
       IF f.m < Len(Matches(f))
       THEN /\ GoesOn(Entering(f, f.m + 1))
            /\ elems' = IF stands
                        THEN [all EXCEPT ![f.id].buckets =
                                WithBucket(@, Matches(f)[f.m + 1].group)]
                        ELSE all
            /\ UNCHANGED <<value, lost>>
       ELSE /\ Finished(f, IF stands THEN all[f.id].buckets ELSE <<>>, all)
            /\ stack' = Pop
            /\ UNCHANGED <<cache, readopted>>

(* From one style to the next, or to the match's end: its consumers are     *)
(* published, then its captures registered, which resolves their properties *)
(* and tells the consumers of the captured variables.                       *)
StyleDone(f, all) ==
  IF f.s < Len(Match(f).styles)
  THEN /\ GoesOn([f EXCEPT !.s = @ + 1, !.at = "property"])
       /\ elems' = all
       /\ UNCHANGED <<value, consumers, lost, astray>>
  ELSE /\ Publishes(f, all)
       /\ IF Match(f).captures
          THEN /\ GoesOn([f EXCEPT !.at = "capture", !.claimed = @ \cup f.mine, !.mine = {}])
               /\ elems' = all
               /\ astray' = (astray \/ BucketFreed(f))
               /\ UNCHANGED <<value, lost>>
          ELSE MatchEnds(f, all)

(* The captures are registered, or failed to be: no check follows.          *)
CapturesEnd ==
  /\ Waits("report", "capture")
  /\ MatchEnds(Top, elems)
  /\ UNCHANGED <<theme, installed, clean, generation, consumers, shell, state, reports,
                 seen, resourceVars>>

(* A property that an earlier match has claimed is not this one's; one that *)
(* names a state without a group is claimed all the same, and stays inert.  *)
IsClaimed(f) == Style(f).property \in f.claimed
IsInert(f) == Style(f).state # "" /\ Match(f).group = "none"

(* SelectDynamicStyle, and a static style's value.                          *)
Selected(f, prop) ==
  IF Style(f).dynamic
  THEN [prop EXCEPT !.dynamic = @ \cup {Style(f).state}]
  ELSE [prop EXCEPT !.dynamic = @ \ {Style(f).state},
                    !.values = With(@, Style(f).state, Themed(f.theme, f.gen))]

(* The element's buckets, as the report has changed them.                   *)
Changed(e, buckets) == [elems EXCEPT ![e].buckets = buckets]

(* The setter, or a dynamic style's property, is resolved.                  *)
PropertyResolved ==
  /\ Waits("report", "property") /\ Current(Top)
  /\ LET p == Style(Top).property
         buckets == elems[Top.id].buckets
         b == BucketOf(buckets, Match(Top).group)
         record == IF p \in DOMAIN buckets[b].props THEN buckets[b].props[p]
                   ELSE NewProperty
         added == Changed(Top.id, Put(buckets, b, p, Selected(Top, record)))
         mine == [Top EXCEPT !.mine = @ \cup {p}]
     IN IF IsClaimed(Top) THEN StyleDone(Top, elems)
        ELSE IF IsInert(Top) THEN StyleDone(mine, elems)
        ELSE IF ~Style(Top).dynamic THEN StyleDone(mine, added)
        ELSE /\ elems' = added
             /\ stack' = Append(Pop, [mine EXCEPT !.at = "value"])
             /\ UNCHANGED <<cache, value, consumers, lost, readopted, astray>>
  /\ UNCHANGED <<theme, installed, clean, generation, shell, state, reports, seen,
                 resourceVars>>

(* The setter is not resolved: the style is skipped.  The exception passes  *)
(* by the check, so that an overtaken report goes on as well.               *)
PropertyFails ==
  /\ Waits("report", "property")
  /\ StyleDone(Top, elems)
  /\ UNCHANGED <<theme, installed, clean, generation, shell, state, reports, seen,
                 resourceVars>>

(* A dynamic style's value is resolved, or the style has none this time.    *)
ValueResolved ==
  /\ Waits("report", "value") /\ Current(Top)
  /\ \E found \in BOOLEAN :
       LET p == Style(Top).property
           buckets == elems[Top.id].buckets
           b == BucketOf(buckets, Match(Top).group)
           record == buckets[b].props[p]
           new == IF found
                  THEN With(record.values, Style(Top).state, Themed(Top.theme, Top.gen))
                  ELSE Without(record.values, Style(Top).state)
       IN StyleDone(Top, Changed(Top.id, Put(buckets, b, p, [record EXCEPT !.values = new])))
  /\ UNCHANGED <<theme, installed, clean, generation, shell, state, reports, seen,
                 resourceVars>>

-----------------------------------------------------------------------------
(* ReapplyDynamicProperty, called when a variable the property depends on   *)
(* has changed: copy, resolve, find again and apply.                        *)

ReapplyBegins(e, p) ==
  /\ <<e, p>> \in consumers
  /\ Len(stack) < MaxDepth
  /\ cache # NoTheme /\ cache = theme
  /\ e \in DOMAIN elems
  /\ \E i \in Holding(elems[e].buckets, p) :
       /\ elems[e].buckets[i].props[p].dynamic # {}
       /\ stack' = Append(stack, [kind |-> "reapply", at |-> "value", id |-> e,
                                  property |-> p, theme |-> cache,
                                  gen |-> elems[e].gen, bucket |-> i,
                                  styles |-> elems[e].buckets[i].props[p].dynamic])
  /\ UNCHANGED <<theme, installed, clean, cache, elems, generation, consumers,
                 value, shell, state, reports, lost, history, resourceVars>>

(* Phase 3 has something to apply to: the element is neither removed nor    *)
(* replaced, the theme not retired.  (As a bug: whatever is in the place.)  *)
SomethingThere(f) ==
  /\ f.id \in DOMAIN elems /\ cache = f.theme /\ theme = f.theme
  /\ f.bucket <= Len(elems[f.id].buckets)
  /\ f.property \in DOMAIN elems[f.id].buckets[f.bucket].props
StillThere(f) ==
  /\ Current(f) /\ theme = f.theme
  /\ f.bucket <= Len(elems[f.id].buckets)
  /\ f.property \in DOMAIN elems[f.id].buckets[f.bucket].props

ReapplyEnds ==
  /\ Waits("reapply", "value")
  /\ stack' = Pop
  /\ IF ~StillThere(Top) THEN UNCHANGED <<elems, value, consumers>>
     ELSE \E found \in SUBSET Top.styles :
       LET e == Top.id
           p == Top.property
           prop == elems[e].buckets[Top.bucket].props[p]
           new == [s \in (DOMAIN prop.values \ Top.styles) \cup found |->
                     IF s \in found THEN Themed(Top.theme, Top.gen) ELSE prop.values[s]]
           updated == [prop EXCEPT !.dynamic = Top.styles, !.values = new]
           r == Applied(Put(elems[e].buckets, Top.bucket, p, updated),
                        {Top.bucket}, value[e], state)
       IN /\ elems' = [elems EXCEPT ![e].buckets = r.buckets]
          /\ value' = [value EXCEPT ![e] = r.row]
          /\ consumers' = consumers \cup {<<e, p>>}
  /\ UNCHANGED <<theme, installed, clean, cache, generation, shell, state,
                 reports, lost, history, resourceVars>>

-----------------------------------------------------------------------------
(* What the shell does, and the callbacks that answer it.                   *)

(* The property watch: the bucket is looked up by the index it registered.  *)
Watching(e, p) ==
  {i \in Customized(e, p) :
     \/ <<e, p, i>> \in lostWatches
     \/ \E j \in Holding(elems[e].buckets, p) : elems[e].buckets[j].props[p].watch = i}

(* What the watch keeps as the original: the local value, if it is not the  *)
(* one we set last.                                                         *)
Honoured(prop, now) == IF now # prop.last THEN now ELSE prop.original

(* The shell writes a property.  The watch keeps the new value as the       *)
(* original, and puts the theme's value back unless the theme is retired.   *)
ShellWrites(e, p) ==
  /\ shell[e][p] < MaxShell
  /\ shell' = [shell EXCEPT ![e][p] = @ + 1]
  /\ seen' = IF Customized(e, p) # {} /\ Watching(e, p) = {} THEN seen
             ELSE [seen EXCEPT ![e][p] = shell[e][p] + 1]
  /\ LET now == Shell(shell[e][p] + 1)
     IN IF Watching(e, p) = {}
        THEN /\ value' = [value EXCEPT ![e][p] = now]
             /\ UNCHANGED elems
        ELSE LET i == CHOOSE j \in Watching(e, p) : TRUE
                 prop == [elems[e].buckets[i].props[p]
                            EXCEPT !.original = Honoured(elems[e].buckets[i].props[p], now)]
                 picked == IF cache # NoTheme /\ cache = theme
                           THEN Pick(prop, StateOf(elems[e].buckets[i].group, state))
                           ELSE {}
                 v == IF picked = {} THEN now ELSE CHOOSE x \in picked : TRUE
             IN /\ value' = [value EXCEPT ![e][p] = v]
                /\ elems' = [elems EXCEPT ![e].buckets =
                     Put(@, i, p, IF picked = {} THEN prop ELSE [prop EXCEPT !.last = v])]
  /\ UNCHANGED <<theme, installed, clean, cache, generation, consumers, state,
                 reports, stack, lost, readopted, astray, resourceVars>>

(* The group changes state: every bucket that watches it is applied again,  *)
(* unless the theme is retired.                                             *)
Reacting(e) ==
  {i \in 1..Len(elems[e].buckets) :
     \/ <<e, i>> \in lostStates
     \/ elems[e].buckets[i].watch # 0 /\ elems[e].buckets[i].group # "none"}

StateChanges(s) ==
  /\ s # state
  /\ state' = s
  /\ IF cache = NoTheme \/ cache # theme THEN UNCHANGED <<elems, value>>
     ELSE /\ elems' = [e \in DOMAIN elems |-> [elems[e] EXCEPT
                         !.buckets = Applied(@, Reacting(e), value[e], s).buckets]]
          /\ value' = [e \in Elements |->
               IF e \in DOMAIN elems
               THEN Applied(elems[e].buckets, Reacting(e), value[e], s).row ELSE value[e]]
  /\ UNCHANGED <<theme, installed, clean, cache, generation, consumers, shell,
                 reports, stack, lost, history, resourceVars>>

(* OnElementRemoved.                                                        *)
ElementRemoved(e) ==
  /\ e \in DOMAIN elems \/ \E p \in Properties : <<e, p>> \in consumers
  /\ consumers' = {c \in consumers : c[1] # e}
  /\ value' = [value EXCEPT ![e] = RestoredRow(e)]
  /\ elems' = Without(elems, e)
  /\ UNCHANGED <<theme, installed, clean, cache, generation, shell, state,
                 reports, stack, lost, history, resourceVars>>

(* The colours, and the refresh they enqueue, which runs as any message.    *)
Resources == (ColorsChange \/ RefreshReferences) /\ UNCHANGED engineVars

-----------------------------------------------------------------------------
Next ==
  \/ InstallTheme \/ RetireTheme \/ RestoreAll
  \/ \E e \in Elements : ReportBegins(e)
  \/ MatchesFound \/ ReportReturns
  \/ PropertyResolved \/ PropertyFails \/ ValueResolved \/ CapturesEnd
  \/ \E e \in Elements, p \in Properties : ReapplyBegins(e, p)
  \/ ReapplyEnds
  \/ \E e \in Elements, p \in Properties : ShellWrites(e, p)
  \/ \E s \in States : StateChanges(s)
  \/ \E e \in Elements : ElementRemoved(e)
  \/ Resources

Spec == Init /\ [][Next]_vars

-----------------------------------------------------------------------------
(* A property we hold remembers, and a property we do not hold has, what    *)
(* the shell wrote last, through nested reports, overtaken ones that go on, *)
(* state changes and themes (SetCustom, Unapply and the watch's "honour it  *)
(* on restore") - of the writes that fell on a property we did not hold, or *)
(* that a watch saw, and until a report goes astray.                        *)
ShellValuesKept ==
  ~astray => \A e \in Elements, p \in Properties :
    /\ \A i \in Customized(e, p) :
         elems[e].buckets[i].props[p].original = Shell(seen[e][p])
    /\ Customized(e, p) = {} => value[e][p] = Shell(seen[e][p])

(* "The shell changed its mind; honour it on restore" (style_engine.cpp     *)
(* :428): a property we do not hold has what the shell wrote last.  Checked *)
(* to fail: a value that a nested operation sets before the report watches  *)
(* the property hides what the shell writes over it.                        *)
ShellValuesReturned ==
  ~astray => \A e \in Elements, p \in Properties :
    Customized(e, p) = {} => value[e][p] = Shell(shell[e][p])

(* "Do not use the borrowed bucket after such a replacement" (style_engine  *)
(* .cpp:670): no report uses the bucket or the state it has borrowed after  *)
(* the element was reported again or removed.  Checked to fail: the catch   *)
(* at 732 passes by the check.                                              *)
NothingFreedIsUsed == ~astray

(* "A property lives in exactly one bucket", and all values an element      *)
(* holds were resolved by the report that owns it, for one theme: until one *)
(* goes astray, no overtaken report leaves a value in its successor, the    *)
(* ones that an exception lets go on included.                              *)
OneOwner ==
  ~astray => \A e \in DOMAIN elems : \A p \in Properties :
    /\ Cardinality(Holding(elems[e].buckets, p)) <= 1
    /\ \A i \in Holding(elems[e].buckets, p) :
         LET prop == elems[e].buckets[i].props[p]
         IN \A s \in DOMAIN prop.values : prop.values[s][2] = elems[e].gen

(* With nothing under way and the theme in force, an element that is        *)
(* watched is watched in every property, under the index of its bucket, and *)
(* shows what the bucket picks for the group's state: no state change,      *)
(* shell write, nested operation or overtaken report that went on has left  *)
(* it behind.  (An element whose report returned is not watched at all and  *)
(* waits for the next.  When a report has adopted a retired theme since the *)
(* last restore, watches of the theme in force have been idle meanwhile:    *)
(* see the README.)                                                         *)
ShowsItsState ==
  stack = <<>> /\ cache = theme /\ ~readopted /\ ~astray =>
    \A e \in DOMAIN elems :
      LET at == {ip \in (1..Len(elems[e].buckets)) \X Properties :
                   ip[2] \in DOMAIN elems[e].buckets[ip[1]].props}
          Prop(ip) == elems[e].buckets[ip[1]].props[ip[2]]
          Picked(ip) == Pick(Prop(ip), StateOf(elems[e].buckets[ip[1]].group, state))
      IN \/ \A ip \in at : Prop(ip).watch = 0
         \/ \A ip \in at :
              /\ Prop(ip).watch = ip[1]
              /\ IF Picked(ip) = {} THEN ~Prop(ip).applied
                 ELSE value[e][ip[2]] \in Picked(ip)
=============================================================================
