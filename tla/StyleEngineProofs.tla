-------------------------- MODULE StyleEngineProofs --------------------------
(* Theorems about the style engine.  Inv is inductive until a report goes   *)
(* astray: every element's buckets are whole (each property in one of them, *)
(* all values of the report that owns the element, originals that the shell *)
(* wrote), every styling report on the stack that still owns its element    *)
(* finds it unwatched and as far as the report itself has claimed           *)
(* (Building), a report with another one of its element above it does not   *)
(* own it (Succession), what the thread has cached is in force or still to  *)
(* be restored (Caches), and what is watched shows the group's state        *)
(* (Showing).  A report that was overtaken and goes on all the same works   *)
(* on its successor's buckets, which nobody else is building by then.       *)
EXTENDS StyleEngine, FiniteSetTheorems, SequenceTheorems, WellFoundedInduction, TLAPS

(* The types of the state.                                                  *)
Partial(D, R) == UNION {[S -> R] : S \in SUBSET D}
StateNames == States \cup {""}
Values == (0..MaxTheme) \X Nat
PropertyState ==
  [values : Partial(StateNames, Themes \X Nat), dynamic : SUBSET StateNames,
   applied : BOOLEAN, original : Values \cup {None}, last : Values \cup {None}, watch : Nat]
Bucket == [group : STRING, watch : Nat, props : Partial(Properties, PropertyState)]
Row == [Properties -> Values]
Writes == [Properties -> Nat]

(* What holds of the buckets of an element.                                 *)
Single(bs) ==
  /\ \A i, j \in 1..Len(bs) : bs[i].group = bs[j].group => i = j
  /\ \A p \in Properties : \A i, j \in Holding(bs, p) : i = j
Owned(bs, g) ==
  \A i \in 1..Len(bs) : \A p \in DOMAIN bs[i].props :
    \A s \in DOMAIN bs[i].props[p].values : bs[i].props[p].values[s][2] = g
Remembers(bs) ==
  \A i \in 1..Len(bs) : \A p \in DOMAIN bs[i].props :
    bs[i].props[p].applied => /\ bs[i].props[p].original \in Values
                              /\ bs[i].props[p].last \in Themes \X Nat
Keeps(bs, row, w) == \A p \in Properties :
  /\ \A i \in Holding(bs, p) :
       bs[i].props[p].applied => bs[i].props[p].original = Shell(w[p])
  /\ (\A i \in Holding(bs, p) : ~bs[i].props[p].applied) => row[p] = Shell(w[p])
Whole(bs, g, row, w) ==
  /\ bs \in Seq(Bucket) /\ Single(bs) /\ Owned(bs, g) /\ Remembers(bs)
  /\ Keeps(bs, row, w)

Quiet(bs) == \A i \in 1..Len(bs) :
  bs[i].watch = 0 /\ \A p \in DOMAIN bs[i].props : bs[i].props[p].watch = 0
Wired(bs) == \A i \in 1..Len(bs) : \A p \in DOMAIN bs[i].props :
  bs[i].watch = i /\ bs[i].props[p].watch = i
Unfilled(bs) == \A i \in 1..Len(bs) : DOMAIN bs[i].props = {}

Shows(bs, i, p, row, s) ==
  LET picked == Pick(bs[i].props[p], StateOf(bs[i].group, s))
  IN IF picked = {} THEN ~bs[i].props[p].applied
     ELSE bs[i].props[p].applied /\ row[p] \in picked
Shown(bs, row, s) == \A i \in 1..Len(bs) : \A p \in DOMAIN bs[i].props :
  bs[i].props[p].watch # 0 => Shows(bs, i, p, row, s)

(* The same buckets for the same properties, watched alike.                 *)
SameShape(bs, old) ==
  /\ Len(bs) = Len(old)
  /\ \A i \in 1..Len(bs) :
       /\ bs[i].group = old[i].group /\ bs[i].watch = old[i].watch
       /\ DOMAIN bs[i].props = DOMAIN old[i].props
       /\ \A p \in DOMAIN bs[i].props : bs[i].props[p].watch = old[i].props[p].watch

-----------------------------------------------------------------------------
LEMMA PartialMember ==
  ASSUME NEW D, NEW R, NEW f, DOMAIN f \subseteq D, f \in [DOMAIN f -> R]
  PROVE  f \in Partial(D, R)
BY DEF Partial

LEMMA PartialFacts ==
  ASSUME NEW D, NEW R, NEW f \in Partial(D, R)
  PROVE  DOMAIN f \subseteq D /\ f \in [DOMAIN f -> R]
BY DEF Partial

LEMMA BucketFacts ==
  ASSUME NEW bs \in Seq(Bucket), NEW i \in 1..Len(bs)
  PROVE  /\ bs[i] \in Bucket /\ bs[i].group \in STRING /\ bs[i].watch \in Nat
         /\ bs[i].props \in [DOMAIN bs[i].props -> PropertyState]
         /\ DOMAIN bs[i].props \subseteq Properties
         /\ \A p \in DOMAIN bs[i].props :
              /\ bs[i].props[p] \in PropertyState
              /\ DOMAIN bs[i].props[p].values \subseteq StateNames
              /\ bs[i].props[p].values \in [DOMAIN bs[i].props[p].values -> Themes \X Nat]
<1>1. bs[i] \in Bucket
  OBVIOUS
<1>2. bs[i].group \in STRING /\ bs[i].watch \in Nat
      /\ bs[i].props \in Partial(Properties, PropertyState)
  BY <1>1 DEF Bucket
<1>3. /\ bs[i].props \in [DOMAIN bs[i].props -> PropertyState]
      /\ DOMAIN bs[i].props \subseteq Properties
  BY <1>2, PartialFacts
<1>4. ASSUME NEW p \in DOMAIN bs[i].props
      PROVE  /\ bs[i].props[p] \in PropertyState
             /\ DOMAIN bs[i].props[p].values \subseteq StateNames
             /\ bs[i].props[p].values \in [DOMAIN bs[i].props[p].values -> Themes \X Nat]
  <2>1. bs[i].props[p] \in PropertyState
    BY <1>3
  <2>2. bs[i].props[p].values \in Partial(StateNames, Themes \X Nat)
    BY <2>1 DEF PropertyState
  <2> QED BY <2>1, <2>2, PartialFacts
<1> QED BY <1>1, <1>2, <1>3, <1>4

LEMMA HoldingFacts ==
  ASSUME NEW bs, NEW p
  PROVE  /\ Holding(bs, p) \subseteq 1..Len(bs)
         /\ \A i \in 1..Len(bs) : i \in Holding(bs, p) <=> p \in DOMAIN bs[i].props
BY DEF Holding

LEMMA PickFacts ==
  ASSUME NEW prop \in PropertyState, NEW s
  PROVE  \A v \in Pick(prop, s) : /\ v \in Themes \X Nat /\ Pick(prop, s) = {v}
                                  /\ \E n \in DOMAIN prop.values : v = prop.values[n]
<1>1. prop.values \in Partial(StateNames, Themes \X Nat)
  BY DEF PropertyState
<1>2. prop.values \in [DOMAIN prop.values -> Themes \X Nat]
  BY <1>1, PartialFacts
<1> QED BY <1>2 DEF Pick

(* One property applied: its record keeps values and watch.                 *)
LEMMA ApplyPropertyFacts ==
  ASSUME NEW prop \in PropertyState, NEW now \in Values, NEW s,
         prop.applied => prop.original \in Values /\ prop.last \in Themes \X Nat
  PROVE  LET new == ApplyProperty(prop, now, s).prop
             v == ApplyProperty(prop, now, s).value
         IN /\ new \in PropertyState /\ v \in Values
            /\ new.values = prop.values /\ new.watch = prop.watch
            /\ new.dynamic = prop.dynamic
            /\ new.applied => new.original \in Values /\ new.last \in Themes \X Nat
            /\ IF Pick(prop, s) = {}
               THEN ~new.applied /\ v = (IF prop.applied THEN prop.original ELSE now)
               ELSE /\ new.applied /\ v \in Pick(prop, s)
                    /\ new.original = (IF prop.applied THEN prop.original ELSE now)
<1> DEFINE new == ApplyProperty(prop, now, s).prop
           v == ApplyProperty(prop, now, s).value
           x == CHOOSE y \in Pick(prop, s) : TRUE
<1>0. Themes \X Nat \subseteq Values
  BY DEF Themes, Values
<1>1. CASE Pick(prop, s) = {}
  <2>1. new = [prop EXCEPT !.applied = FALSE, !.original = None]
        /\ v = (IF prop.applied THEN prop.original ELSE now)
    BY <1>1 DEF ApplyProperty, Unapply
  <2> QED BY <1>1, <2>1 DEF PropertyState
<1>2. CASE Pick(prop, s) # {}
  <2>1. x \in Pick(prop, s) /\ x \in Themes \X Nat
    BY <1>2, PickFacts
  <2>2. new = SetCustom(prop, now, x) /\ v = x
    BY <1>2 DEF ApplyProperty
  <2>3. new = [prop EXCEPT !.applied = TRUE, !.last = x,
                 !.original = IF prop.applied THEN prop.original ELSE now]
    BY <2>2 DEF SetCustom, PropertyState
  <2>4. x \in Values
    BY <2>1, <1>0
  <2> QED BY <1>2, <2>1, <2>2, <2>3, <2>4 DEF PropertyState
<1> QED BY <1>1, <1>2

-----------------------------------------------------------------------------
(* Put changes one property of one bucket.                                  *)
LEMMA PutFacts ==
  ASSUME NEW bs \in Seq(Bucket), NEW i \in 1..Len(bs), NEW p \in Properties,
         NEW prop \in PropertyState
  PROVE  LET new == Put(bs, i, p, prop)
         IN /\ new \in Seq(Bucket) /\ Len(new) = Len(bs)
            /\ \A j \in 1..Len(bs) :
                 /\ new[j].group = bs[j].group /\ new[j].watch = bs[j].watch
                 /\ j # i => new[j] = bs[j]
            /\ DOMAIN new[i].props = DOMAIN bs[i].props \cup {p}
            /\ new[i].props[p] = prop
            /\ \A q \in DOMAIN bs[i].props : q # p => new[i].props[q] = bs[i].props[q]
<1> DEFINE props == With(bs[i].props, p, prop)
           b == [bs[i] EXCEPT !.props = props]
           new == Put(bs, i, p, prop)
<1>1. bs[i] \in Bucket
  OBVIOUS
<1>2. /\ props \in [DOMAIN props -> PropertyState]
      /\ DOMAIN props = DOMAIN bs[i].props \cup {p}
      /\ props[p] = prop /\ \A q \in DOMAIN bs[i].props : q # p => props[q] = bs[i].props[q]
  BY BucketFacts DEF With
<1>3. props \in Partial(Properties, PropertyState)
  BY <1>2, BucketFacts, PartialMember
<1> HIDE DEF props
<1>4. b \in Bucket /\ b.group = bs[i].group /\ b.watch = bs[i].watch /\ b.props = props
  BY <1>1, <1>3 DEF Bucket
<1>5. new = [bs EXCEPT ![i] = b]
  BY DEF Put, props
<1> HIDE DEF b, new
<1>6. new \in Seq(Bucket) /\ Len(new) = Len(bs) /\ new[i] = b
      /\ \A j \in 1..Len(bs) : j # i => new[j] = bs[j]
  BY <1>4, <1>5
<1> QED BY <1>2, <1>4, <1>6 DEF new

(* A property put with new values keeps the buckets whole, if no other      *)
(* bucket holds it and what it remembers does not change.                   *)
LEMMA PutWhole ==
  ASSUME NEW bs, NEW g, NEW row, NEW w, Whole(bs, g, row, w),
         NEW i \in 1..Len(bs), NEW p \in Properties,
         \A j \in Holding(bs, p) : j = i,
         NEW prop \in PropertyState,
         \A s \in DOMAIN prop.values : prop.values[s][2] = g,
         IF p \in DOMAIN bs[i].props
         THEN prop.applied => /\ bs[i].props[p].applied
                              /\ prop.original = bs[i].props[p].original
                              /\ prop.last = bs[i].props[p].last
         ELSE ~prop.applied,
         p \in DOMAIN bs[i].props /\ bs[i].props[p].applied => prop.applied
  PROVE  Whole(Put(bs, i, p, prop), g, row, w)
<1> DEFINE new == Put(bs, i, p, prop)
<1>0. bs \in Seq(Bucket)
  BY DEF Whole
<1>1. /\ new \in Seq(Bucket) /\ Len(new) = Len(bs)
      /\ \A j \in 1..Len(bs) :
           /\ new[j].group = bs[j].group
           /\ j # i => new[j] = bs[j]
      /\ DOMAIN new[i].props = DOMAIN bs[i].props \cup {p}
      /\ new[i].props[p] = prop
      /\ \A q \in DOMAIN bs[i].props : q # p => new[i].props[q] = bs[i].props[q]
  BY <1>0, PutFacts
<1> HIDE DEF new
<1>2. \A q \in Properties : q # p => Holding(new, q) = Holding(bs, q)
  BY <1>1 DEF Holding
<1>3. Holding(new, p) = {i}
  BY <1>1 DEF Holding
<1>4. Single(new)
  BY <1>1, <1>2, <1>3 DEF Whole, Single
<1>5. Owned(new, g)
  BY <1>1 DEF Whole, Owned
<1>6. Remembers(new)
  BY <1>1 DEF Whole, Remembers
<1>7. Keeps(new, row, w)
  <2>1. Keeps(bs, row, w)
    BY DEF Whole
  <2>2. ASSUME NEW q \in Properties, q # p
        PROVE  /\ \A j \in Holding(new, q) :
                    new[j].props[q].applied => new[j].props[q].original = Shell(w[q])
               /\ (\A j \in Holding(new, q) : ~new[j].props[q].applied) => row[q] = Shell(w[q])
    <3>1. \A j \in Holding(bs, q) : new[j].props[q] = bs[j].props[q]
      BY <2>2, <1>1, HoldingFacts
    <3> QED BY <3>1, <2>1, <2>2, <1>2 DEF Keeps
  <2>3. prop.applied => prop.original = Shell(w[p])
    BY <2>1, HoldingFacts DEF Keeps
  <2>4. ~prop.applied => row[p] = Shell(w[p])
    <3>1. ~prop.applied => \A j \in Holding(bs, p) : ~bs[j].props[p].applied
      BY HoldingFacts
    <3> QED BY <3>1, <2>1 DEF Keeps
  <2> QED BY <2>2, <2>3, <2>4, <1>1, <1>3 DEF Keeps
<1> QED BY <1>1, <1>4, <1>5, <1>6, <1>7 DEF Whole, new

-----------------------------------------------------------------------------
(* Applying buckets: the same shape and values, and each applied property   *)
(* shows what it picks.                                                     *)
OneApplied(bs, i, p, row, s) ==
  ApplyProperty(bs[i].props[p], row[p], StateOf(bs[i].group, s))
AppliedTo(r, bs, chosen, row, s) ==
  /\ r.buckets \in Seq(Bucket) /\ r.row \in Row
  /\ SameShape(r.buckets, bs)
  /\ \A i \in 1..Len(bs) \ chosen : r.buckets[i] = bs[i]
  /\ \A i \in chosen : \A p \in DOMAIN bs[i].props :
       /\ r.buckets[i].props[p] = OneApplied(bs, i, p, row, s).prop
       /\ r.row[p] = OneApplied(bs, i, p, row, s).value
  /\ \A p \in Properties :
       (\A i \in chosen : i \notin Holding(bs, p)) => r.row[p] = row[p]

LEMMA AppliedFacts ==
  ASSUME NEW bs \in Seq(Bucket), Single(bs), Remembers(bs),
         NEW chosen \in SUBSET (1..Len(bs)), NEW row \in Row, NEW s
  PROVE  AppliedTo(Applied(bs, chosen, row, s), bs, chosen, row, s)
<1> DEFINE r == Applied(bs, chosen, row, s)
           A(i, p) == ApplyProperty(bs[i].props[p], row[p], StateOf(bs[i].group, s))
           B(i) == [bs[i] EXCEPT !.props = [p \in DOMAIN bs[i].props |-> A(i, p).prop]]
           V(p) == IF chosen \cap Holding(bs, p) = {} THEN row[p]
                   ELSE A(CHOOSE i \in chosen \cap Holding(bs, p) : TRUE, p).value
<1>1. ASSUME NEW i \in 1..Len(bs), NEW p \in DOMAIN bs[i].props
      PROVE  /\ A(i, p).prop \in PropertyState /\ A(i, p).value \in Values
             /\ A(i, p).prop.watch = bs[i].props[p].watch
  <2>1. bs[i].props[p] \in PropertyState /\ p \in Properties
    BY BucketFacts
  <2>2. row[p] \in Values
    BY <2>1 DEF Row
  <2>3. bs[i].props[p].applied =>
          bs[i].props[p].original \in Values /\ bs[i].props[p].last \in Themes \X Nat
    BY DEF Remembers
  <2> QED BY <2>1, <2>2, <2>3, ApplyPropertyFacts
<1>2. r = [buckets |-> [i \in 1..Len(bs) |-> IF i \in chosen THEN B(i) ELSE bs[i]],
           row |-> [p \in Properties |-> V(p)]]
  BY BucketFacts DEF Applied, Bucket
<1>3. ASSUME NEW i \in 1..Len(bs)
      PROVE  /\ B(i) \in Bucket /\ B(i).group = bs[i].group /\ B(i).watch = bs[i].watch
             /\ B(i).props = [p \in DOMAIN bs[i].props |-> A(i, p).prop]
  <2> DEFINE new == [p \in DOMAIN bs[i].props |-> A(i, p).prop]
  <2>1. new \in [DOMAIN new -> PropertyState] /\ DOMAIN new = DOMAIN bs[i].props
    BY <1>1
  <2>2. new \in Partial(Properties, PropertyState)
    BY <2>1, BucketFacts, PartialMember
  <2>3. bs[i] \in Bucket
    OBVIOUS
  <2> HIDE DEF new
  <2>4. [bs[i] EXCEPT !.props = new] \in Bucket
        /\ [bs[i] EXCEPT !.props = new].group = bs[i].group
        /\ [bs[i] EXCEPT !.props = new].watch = bs[i].watch
        /\ [bs[i] EXCEPT !.props = new].props = new
    BY <2>2, <2>3 DEF Bucket
  <2> QED BY <2>4 DEF new
<1>4. \A i \in chosen : \A p \in DOMAIN bs[i].props : V(p) = A(i, p).value
  <2> TAKE i \in chosen
  <2> TAKE p \in DOMAIN bs[i].props
  <2>1. p \in Properties /\ i \in 1..Len(bs)
    BY BucketFacts
  <2>2. chosen \cap Holding(bs, p) = {i}
    BY <2>1, HoldingFacts DEF Single
  <2> QED BY <2>2
<1>5. \A p \in Properties : V(p) \in Values
  <2> TAKE p \in Properties
  <2>1. CASE chosen \cap Holding(bs, p) = {}
    BY <2>1 DEF Row
  <2>2. CASE chosen \cap Holding(bs, p) # {}
    <3>1. PICK i \in chosen : i \in Holding(bs, p)
      BY <2>2
    <3>2. p \in DOMAIN bs[i].props /\ i \in 1..Len(bs)
      BY <3>1, HoldingFacts
    <3>3. A(i, p).value \in Values
      BY <3>2, <1>1
    <3> HIDE DEF A, V
    <3> QED BY <3>2, <3>3, <1>4
  <2> QED BY <2>1, <2>2
<1>6. \A p \in Properties : (\A i \in chosen : i \notin Holding(bs, p)) => V(p) = row[p]
  OBVIOUS
<1> HIDE DEF A, B, V, r
<1>7. r.row \in Row /\ (\A p \in Properties : r.row[p] = V(p))
  BY <1>2, <1>5 DEF Row
<1>8. /\ r.buckets \in Seq(Bucket) /\ Len(r.buckets) = Len(bs)
      /\ \A i \in chosen : r.buckets[i] = B(i)
      /\ \A i \in 1..Len(bs) \ chosen : r.buckets[i] = bs[i]
  <2>1. r.buckets = [i \in 1..Len(bs) |-> IF i \in chosen THEN B(i) ELSE bs[i]]
    BY <1>2
  <2>2. \A i \in 1..Len(bs) : bs[i] \in Bucket /\ B(i) \in Bucket
    BY <1>3, BucketFacts
  <2>3. r.buckets \in Seq(Bucket) /\ Len(r.buckets) = Len(bs)
    BY <2>1, <2>2
  <2> QED BY <2>1, <2>3
<1>9. ASSUME NEW i \in chosen, NEW p \in DOMAIN bs[i].props
      PROVE  r.buckets[i].props[p] = A(i, p).prop /\ r.row[p] = A(i, p).value
  <2>1. i \in 1..Len(bs) /\ p \in Properties
    BY BucketFacts
  <2>2. r.buckets[i].props = [q \in DOMAIN bs[i].props |-> A(i, q).prop]
    BY <2>1, <1>3, <1>8
  <2>3. r.row[p] = A(i, p).value
    BY <2>1, <1>4, <1>7
  <2> QED BY <2>2, <2>3
<1>10. SameShape(r.buckets, bs)
  <2> SUFFICES ASSUME NEW i \in 1..Len(bs)
               PROVE  /\ r.buckets[i].group = bs[i].group
                      /\ r.buckets[i].watch = bs[i].watch
                      /\ DOMAIN r.buckets[i].props = DOMAIN bs[i].props
                      /\ \A p \in DOMAIN bs[i].props :
                           r.buckets[i].props[p].watch = bs[i].props[p].watch
    BY <1>8 DEF SameShape
  <2>1. CASE i \in chosen
    <3>1. /\ r.buckets[i].group = bs[i].group /\ r.buckets[i].watch = bs[i].watch
          /\ r.buckets[i].props = [p \in DOMAIN bs[i].props |-> A(i, p).prop]
      BY <2>1, <1>3, <1>8
    <3> QED BY <3>1, <1>1
  <2>2. CASE i \notin chosen
    BY <2>2, <1>8
  <2> QED BY <2>1, <2>2
<1> QED BY <1>6, <1>7, <1>8, <1>9, <1>10 DEF A, r, AppliedTo, OneApplied

LEMMA SameShapeHolding ==
  ASSUME NEW bs, NEW old, SameShape(bs, old), NEW p
  PROVE  Holding(bs, p) = Holding(old, p)
BY DEF SameShape, Holding

LEMMA SameShapeSingle ==
  ASSUME NEW bs, NEW old, SameShape(bs, old), Single(old)
  PROVE  Single(bs)
BY SameShapeHolding DEF SameShape, Single

LEMMA AppliedWhole ==
  ASSUME NEW bs, NEW g, NEW row \in Row, NEW w, Whole(bs, g, row, w),
         NEW chosen \in SUBSET (1..Len(bs)), NEW s
  PROVE  LET r == Applied(bs, chosen, row, s) IN Whole(r.buckets, g, r.row, w)
<1> DEFINE r == Applied(bs, chosen, row, s)
           new == r.buckets
           A(i, p) == ApplyProperty(bs[i].props[p], row[p], StateOf(bs[i].group, s))
<1>0. bs \in Seq(Bucket) /\ Single(bs) /\ Remembers(bs) /\ Owned(bs, g)
  BY DEF Whole
<1>10. AppliedTo(r, bs, chosen, row, s)
  BY <1>0, AppliedFacts
<1>1. /\ new \in Seq(Bucket) /\ r.row \in Row
      /\ SameShape(new, bs)
      /\ \A i \in 1..Len(bs) \ chosen : new[i] = bs[i]
      /\ \A i \in chosen : \A p \in DOMAIN bs[i].props :
           new[i].props[p] = A(i, p).prop /\ r.row[p] = A(i, p).value
      /\ \A p \in Properties : (\A i \in chosen : i \notin Holding(bs, p)) => r.row[p] = row[p]
  BY <1>10 DEF AppliedTo, OneApplied
<1>2. ASSUME NEW i \in 1..Len(bs), NEW p \in DOMAIN bs[i].props
      PROVE  /\ A(i, p).prop.values = bs[i].props[p].values
             /\ A(i, p).prop.applied => /\ A(i, p).prop.original \in Values
                                        /\ A(i, p).prop.last \in Themes \X Nat
             /\ A(i, p).prop.applied => A(i, p).prop.original =
                  (IF bs[i].props[p].applied THEN bs[i].props[p].original ELSE row[p])
             /\ ~A(i, p).prop.applied => A(i, p).value =
                  (IF bs[i].props[p].applied THEN bs[i].props[p].original ELSE row[p])
  <2>1. bs[i].props[p] \in PropertyState /\ p \in Properties
    BY <1>0, BucketFacts
  <2>2. row[p] \in Values
    BY <2>1 DEF Row
  <2>3. bs[i].props[p].applied =>
          bs[i].props[p].original \in Values /\ bs[i].props[p].last \in Themes \X Nat
    BY <1>0 DEF Remembers
  <2> QED BY <2>1, <2>2, <2>3, ApplyPropertyFacts
<1> HIDE DEF r, A
<1>3. Len(new) = Len(bs) /\ \A i \in 1..Len(bs) : DOMAIN new[i].props = DOMAIN bs[i].props
  BY <1>1 DEF SameShape
<1>4. Single(new)
  BY <1>0, <1>1, SameShapeSingle
<1>5. ASSUME NEW i \in 1..Len(bs), NEW p \in DOMAIN bs[i].props
      PROVE  /\ \A n \in DOMAIN new[i].props[p].values : new[i].props[p].values[n][2] = g
             /\ new[i].props[p].applied => /\ new[i].props[p].original \in Values
                                           /\ new[i].props[p].last \in Themes \X Nat
  <2>1. CASE i \in chosen
    BY <2>1, <1>0, <1>1, <1>2 DEF Owned
  <2>2. CASE i \notin chosen
    BY <2>2, <1>0, <1>1 DEF Owned, Remembers
  <2> QED BY <2>1, <2>2
<1>6. Owned(new, g) /\ Remembers(new)
  BY <1>3, <1>5 DEF Owned, Remembers
<1>7. Keeps(new, r.row, w)
  <2>1. Keeps(bs, row, w)
    BY DEF Whole
  <2> SUFFICES ASSUME NEW p \in Properties
               PROVE  /\ \A i \in Holding(bs, p) :
                           new[i].props[p].applied => new[i].props[p].original = Shell(w[p])
                      /\ (\A i \in Holding(bs, p) : ~new[i].props[p].applied)
                           => r.row[p] = Shell(w[p])
    BY <1>1, SameShapeHolding DEF Keeps
  <2>2. CASE \A i \in chosen : i \notin Holding(bs, p)
    BY <2>1, <2>2, <1>1, HoldingFacts DEF Keeps
  <2>3. ASSUME NEW i \in chosen, i \in Holding(bs, p)
        PROVE  /\ new[i].props[p].applied => new[i].props[p].original = Shell(w[p])
               /\ ~new[i].props[p].applied => r.row[p] = Shell(w[p])
    <3>1. Holding(bs, p) = {i} /\ p \in DOMAIN bs[i].props /\ i \in 1..Len(bs)
      BY <2>3, <1>0, HoldingFacts DEF Single
    <3>2. (IF bs[i].props[p].applied THEN bs[i].props[p].original ELSE row[p]) = Shell(w[p])
      BY <2>1, <3>1 DEF Keeps
    <3> QED BY <3>1, <3>2, <1>1, <1>2
  <2>4. ASSUME NEW i \in chosen, i \in Holding(bs, p)
        PROVE  /\ \A j \in Holding(bs, p) :
                    new[j].props[p].applied => new[j].props[p].original = Shell(w[p])
               /\ (\A j \in Holding(bs, p) : ~new[j].props[p].applied)
                    => r.row[p] = Shell(w[p])
    <3>1. Holding(bs, p) = {i}
      BY <2>4, <1>0, HoldingFacts DEF Single
    <3> QED BY <2>3, <2>4, <3>1
  <2> QED BY <2>2, <2>4
<1> QED BY <1>1, <1>4, <1>6, <1>7 DEF Whole, r

(* What has been applied shows the state it was applied for.                *)
LEMMA AppliedShows ==
  ASSUME NEW bs, NEW g, NEW row \in Row, NEW w, Whole(bs, g, row, w),
         NEW chosen \in SUBSET (1..Len(bs)), NEW s,
         NEW i \in chosen, NEW p \in DOMAIN bs[i].props
  PROVE  LET r == Applied(bs, chosen, row, s) IN Shows(r.buckets, i, p, r.row, s)
<1> DEFINE r == Applied(bs, chosen, row, s)
           prop == bs[i].props[p]
           a == ApplyProperty(prop, row[p], StateOf(bs[i].group, s))
<1>0. bs \in Seq(Bucket) /\ Single(bs) /\ Remembers(bs)
  BY DEF Whole
<1>10. AppliedTo(r, bs, chosen, row, s)
  BY <1>0, AppliedFacts
<1>1. /\ r.buckets[i].props[p] = a.prop /\ r.row[p] = a.value
      /\ r.buckets[i].group = bs[i].group
  <2> HIDE DEF r
  <2> QED BY <1>10 DEF AppliedTo, OneApplied, SameShape
<1>2. prop \in PropertyState /\ p \in Properties
  BY <1>0, BucketFacts
<1>3. row[p] \in Values
  BY <1>2 DEF Row
<1>4. prop.applied => prop.original \in Values /\ prop.last \in Themes \X Nat
  BY <1>0 DEF Remembers
<1>5. /\ a.prop.values = prop.values
      /\ IF Pick(prop, StateOf(bs[i].group, s)) = {} THEN ~a.prop.applied
         ELSE a.prop.applied /\ a.value \in Pick(prop, StateOf(bs[i].group, s))
  BY <1>2, <1>3, <1>4, ApplyPropertyFacts
<1>6. Pick(a.prop, StateOf(bs[i].group, s)) = Pick(prop, StateOf(bs[i].group, s))
  BY <1>5 DEF Pick
<1> HIDE DEF r, a, prop
<1> QED BY <1>1, <1>5, <1>6 DEF Shows, r

-----------------------------------------------------------------------------
(* Kept: every set of indexes has its elements in order.                    *)
Increasing(f, S) ==
  /\ f \in [1..Cardinality(S) -> S]
  /\ \A j, k \in 1..Cardinality(S) : j < k => f[j] < f[k]

LEMMA OrderExists ==
  ASSUME NEW n \in Nat, NEW S \in SUBSET (1..n)
  PROVE  IsFiniteSet(S) /\ \E f : Increasing(f, S)
<1> DEFINE T(m) == S \cap (1..m)
           Bad == {m \in 0..n : ~ \E f : Increasing(f, T(m))}
<1>1. ASSUME NEW m \in 0..n PROVE IsFiniteSet(T(m)) /\ Cardinality(T(m)) \in Nat
  <2>1. IsFiniteSet(1..m)
    BY FS_Interval
  <2>2. T(m) \in SUBSET (1..m)
    OBVIOUS
  <2> HIDE DEF T
  <2> QED BY <2>1, <2>2, FS_Subset, FS_CardinalityType
<1>2. ASSUME NEW m \in Bad, \A k \in Bad : ~(k < m) PROVE FALSE
  <2>1. CASE m = 0
    <3>1. T(m) = {} /\ Cardinality({}) = 0
      BY <2>1, FS_EmptySet
    <3>2. Increasing(<<>>, {})
      BY <3>1 DEF Increasing
    <3> QED BY <3>1, <3>2
  <2>2. CASE m # 0
    <3>0. m \in 1..n /\ m - 1 \in 0..n /\ m - 1 < m
      BY <2>2
    <3>1. m - 1 \in 0..n /\ m \in 1..n /\ m - 1 \notin Bad
      <4> HIDE DEF Bad
      <4> QED BY <3>0, <1>2
    <3>2. PICK f : Increasing(f, T(m - 1))
      BY <3>1
    <3>3. CASE m \notin S
      <4>1. T(m) = T(m - 1)
        BY <3>1, <3>3
      <4> QED BY <3>2, <4>1
    <3>4. CASE m \in S
      <4> DEFINE c == Cardinality(T(m - 1))
                 h == [j \in 1..(c + 1) |-> IF j = c + 1 THEN m ELSE f[j]]
      <4>1. T(m) = T(m - 1) \cup {m} /\ m \notin T(m - 1)
        BY <3>1, <3>4
      <4>2. Cardinality(T(m)) = c + 1 /\ c \in Nat
        BY <4>1, <3>1, <1>1, FS_AddElement
      <4>3. \A j \in 1..c : f[j] \in T(m - 1) /\ f[j] \in 1..(m - 1)
        BY <3>2 DEF Increasing
      <4>4. h \in [1..Cardinality(T(m)) -> T(m)]
        <5>1. \A j \in 1..(c + 1) : h[j] \in T(m)
          <6> HIDE DEF c, T
          <6> QED BY <4>1, <4>2, <4>3
        <5> QED BY <4>2, <5>1
      <4>5. \A j, k \in 1..(c + 1) : j < k => h[j] < h[k]
        <5>1. \A j, k \in 1..c : j < k => f[j] < f[k]
          BY <3>2 DEF Increasing
        <5>2. \A j \in 1..c : f[j] \in Nat /\ f[j] < m
          BY <4>3, <3>0
        <5>3. m \in Nat
          BY <3>0
        <5> HIDE DEF c, T
        <5> QED BY <4>2, <5>1, <5>2, <5>3
      <4>6. Increasing(h, T(m))
        BY <4>2, <4>4, <4>5 DEF Increasing
      <4> QED BY <4>6
    <3> QED BY <3>3, <3>4
  <2> QED BY <2>1, <2>2
<1>3. Bad = {}
  <2> SUFFICES ASSUME Bad # {} PROVE FALSE
    OBVIOUS
  <2>1. PICK m \in Bad : \A k \in Bad : ~(<<k, m>> \in OpToRel(<, Nat))
    <3>1. Bad \subseteq Nat
      OBVIOUS
    <3> HIDE DEF Bad
    <3> QED BY <3>1, WFMin, NatLessThanWellFounded
  <2>2. \A k \in Bad : ~(k < m)
    <3>1. Bad \subseteq Nat
      OBVIOUS
    <3> HIDE DEF Bad
    <3> QED BY <3>1, <2>1 DEF OpToRel
  <2> QED BY <2>2, <1>2
<1>4. T(n) = S
  OBVIOUS
<1> HIDE DEF T
<1> QED BY <1>1, <1>3, <1>4

LEMMA IncreasingOnto ==
  ASSUME NEW S \in SUBSET Nat, IsFiniteSet(S), NEW f, Increasing(f, S)
  PROVE  /\ \A j, k \in 1..Cardinality(S) : f[j] = f[k] => j = k
         /\ \A i \in S : \E k \in 1..Cardinality(S) : f[k] = i
<1>1. IsFiniteSet(S) /\ Cardinality(S) \in Nat
  BY FS_CardinalityType
<1>2. \A k \in 1..Cardinality(S) : f[k] \in S /\ f[k] \in Nat
  <2>1. \A k \in 1..Cardinality(S) : f[k] \in S
    BY DEF Increasing
  <2> QED BY <2>1
<1>3. \A j, k \in 1..Cardinality(S) : f[j] = f[k] => j = k
  BY <1>1, <1>2 DEF Increasing
<1>4. f \in Injection(1..Cardinality(S), S)
  BY <1>3 DEF Increasing, Injection, IsInjective
<1>5. Cardinality(1..Cardinality(S)) = Cardinality(S)
  BY <1>1, FS_Interval
<1>6. f \in Surjection(1..Cardinality(S), S)
  BY <1>1, <1>4, <1>5, FS_Injection
<1> QED BY <1>3, <1>6 DEF Surjection

(* What is kept: the filled buckets, each once, in their order.             *)
Picks(kept, bs, f) ==
  /\ f \in [1..Len(kept) -> 1..Len(bs)]
  /\ \A k \in 1..Len(kept) : kept[k] = bs[f[k]] /\ DOMAIN kept[k].props # {}
  /\ \A j, k \in 1..Len(kept) : f[j] = f[k] => j = k
  /\ \A i \in 1..Len(bs) : DOMAIN bs[i].props # {} => \E k \in 1..Len(kept) : f[k] = i

LEMMA KeptFacts ==
  ASSUME NEW bs \in Seq(Bucket)
  PROVE  Kept(bs) \in Seq(Bucket) /\ \E f : Picks(Kept(bs), bs, f)
<1> DEFINE S == {i \in 1..Len(bs) : DOMAIN bs[i].props # {}}
           f == CHOOSE h \in [1..Cardinality(S) -> S] :
                  \A j, k \in 1..Cardinality(S) : j < k => h[j] < h[k]
<1>1. Len(bs) \in Nat /\ S \in SUBSET (1..Len(bs))
  OBVIOUS
<1>2. Increasing(f, S)
  <2>1. \E h : Increasing(h, S)
    BY <1>1, OrderExists
  <2> HIDE DEF S
  <2> QED BY <2>1 DEF Increasing
<1>3. Cardinality(S) \in Nat
  BY <1>1, OrderExists, FS_CardinalityType
<1>4. Kept(bs) = [k \in 1..Cardinality(S) |-> bs[f[k]]]
  BY DEF Kept
<1>5. /\ \A j, k \in 1..Cardinality(S) : f[j] = f[k] => j = k
      /\ \A i \in S : \E k \in 1..Cardinality(S) : f[k] = i
  <2>1. S \in SUBSET Nat /\ IsFiniteSet(S)
    <3>1. S \in SUBSET Nat
      OBVIOUS
    <3>2. IsFiniteSet(S)
      BY <1>1, OrderExists
    <3> QED BY <3>1, <3>2
  <2> HIDE DEF S, f
  <2> QED BY <2>1, <1>2, IncreasingOnto
<1> HIDE DEF f
<1>6. \A k \in 1..Cardinality(S) : f[k] \in 1..Len(bs) /\ DOMAIN bs[f[k]].props # {}
  BY <1>2 DEF Increasing
<1>7. Kept(bs) \in Seq(Bucket) /\ Len(Kept(bs)) = Cardinality(S)
  <2> HIDE DEF S
  <2> QED BY <1>3, <1>4, <1>6
<1>8. f \in [1..Len(Kept(bs)) -> 1..Len(bs)]
  BY <1>2, <1>7 DEF Increasing
<1>9. Picks(Kept(bs), bs, f)
  BY <1>4, <1>5, <1>6, <1>7, <1>8 DEF Picks
<1> QED BY <1>7, <1>9

LEMMA KeptWhole ==
  ASSUME NEW bs, NEW g, NEW row, NEW w, Whole(bs, g, row, w)
  PROVE  Whole(Kept(bs), g, row, w)
<1>0. bs \in Seq(Bucket) /\ Single(bs) /\ Owned(bs, g) /\ Remembers(bs)
  BY DEF Whole
<1> DEFINE new == Kept(bs)
<1>1. new \in Seq(Bucket) /\ \E h : Picks(new, bs, h)
  BY <1>0, KeptFacts
<1> HIDE DEF new
<1>2. PICK f : Picks(new, bs, f)
  BY <1>1
<1>3. \A k \in 1..Len(new) : f[k] \in 1..Len(bs) /\ new[k] = bs[f[k]]
  BY <1>2 DEF Picks
<1>4. \A p : \A k \in Holding(new, p) : k \in 1..Len(new) /\ f[k] \in Holding(bs, p)
  BY <1>3, HoldingFacts
<1>5. Single(new)
  <2>1. ASSUME NEW i \in 1..Len(new), NEW j \in 1..Len(new), new[i].group = new[j].group
        PROVE  i = j
    <3>1. f[i] = f[j]
      BY <2>1, <1>3, <1>0 DEF Single
    <3> QED BY <3>1, <1>2 DEF Picks
  <2>2. ASSUME NEW p \in Properties, NEW i \in Holding(new, p), NEW j \in Holding(new, p)
        PROVE  i = j
    <3>1. f[i] = f[j] /\ i \in 1..Len(new) /\ j \in 1..Len(new)
      BY <2>2, <1>4, <1>0 DEF Single
    <3> QED BY <3>1, <1>2 DEF Picks
  <2> QED BY <2>1, <2>2 DEF Single
<1>6. Owned(new, g) /\ Remembers(new)
  BY <1>0, <1>3 DEF Owned, Remembers
<1>7. Keeps(new, row, w)
  <2>1. Keeps(bs, row, w)
    BY DEF Whole
  <2> SUFFICES ASSUME NEW p \in Properties
               PROVE  /\ \A i \in Holding(new, p) :
                           new[i].props[p].applied => new[i].props[p].original = Shell(w[p])
                      /\ (\A i \in Holding(new, p) : ~new[i].props[p].applied)
                           => row[p] = Shell(w[p])
    BY DEF Keeps
  <2>2. \A i \in Holding(new, p) :
          new[i].props[p].applied => new[i].props[p].original = Shell(w[p])
    BY <2>1, <1>3, <1>4 DEF Keeps
  <2>3. ASSUME \A i \in Holding(new, p) : ~new[i].props[p].applied
        PROVE  \A i \in Holding(bs, p) : ~bs[i].props[p].applied
    <3> TAKE i \in Holding(bs, p)
    <3>1. i \in 1..Len(bs) /\ p \in DOMAIN bs[i].props
      BY HoldingFacts
    <3>2. PICK k \in 1..Len(new) : f[k] = i
      BY <3>1, <1>2 DEF Picks
    <3>3. k \in Holding(new, p) /\ new[k] = bs[i]
      BY <3>1, <3>2, <1>3, HoldingFacts
    <3> QED BY <3>3, <2>3
  <2> QED BY <2>1, <2>2, <2>3 DEF Keeps
<1> QED BY <1>1, <1>5, <1>6, <1>7 DEF Whole, new

-----------------------------------------------------------------------------
(* A bucket appended, and buckets watched, hold what they held.             *)
LEMMA WithBucketFacts ==
  ASSUME NEW bs, NEW g, NEW row, NEW w, Whole(bs, g, row, w), NEW group \in STRING
  PROVE  LET new == WithBucket(bs, group)
         IN /\ Whole(new, g, row, w)
            /\ \E i \in 1..Len(new) : new[i].group = group
            /\ \A i \in 1..Len(new) : \/ i \in 1..Len(bs) /\ new[i] = bs[i]
                                      \/ DOMAIN new[i].props = {} /\ new[i].watch = 0
<1> DEFINE new == WithBucket(bs, group)
<1>0. bs \in Seq(Bucket) /\ Single(bs) /\ Owned(bs, g) /\ Remembers(bs)
  BY DEF Whole
<1>1. CASE \E i \in 1..Len(bs) : bs[i].group = group
  <2>1. new = bs
    BY <1>1 DEF WithBucket
  <2> QED BY <1>1, <2>1
<1>2. CASE ~\E i \in 1..Len(bs) : bs[i].group = group
  <2> DEFINE b == [group |-> group, watch |-> 0, props |-> Empty]
  <2>1. b \in Bucket /\ b.group = group /\ DOMAIN b.props = {} /\ b.watch = 0
    <3>1. DOMAIN Empty = {} /\ Empty \in [DOMAIN Empty -> PropertyState]
      BY DEF Empty
    <3>2. Empty \in Partial(Properties, PropertyState)
      BY <3>1, PartialMember
    <3> QED BY <3>1, <3>2 DEF Bucket
  <2>2. new = Append(bs, b)
    BY <1>2 DEF WithBucket
  <2> HIDE DEF new, b
  <2>3. /\ new \in Seq(Bucket) /\ Len(new) = Len(bs) + 1 /\ Len(bs) \in Nat
        /\ \A i \in 1..Len(bs) : new[i] = bs[i] /\ bs[i].group # group
        /\ new[Len(bs) + 1] = b
    BY <1>0, <1>2, <2>1, <2>2
  <2>4. \A i \in 1..Len(new) : i \in 1..Len(bs) \/ i = Len(bs) + 1
    BY <2>3
  <2>5. \A p : Holding(new, p) = Holding(bs, p)
    BY <2>1, <2>3, <2>4 DEF Holding
  <2>6. Single(new)
    BY <1>0, <2>1, <2>3, <2>4, <2>5 DEF Single
  <2>7. Owned(new, g)
    BY <1>0, <2>1, <2>3, <2>4 DEF Owned
  <2>8. Remembers(new)
    BY <1>0, <2>1, <2>3, <2>4 DEF Remembers
  <2>9. Keeps(new, row, w)
    <3>1. Keeps(bs, row, w)
      BY DEF Whole
    <3>2. \A p : \A i \in Holding(bs, p) : new[i] = bs[i]
      BY <2>3, HoldingFacts
    <3> QED BY <3>1, <3>2, <2>5 DEF Keeps
  <2>10. Whole(new, g, row, w)
    BY <2>3, <2>6, <2>7, <2>8, <2>9 DEF Whole
  <2>11. new[Len(bs) + 1].group = group /\ Len(bs) + 1 \in 1..Len(new)
    BY <2>1, <2>3
  <2> QED BY <2>1, <2>3, <2>4, <2>10, <2>11 DEF new
<1> QED BY <1>1, <1>2

(* An element with no bucket has what the shell wrote.                      *)
LEMMA NoBuckets ==
  ASSUME NEW g, NEW row, NEW w, \A p \in Properties : row[p] = Shell(w[p])
  PROVE  Whole(<<>>, g, row, w)
<1>1. Len(<<>>) = 0 /\ <<>> \in Seq(Bucket) /\ \A p : Holding(<<>>, p) = {}
  BY DEF Holding
<1> QED BY <1>1 DEF Whole, Single, Owned, Remembers, Keeps

LEMMA AllWatchedFacts ==
  ASSUME NEW bs, NEW g, NEW row, NEW w, Whole(bs, g, row, w)
  PROVE  LET new == AllWatched(bs)
         IN /\ Whole(new, g, row, w) /\ Wired(new) /\ Len(new) = Len(bs)
            /\ \A i \in 1..Len(bs) :
                 /\ new[i].group = bs[i].group /\ DOMAIN new[i].props = DOMAIN bs[i].props
                 /\ \A p \in DOMAIN bs[i].props :
                      /\ new[i].props[p].applied = bs[i].props[p].applied
                      /\ new[i].props[p].values = bs[i].props[p].values
<1> DEFINE new == AllWatched(bs)
           P(i) == [p \in DOMAIN bs[i].props |-> [bs[i].props[p] EXCEPT !.watch = i]]
<1>0. bs \in Seq(Bucket) /\ Single(bs) /\ Owned(bs, g) /\ Remembers(bs)
  BY DEF Whole
<1>1. ASSUME NEW i \in 1..Len(bs)
      PROVE  /\ Watched(bs[i], i) \in Bucket
             /\ Watched(bs[i], i).group = bs[i].group /\ Watched(bs[i], i).watch = i
             /\ Watched(bs[i], i).props = P(i)
             /\ \A p \in DOMAIN bs[i].props :
                  /\ P(i)[p].watch = i
                  /\ P(i)[p].applied = bs[i].props[p].applied
                  /\ P(i)[p].values = bs[i].props[p].values
                  /\ P(i)[p].original = bs[i].props[p].original
                  /\ P(i)[p].last = bs[i].props[p].last
  <2>1. /\ bs[i] \in Bucket /\ DOMAIN bs[i].props \subseteq Properties
        /\ \A p \in DOMAIN bs[i].props : bs[i].props[p] \in PropertyState
    BY <1>0, BucketFacts
  <2>2. ASSUME NEW p \in DOMAIN bs[i].props
        PROVE  /\ P(i)[p] \in PropertyState
               /\ P(i)[p].watch = i
               /\ P(i)[p].applied = bs[i].props[p].applied
               /\ P(i)[p].values = bs[i].props[p].values
               /\ P(i)[p].original = bs[i].props[p].original
               /\ P(i)[p].last = bs[i].props[p].last
    <3>1. bs[i].props[p] \in PropertyState /\ P(i)[p] = [bs[i].props[p] EXCEPT !.watch = i]
      BY <2>1, <2>2
    <3>2. i \in Nat
      BY <1>0
    <3> HIDE DEF P
    <3> QED BY <3>1, <3>2 DEF PropertyState
  <2>3. P(i) \in [DOMAIN P(i) -> PropertyState] /\ DOMAIN P(i) = DOMAIN bs[i].props
    BY <2>2
  <2>4. P(i) \in Partial(Properties, PropertyState)
    BY <2>1, <2>3, PartialMember
  <2>5. Watched(bs[i], i) = [bs[i] EXCEPT !.watch = i, !.props = P(i)]
    BY <2>1 DEF Watched, Bucket
  <2>6. ASSUME NEW X \in Partial(Properties, PropertyState),
               Watched(bs[i], i) = [bs[i] EXCEPT !.watch = i, !.props = X]
        PROVE  /\ Watched(bs[i], i) \in Bucket
               /\ Watched(bs[i], i).group = bs[i].group /\ Watched(bs[i], i).watch = i
               /\ Watched(bs[i], i).props = X
    <3>1. i \in Nat
      BY <1>0
    <3> QED BY <2>1, <2>6, <3>1 DEF Bucket
  <2> QED BY <2>2, <2>4, <2>5, <2>6
<1>2. new = [i \in 1..Len(bs) |-> Watched(bs[i], i)]
  BY DEF AllWatched
<1> HIDE DEF P
<1>3. new \in Seq(Bucket) /\ Len(new) = Len(bs)
      /\ \A i \in 1..Len(bs) : new[i] = Watched(bs[i], i)
  BY <1>0, <1>1, <1>2
<1> HIDE DEF new
<1>4. \A i \in 1..Len(bs) :
        /\ new[i].group = bs[i].group /\ new[i].watch = i
        /\ DOMAIN new[i].props = DOMAIN bs[i].props
        /\ \A p \in DOMAIN bs[i].props :
             /\ new[i].props[p].watch = i
             /\ new[i].props[p].applied = bs[i].props[p].applied
             /\ new[i].props[p].values = bs[i].props[p].values
             /\ new[i].props[p].original = bs[i].props[p].original
             /\ new[i].props[p].last = bs[i].props[p].last
  <2> TAKE i \in 1..Len(bs)
  <2>1. DOMAIN P(i) = DOMAIN bs[i].props
    BY DEF P
  <2> QED BY <1>1, <1>3, <2>1
<1>5. \A p : Holding(new, p) = Holding(bs, p)
  BY <1>3, <1>4 DEF Holding
<1>6. Single(new) /\ Owned(new, g) /\ Remembers(new) /\ Wired(new)
  <2>1. Single(new)
    BY <1>0, <1>3, <1>4, <1>5 DEF Single
  <2>2. Owned(new, g) /\ Remembers(new)
    BY <1>0, <1>3, <1>4 DEF Owned, Remembers
  <2>3. Wired(new)
    BY <1>3, <1>4 DEF Wired
  <2> QED BY <2>1, <2>2, <2>3
<1>7. Keeps(new, row, w)
  <2>1. Keeps(bs, row, w)
    BY DEF Whole
  <2> QED BY <2>1, <1>4, <1>5, HoldingFacts DEF Keeps
<1> QED BY <1>3, <1>4, <1>6, <1>7 DEF Whole, new

-----------------------------------------------------------------------------
(* The frames, and the invariant.                                           *)
ReportFrame ==
  [kind : {"report"}, at : {"match", "property", "value", "capture"}, id : Elements,
   theme : Themes, gen : Nat, node : Nat, m : Nat, s : Nat,
   claimed : SUBSET Properties, mine : SUBSET Properties]
ReapplyFrame ==
  [kind : {"reapply"}, at : {"value"}, id : Elements, property : Properties,
   theme : Themes, gen : Nat, bucket : Nat \ {0}, styles : SUBSET StateNames]
Frame == ReportFrame \cup ReapplyFrame
Element == [gen : Nat, node : Nat, buckets : Seq(Bucket)]
Styled(g, n, bs) == [gen |-> g, node |-> n, buckets |-> bs]
Watches == Elements \X Properties \X Nat

Types ==
  /\ theme \in 0..MaxTheme /\ installed \in 0..MaxTheme /\ cache \in 0..MaxTheme
  /\ clean \in BOOLEAN /\ readopted \in BOOLEAN
  /\ elems \in Partial(Elements, Element)
  /\ generation \in Nat /\ reports \in Nat
  /\ consumers \subseteq Elements \X Properties
  /\ value \in [Elements -> Row]
  /\ shell \in [Elements -> Writes] /\ seen \in [Elements -> Writes]
  /\ state \in States
  /\ stack \in Seq(Frame)
  /\ lost \in (SUBSET Watches) \X (SUBSET (Elements \X Nat))

Elems == \A e \in DOMAIN elems :
  /\ elems[e].gen \in 1..generation
  /\ Whole(elems[e].buckets, elems[e].gen, value[e], seen[e])
  /\ Quiet(elems[e].buckets) \/ Wired(elems[e].buckets)

(* An element without customization has what the shell wrote.               *)
Bare == \A e \in Elements : e \notin DOMAIN elems =>
          \A p \in Properties : value[e][p] = Shell(seen[e][p])

(* A report that is styling its element: its match has a bucket, and every  *)
(* property there is was claimed by an earlier match or by this one.        *)
Styling(f) == f.kind = "report" /\ f.at # "match"
Owns(f, all) == f.id \in DOMAIN all /\ all[f.id].gen = f.gen
Group(f) == Matches(f)[f.m].group
Claims(f, bs) == \A i \in 1..Len(bs) : \A p \in DOMAIN bs[i].props :
  p \in f.claimed \/ (p \in f.mine /\ bs[i].group = Group(f))
Building(f, bs) ==
  /\ Quiet(bs) /\ Claims(f, bs)
  /\ \E i \in 1..Len(bs) : /\ bs[i].group = Group(f)
                           /\ f.at = "value" => Style(f).property \in DOMAIN bs[i].props
Placed(f) ==
  /\ f.m \in 1..Len(Matches(f))
  /\ f.at # "capture" => f.s \in 1..Len(Match(f).styles)
FrameOK(f) ==
  /\ Placed(f) /\ f.gen \in 1..generation
  /\ Owns(f, elems) => elems[f.id].node = f.node /\ Building(f, elems[f.id].buckets)
Frames == \A d \in 1..Len(stack) :
  /\ Styling(stack[d]) => FrameOK(stack[d])
  /\ stack[d].kind = "report" /\ stack[d].at = "match" =>
       stack[d].m = 1 /\ stack[d].s = 1 /\ stack[d].mine = {}
Succession == \A c, d \in 1..Len(stack) :
  c < d /\ Styling(stack[c]) /\ Styling(stack[d]) /\ stack[c].id = stack[d].id
    => ~Owns(stack[c], elems)

(* What the thread has cached is the theme in force, or the one that was    *)
(* retired and is still to be restored; without a cache no bucket is filled.*)
Caches ==
  /\ ~readopted /\ cache # NoTheme => cache = theme \/ (theme = NoTheme /\ ~clean)
  /\ cache = NoTheme => \A e \in DOMAIN elems : Unfilled(elems[e].buckets)

(* What is watched shows the state of the group.                            *)
Showing == ~readopted /\ cache = theme =>
  \A e \in DOMAIN elems : Shown(elems[e].buckets, value[e], state)

Inv == Types /\ Elems /\ Bare /\ Frames /\ Succession /\ Caches /\ Showing

(* Once a report has used what was freed, nothing is claimed.               *)
Sound == ~astray => Inv

-----------------------------------------------------------------------------
Styles == [property : Properties, state : StateNames, dynamic : BOOLEAN]
MatchRecord == [group : STRING, styles : Seq(Styles), captures : BOOLEAN]

LEMMA RulesFacts ==
  ASSUME NEW t \in Themes, NEW e \in Elements
  PROVE  /\ Rules[t][e] \in Seq(MatchRecord)
         /\ \A m \in 1..Len(Rules[t][e]) :
              /\ Rules[t][e][m].group \in STRING
              /\ Rules[t][e][m].styles \in Seq(Styles)
              /\ Rules[t][e][m].styles # <<>> => 1 \in 1..Len(Rules[t][e][m].styles)
              /\ \A s \in 1..Len(Rules[t][e][m].styles) :
                   Rules[t][e][m].styles[s] \in Styles
<1>1. Rules[t][e] \in Seq(MatchRecord)
  BY StyleAssumption DEF MatchRecord, Styles, StateNames, Themes
<1>2. ASSUME NEW m \in 1..Len(Rules[t][e])
      PROVE  /\ Rules[t][e][m].group \in STRING
             /\ Rules[t][e][m].styles \in Seq(Styles)
             /\ Rules[t][e][m].styles # <<>> => 1 \in 1..Len(Rules[t][e][m].styles)
             /\ \A s \in 1..Len(Rules[t][e][m].styles) :
                  Rules[t][e][m].styles[s] \in Styles
  <2>1. Rules[t][e][m] \in MatchRecord
    BY <1>1
  <2>2. Rules[t][e][m].group \in STRING /\ Rules[t][e][m].styles \in Seq(Styles)
    BY <2>1 DEF MatchRecord
  <2> QED BY <2>2
<1> QED BY <1>1, <1>2

LEMMA FrameTypes ==
  ASSUME NEW f \in Frame, f.kind = "report"
  PROVE  /\ f \in ReportFrame /\ f.id \in Elements /\ f.theme \in Themes
         /\ f.gen \in Nat /\ f.node \in Nat /\ f.m \in Nat /\ f.s \in Nat
         /\ f.claimed \in SUBSET Properties /\ f.mine \in SUBSET Properties
         /\ f.at \in {"match", "property", "value", "capture"}
BY DEF Frame, ReportFrame, ReapplyFrame

LEMMA StyleFacts ==
  ASSUME NEW f \in ReportFrame, Placed(f), f.at # "capture"
  PROVE  /\ Style(f) \in Styles /\ Style(f).property \in Properties
         /\ Style(f).state \in StateNames /\ Group(f) \in STRING
BY RulesFacts DEF Placed, Style, Match, Matches, ReportFrame, Styles, Group

LEMMA ElemFacts ==
  ASSUME Types, NEW e \in DOMAIN elems
  PROVE  /\ e \in Elements /\ elems \in [DOMAIN elems -> Element]
         /\ elems[e] \in Element /\ elems[e].gen \in Nat /\ elems[e].node \in Nat
         /\ elems[e].buckets \in Seq(Bucket)
         /\ elems[e] = [gen |-> elems[e].gen, node |-> elems[e].node, buckets |-> elems[e].buckets]
<1>1. DOMAIN elems \subseteq Elements /\ elems \in [DOMAIN elems -> Element]
  BY PartialFacts DEF Types
<1>2. elems[e] \in Element
  BY <1>1
<1> QED BY <1>1, <1>2 DEF Element

LEMMA RowFacts ==
  ASSUME Types, NEW e \in Elements
  PROVE  /\ value[e] \in Row /\ shell[e] \in Writes /\ seen[e] \in Writes
         /\ \A p \in Properties : value[e][p] \in Values /\ shell[e][p] \in Nat
BY DEF Types, Row, Writes

LEMMA BucketsReplaced ==
  ASSUME Types, NEW e \in DOMAIN elems, NEW bs
  PROVE  Changed(e, bs) = With(elems, e, Styled(elems[e].gen, elems[e].node, bs))
<1>1. Changed(e, bs) = [elems EXCEPT ![e] = [elems[e] EXCEPT !.buckets = bs]]
  BY DEF Changed
<1>2. [elems[e] EXCEPT !.buckets = bs]
        = Styled(elems[e].gen, elems[e].node, bs)
  BY ElemFacts DEF Element, Styled
<1>3. DOMAIN elems \cup {e} = DOMAIN elems /\ elems = [x \in DOMAIN elems |-> elems[x]]
  BY ElemFacts
<1> QED BY <1>1, <1>2, <1>3 DEF With

(* One element gets new buckets and values.                                 *)
LEMMA ElementRebuilt ==
  ASSUME Types, Elems, Bare, NEW e \in Elements, NEW g, NEW n \in Nat, NEW bs,
         generation' \in Nat, generation' >= generation, g \in 1..generation',
         elems' = With(elems, e, Styled(g, n, bs)),
         value' \in [Elements -> Row], \A x \in Elements : x # e => value'[x] = value[x],
         seen' \in [Elements -> Writes],
         \A x \in Elements : x # e => seen'[x] = seen[x],
         Whole(bs, g, value'[e], seen'[e]), Quiet(bs) \/ Wired(bs)
  PROVE  /\ elems' \in Partial(Elements, Element)
         /\ Elems' /\ Bare'
         /\ DOMAIN elems' = DOMAIN elems \cup {e}
         /\ elems'[e].gen = g /\ elems'[e].node = n /\ elems'[e].buckets = bs
         /\ \A x \in DOMAIN elems : x # e => elems'[x] = elems[x] /\ value'[x] = value[x]
<1>1. /\ DOMAIN elems \subseteq Elements /\ elems \in [DOMAIN elems -> Element]
      /\ value \in [Elements -> Row] /\ generation \in Nat
  BY PartialFacts DEF Types
<1>2. /\ DOMAIN elems' = DOMAIN elems \cup {e}
      /\ elems'[e] = [gen |-> g, node |-> n, buckets |-> bs]
      /\ \A x \in DOMAIN elems : x # e => elems'[x] = elems[x]
      /\ elems' = [x \in DOMAIN elems' |-> elems'[x]]
  BY DEF With, Styled
<1>4. g \in Nat /\ bs \in Seq(Bucket)
  BY DEF Whole
<1>5. /\ elems'[e] \in Element /\ elems'[e].gen = g /\ elems'[e].node = n
      /\ elems'[e].buckets = bs
  BY <1>2, <1>4 DEF Element
<1>6. elems' \in Partial(Elements, Element)
  <2>1. \A x \in DOMAIN elems' : elems'[x] \in Element
    BY <1>1, <1>2, <1>5
  <2>2. elems' \in [DOMAIN elems' -> Element] /\ DOMAIN elems' \subseteq Elements
    BY <1>1, <1>2, <2>1
  <2> QED BY <2>2, PartialMember
<1>7. Elems'
  <2> SUFFICES ASSUME NEW x \in DOMAIN elems'
               PROVE  /\ elems'[x].gen \in 1..generation'
                      /\ Whole(elems'[x].buckets, elems'[x].gen, value'[x], seen'[x])
                      /\ Quiet(elems'[x].buckets) \/ Wired(elems'[x].buckets)
    BY DEF Elems, Whole, Single, Owned, Remembers, Keeps, Quiet, Wired, Holding, Shell
  <2>1. CASE x = e
    BY <2>1, <1>5
  <2>2. CASE x # e
    <3>1. /\ x \in DOMAIN elems /\ elems'[x] = elems[x] /\ value'[x] = value[x]
          /\ seen'[x] = seen[x]
      BY <2>2, <1>1, <1>2
    <3>2. /\ elems[x].gen \in 1..generation
          /\ Whole(elems[x].buckets, elems[x].gen, value[x], seen[x])
          /\ Quiet(elems[x].buckets) \/ Wired(elems[x].buckets)
      BY <3>1 DEF Elems
    <3>3. elems[x].gen \in 1..generation'
      BY <3>2, <1>1
    <3> QED BY <3>1, <3>2, <3>3
  <2> QED BY <2>1, <2>2
<1>8. Bare'
  BY <1>1, <1>2 DEF Bare, Shell
<1> QED BY <1>1, <1>2, <1>5, <1>6, <1>7, <1>8

LEMMA ElementChanged ==
  ASSUME Types, Elems, Bare, NEW e \in Elements, NEW g, NEW n \in Nat, NEW bs, NEW row \in Row,
         generation' \in Nat, generation' >= generation, g \in 1..generation',
         elems' = With(elems, e, Styled(g, n, bs)),
         value' = [value EXCEPT ![e] = row],
         seen' \in [Elements -> Writes],
         \A x \in Elements : x # e => seen'[x] = seen[x],
         Whole(bs, g, row, seen'[e]), Quiet(bs) \/ Wired(bs)
  PROVE  /\ elems' \in Partial(Elements, Element)
         /\ value' \in [Elements -> Row]
         /\ Elems' /\ Bare'
         /\ DOMAIN elems' = DOMAIN elems \cup {e}
         /\ elems'[e].gen = g /\ elems'[e].node = n /\ elems'[e].buckets = bs
         /\ value'[e] = row
         /\ \A x \in DOMAIN elems : x # e => elems'[x] = elems[x] /\ value'[x] = value[x]
<1>1. /\ value' \in [Elements -> Row] /\ value'[e] = row
      /\ \A x \in Elements : x # e => value'[x] = value[x]
  BY DEF Types
<1>2. Whole(bs, g, value'[e], seen'[e])
  BY <1>1
<1> QED BY <1>1, <1>2, ElementRebuilt

(* One element is let go of.                                                *)
LEMMA ElementGone ==
  ASSUME Types, Elems, Bare, NEW e \in Elements, NEW row \in Row,
         generation' = generation, seen' = seen,
         elems' = Without(elems, e),
         value' = [value EXCEPT ![e] = row],
         \A p \in Properties : row[p] = Shell(seen[e][p])
  PROVE  /\ elems' \in Partial(Elements, Element)
         /\ value' \in [Elements -> Row]
         /\ Elems' /\ Bare'
         /\ DOMAIN elems' = DOMAIN elems \ {e}
         /\ \A x \in DOMAIN elems' : elems'[x] = elems[x] /\ value'[x] = value[x]
<1>1. /\ DOMAIN elems \subseteq Elements /\ elems \in [DOMAIN elems -> Element]
      /\ value \in [Elements -> Row]
  BY PartialFacts DEF Types
<1>2. /\ DOMAIN elems' = DOMAIN elems \ {e}
      /\ \A x \in DOMAIN elems' : elems'[x] = elems[x]
      /\ elems' = [x \in DOMAIN elems' |-> elems'[x]]
  BY DEF Without
<1>3. /\ value' \in [Elements -> Row] /\ value'[e] = row
      /\ \A x \in Elements : x # e => value'[x] = value[x]
  BY <1>1
<1>4. elems' \in Partial(Elements, Element)
  <2>1. elems' \in [DOMAIN elems' -> Element] /\ DOMAIN elems' \subseteq Elements
    BY <1>1, <1>2
  <2> QED BY <2>1, PartialMember
<1>5. Elems'
  <2> SUFFICES ASSUME NEW x \in DOMAIN elems'
               PROVE  /\ elems'[x].gen \in 1..generation'
                      /\ Whole(elems'[x].buckets, elems'[x].gen, value'[x], seen'[x])
                      /\ Quiet(elems'[x].buckets) \/ Wired(elems'[x].buckets)
    BY DEF Elems, Whole, Single, Owned, Remembers, Keeps, Quiet, Wired, Holding, Shell
  <2>1. x \in DOMAIN elems /\ x # e /\ elems'[x] = elems[x] /\ value'[x] = value[x]
    BY <1>1, <1>2, <1>3
  <2> QED BY <2>1 DEF Elems
<1>6. Bare'
  BY <1>1, <1>2, <1>3 DEF Bare, Shell
<1> QED BY <1>1, <1>2, <1>3, <1>4, <1>5, <1>6

LEMMA RestoredFacts ==
  ASSUME Types, Elems, Bare, NEW e \in Elements
  PROVE  /\ RestoredRow(e) \in Row
         /\ \A p \in Properties : RestoredRow(e)[p] = Shell(seen[e][p])
<1>1. /\ RestoredRow(e) = [p \in Properties |->
           IF Customized(e, p) = {} THEN value[e][p]
           ELSE elems[e].buckets[CHOOSE i \in Customized(e, p) : TRUE].props[p].original]
  BY DEF RestoredRow
<1>2. ASSUME NEW p \in Properties
      PROVE  /\ RestoredRow(e)[p] \in Values
             /\ RestoredRow(e)[p] = Shell(seen[e][p])
  <2>1. CASE Customized(e, p) = {}
    <3>1. RestoredRow(e)[p] = value[e][p]
      BY <1>1, <2>1
    <3>2. CASE e \notin DOMAIN elems
      BY <3>1, <3>2, RowFacts DEF Bare
    <3>3. CASE e \in DOMAIN elems
      <4>1. \A i \in Holding(elems[e].buckets, p) : ~elems[e].buckets[i].props[p].applied
        BY <2>1, <3>3 DEF Customized
      <4>2. Whole(elems[e].buckets, elems[e].gen, value[e], seen[e])
        BY <3>3 DEF Elems
      <4> QED BY <3>1, <4>1, <4>2, RowFacts DEF Whole, Keeps
    <3> QED BY <3>2, <3>3
  <2>2. CASE Customized(e, p) # {}
    <3>1. e \in DOMAIN elems
      BY <2>2 DEF Customized
    <3> DEFINE bs == elems[e].buckets
               i == CHOOSE j \in Customized(e, p) : TRUE
    <3>2. i \in Customized(e, p)
      BY <2>2
    <3>3. i \in Holding(bs, p) /\ bs[i].props[p].applied
      <4>1. Customized(e, p) = {j \in Holding(bs, p) : bs[j].props[p].applied}
        BY <3>1 DEF Customized
      <4> HIDE DEF bs, i
      <4> QED BY <3>2, <4>1
    <3>4. RestoredRow(e)[p] = bs[i].props[p].original
      BY <1>1, <2>2
    <3>5. Whole(bs, elems[e].gen, value[e], seen[e])
      BY <3>1 DEF Elems
    <3> HIDE DEF bs, i
    <3>6. bs[i].props[p].original \in Values
      BY <3>3, <3>5, HoldingFacts DEF Whole, Remembers
    <3>7. bs[i].props[p].original = Shell(seen[e][p])
      BY <3>3, <3>5 DEF Whole, Keeps
    <3> QED BY <3>4, <3>6, <3>7
  <2> QED BY <2>1, <2>2
<1>3. RestoredRow(e) \in Row
  BY <1>1, <1>2 DEF Row
<1> QED BY <1>2, <1>3

LEMMA BuildingShape ==
  ASSUME NEW f, NEW bs, NEW old, SameShape(bs, old), Building(f, old)
  PROVE  Building(f, bs)
<1>1. Quiet(bs)
  BY DEF Building, Quiet, SameShape
<1>2. Claims(f, bs)
  BY DEF Building, Claims, SameShape
<1> QED BY <1>1, <1>2 DEF Building, SameShape

-----------------------------------------------------------------------------
(* The stack.                                                               *)
LEMMA StackFacts ==
  ASSUME Types, stack # <<>>
  PROVE  /\ Len(stack) \in Nat /\ Len(stack) \in 1..Len(stack)
         /\ Top \in Frame /\ Top = stack[Len(stack)]
         /\ Pop \in Seq(Frame) /\ Len(Pop) = Len(stack) - 1
         /\ \A d \in 1..Len(Pop) : Pop[d] = stack[d]
<1>1. stack \in Seq(Frame) /\ Len(stack) \in Nat /\ Len(stack) # 0
  BY DEF Types
<1>2. /\ Pop \in Seq(Frame) /\ Len(Pop) = Len(stack) - 1
      /\ \A d \in 1..Len(Pop) : Pop[d] = stack[d]
  <2> DEFINE n == Len(stack) - 1
  <2>1. n \in Int /\ 1 \in Int /\ n \in Nat /\ \A i \in 1..n : stack[i] \in Frame
    BY <1>1
  <2> HIDE DEF n
  <2>2. /\ SubSeq(stack, 1, n) \in Seq(Frame)
        /\ Len(SubSeq(stack, 1, n)) = (IF 1 <= n THEN n - 1 + 1 ELSE 0)
        /\ \A i \in 1..(n - 1 + 1) : SubSeq(stack, 1, n)[i] = stack[1 + i - 1]
    BY <2>1, SubSeqProperties
  <2>3. Len(SubSeq(stack, 1, n)) = n
    BY <2>1, <2>2
  <2>4. \A i \in 1..n : SubSeq(stack, 1, n)[i] = stack[i]
    <3> TAKE i \in 1..n
    <3>1. i \in 1..(n - 1 + 1) /\ 1 + i - 1 = i
      BY <2>1
    <3> QED BY <2>2, <3>1
  <2> QED BY <2>2, <2>3, <2>4 DEF Pop, n
<1> QED BY <1>1, <1>2 DEF Top

LEMMA PushFacts ==
  ASSUME NEW s \in Seq(Frame), NEW f \in Frame
  PROVE  /\ Append(s, f) \in Seq(Frame) /\ Len(Append(s, f)) = Len(s) + 1
         /\ \A d \in 1..Len(s) : Append(s, f)[d] = s[d]
         /\ Append(s, f)[Len(s) + 1] = f
         /\ \A d \in 1..Len(Append(s, f)) : d \in 1..Len(s) \/ d = Len(s) + 1
OBVIOUS

(* What a frame needs after a step: its element, if it still owns it.       *)
StillBuilding(d) == Styling(stack[d]) /\ Owns(stack[d], elems') =>
  /\ Owns(stack[d], elems)
  /\ elems'[stack[d].id].node = stack[d].node
  /\ Building(stack[d], elems'[stack[d].id].buckets)

LEMMA FramesPop ==
  ASSUME Types, Frames, Succession, stack # <<>>, stack' = Pop,
         generation' = generation, \A d \in 1..Len(Pop) : StillBuilding(d)
  PROVE  stack' \in Seq(Frame) /\ Frames' /\ Succession'
<1>1. /\ Pop \in Seq(Frame) /\ Len(Pop) = Len(stack) - 1 /\ Len(stack) \in Nat
      /\ \A d \in 1..Len(Pop) : stack'[d] = stack[d] /\ d \in 1..Len(stack)
  BY StackFacts
<1>2. Frames'
  BY <1>1 DEF Frames, FrameOK, StillBuilding
<1>3. Succession'
  BY <1>1 DEF Succession, StillBuilding
<1> QED BY <1>1, <1>2, <1>3

LEMMA FramesReplaced ==
  ASSUME Types, Frames, Succession, stack # <<>>,
         NEW next \in Frame, Styling(next), stack' = Append(Pop, next),
         generation' \in Nat, generation' >= generation,
         Placed(next), next.gen \in 1..generation',
         Owns(next, elems') => /\ elems'[next.id].node = next.node
                               /\ Building(next, elems'[next.id].buckets),
         \A d \in 1..Len(Pop) : StillBuilding(d),
         \A d \in 1..Len(Pop) : Styling(stack[d]) /\ stack[d].id = next.id
                                  => ~Owns(stack[d], elems')
  PROVE  stack' \in Seq(Frame) /\ Frames' /\ Succession'
<1>1. /\ Pop \in Seq(Frame) /\ Len(Pop) = Len(stack) - 1 /\ Len(stack) \in Nat
      /\ \A d \in 1..Len(Pop) : Pop[d] = stack[d] /\ d \in 1..Len(stack)
  BY StackFacts
<1>2. /\ stack' \in Seq(Frame) /\ Len(stack') = Len(Pop) + 1
      /\ \A d \in 1..Len(Pop) : stack'[d] = stack[d]
      /\ stack'[Len(Pop) + 1] = next
      /\ \A d \in 1..Len(stack') : d \in 1..Len(Pop) \/ d = Len(Pop) + 1
  BY <1>1, PushFacts
<1>3. generation \in Nat
  BY DEF Types
<1>4. ASSUME NEW d \in 1..Len(stack')
      PROVE  /\ Styling(stack'[d]) =>
                  /\ Placed(stack'[d]) /\ stack'[d].gen \in 1..generation'
                  /\ Owns(stack'[d], elems') =>
                       /\ elems'[stack'[d].id].node = stack'[d].node
                       /\ Building(stack'[d], elems'[stack'[d].id].buckets)
             /\ stack'[d].kind = "report" /\ stack'[d].at = "match"
                  => stack'[d].m = 1 /\ stack'[d].s = 1 /\ stack'[d].mine = {}
  <2>1. CASE d \in 1..Len(Pop)
    <3>1. stack'[d] = stack[d] /\ d \in 1..Len(stack)
      BY <2>1, <1>1, <1>2
    <3>2. Styling(stack[d]) => Placed(stack[d]) /\ stack[d].gen \in 1..generation
      BY <3>1 DEF Frames, FrameOK
    <3>3. Styling(stack[d]) => stack[d].gen \in 1..generation'
      BY <3>2, <1>3
    <3>4. StillBuilding(d)
      BY <2>1
    <3> QED BY <3>1, <3>2, <3>3, <3>4 DEF Frames, StillBuilding
  <2>2. CASE d = Len(Pop) + 1
    BY <2>2, <1>2 DEF Styling
  <2> QED BY <2>1, <2>2, <1>2
<1>5. Frames'
  BY <1>4 DEF Frames, FrameOK
<1>6. Succession'
  <2> SUFFICES ASSUME NEW c \in 1..Len(stack'), NEW d \in 1..Len(stack'), c < d,
                      Styling(stack'[c]), Styling(stack'[d]), stack'[c].id = stack'[d].id
               PROVE  ~Owns(stack'[c], elems')
    BY DEF Succession
  <2>0. c \in 1..Len(Pop)
    BY <1>1, <1>2
  <2>1. CASE d \in 1..Len(Pop)
    BY <2>0, <2>1, <1>1, <1>2 DEF Succession, StillBuilding
  <2>2. CASE d = Len(Pop) + 1
    BY <2>0, <2>2, <1>1, <1>2
  <2> QED BY <2>1, <2>2, <1>2
<1> QED BY <1>2, <1>5, <1>6

(* A step of the styling report on top changes its own element only, and    *)
(* whose it is not at all.                                                  *)
LEMMA LowerFrames ==
  ASSUME Types, Frames, Succession, stack # <<>>, Styling(Top),
         \A x \in DOMAIN elems' : x # Top.id => x \in DOMAIN elems /\ elems'[x] = elems[x],
         Top.id \in DOMAIN elems' => /\ Top.id \in DOMAIN elems
                                     /\ elems'[Top.id].gen = elems[Top.id].gen,
         NEW d \in 1..Len(Pop)
  PROVE  /\ StillBuilding(d)
         /\ Styling(stack[d]) /\ stack[d].id = Top.id => ~Owns(stack[d], elems')
<1>1. d \in 1..Len(stack) /\ d < Len(stack) /\ Len(stack) \in 1..Len(stack)
      /\ Top = stack[Len(stack)]
  BY StackFacts
<1>2. Styling(stack[d]) /\ stack[d].id = Top.id => ~Owns(stack[d], elems)
  BY <1>1 DEF Succession
<1>3. Styling(stack[d]) /\ stack[d].id = Top.id => ~Owns(stack[d], elems')
  BY <1>2 DEF Owns
<1>4. ASSUME Styling(stack[d]), Owns(stack[d], elems')
      PROVE  /\ Owns(stack[d], elems)
             /\ elems'[stack[d].id].node = stack[d].node
             /\ Building(stack[d], elems'[stack[d].id].buckets)
  <2>1. stack[d].id # Top.id
    BY <1>3, <1>4
  <2>2. Owns(stack[d], elems) /\ elems'[stack[d].id] = elems[stack[d].id]
    BY <1>4, <2>1 DEF Owns
  <2> QED BY <1>1, <1>4, <2>2 DEF Frames, FrameOK
<1> QED BY <1>3, <1>4 DEF StillBuilding

(* Buckets of the same shape under the same generation suit every frame.    *)
LEMMA FramesShape ==
  ASSUME Types, Frames, Succession,
         DOMAIN elems' \subseteq DOMAIN elems,
         \A x \in DOMAIN elems' : /\ elems'[x].gen = elems[x].gen
                                  /\ elems'[x].node = elems[x].node
                                  /\ SameShape(elems'[x].buckets, elems[x].buckets),
         NEW d \in 1..Len(stack)
  PROVE  StillBuilding(d)
<1> SUFFICES ASSUME Styling(stack[d]), Owns(stack[d], elems')
             PROVE  /\ Owns(stack[d], elems)
                    /\ elems'[stack[d].id].node = stack[d].node
                    /\ Building(stack[d], elems'[stack[d].id].buckets)
  BY DEF StillBuilding
<1>1. /\ Owns(stack[d], elems) /\ elems'[stack[d].id].node = elems[stack[d].id].node
      /\ SameShape(elems'[stack[d].id].buckets, elems[stack[d].id].buckets)
  BY DEF Owns
<1>2. /\ Building(stack[d], elems[stack[d].id].buckets)
      /\ elems[stack[d].id].node = stack[d].node
  BY <1>1 DEF Frames, FrameOK
<1>3. Building(stack[d], elems'[stack[d].id].buckets)
  BY <1>1, <1>2, BuildingShape
<1> QED BY <1>1, <1>2, <1>3

LEMMA FramesKept ==
  ASSUME Types, Frames, Succession, UNCHANGED <<stack, generation>>,
         \A d \in 1..Len(stack) : StillBuilding(d)
  PROVE  Frames' /\ Succession'
<1>1. Frames'
  BY DEF Frames, FrameOK, StillBuilding
<1>2. Succession'
  BY DEF Succession, StillBuilding
<1> QED BY <1>1, <1>2

LEMMA UnfilledShown ==
  ASSUME NEW bs, NEW row, NEW s, Unfilled(bs)
  PROVE  Shown(bs, row, s)
BY DEF Unfilled, Shown

LEMMA UnfilledShape ==
  ASSUME NEW bs, NEW old, SameShape(bs, old), Unfilled(old)
  PROVE  Unfilled(bs)
BY DEF Unfilled, SameShape

LEMMA QuietShown ==
  ASSUME NEW bs, NEW row, NEW s, Quiet(bs)
  PROVE  Shown(bs, row, s)
BY DEF Quiet, Shown

LEMMA ShownNow ==
  ASSUME Inv, ~readopted, cache = theme \/ theme # NoTheme, NEW x \in DOMAIN elems
  PROVE  Shown(elems[x].buckets, value[x], state)
<1>1. CASE cache = theme
  BY <1>1 DEF Inv, Showing
<1>2. CASE cache # theme
  <2>1. Unfilled(elems[x].buckets)
    BY <1>2 DEF Inv, Caches
  <2> QED BY <2>1, UnfilledShown
<1> QED BY <1>1, <1>2

-----------------------------------------------------------------------------
(* The steps that touch no element.                                         *)
LEMMA Untouched ==
  ASSUME Inv, UNCHANGED <<elems, value, shell, seen, generation>>
  PROVE  /\ elems' \in Partial(Elements, Element) /\ generation' \in Nat
         /\ value' \in [Elements -> Row] /\ shell' \in [Elements -> Writes]
         /\ seen' \in [Elements -> Writes] /\ Elems' /\ Bare'
         /\ \A d \in 1..Len(stack) : StillBuilding(d)
<1>1. \A d \in 1..Len(stack) : StillBuilding(d)
  BY DEF Inv, Frames, FrameOK, StillBuilding
<1> QED BY <1>1 DEF Inv, Types, Elems, Bare

LEMMA MaxThemeType == MaxTheme \in Nat
BY StyleAssumption

LEMMA InstallThemeStep ==
  ASSUME Inv, InstallTheme
  PROVE  Inv'
<1> USE DEF InstallTheme, history
<1>1. Elems' /\ Bare' /\ Frames' /\ Succession'
  BY Untouched, FramesKept DEF Inv
<1>2. Types'
  <2>1. theme' \in 0..MaxTheme /\ installed' \in 0..MaxTheme
    BY MaxThemeType DEF Inv, Types
  <2> QED BY <2>1, Untouched DEF Inv, Types
<1>3. theme' # NoTheme /\ (~readopted => cache = NoTheme)
  BY DEF Inv, Types, Caches, NoTheme
<1>4. Caches' /\ Showing'
  BY <1>3 DEF Inv, Caches, Showing
<1> QED BY <1>1, <1>2, <1>4 DEF Inv

LEMMA RetireThemeStep ==
  ASSUME Inv, RetireTheme
  PROVE  Inv'
<1> USE DEF RetireTheme, history
<1>1. Elems' /\ Bare' /\ Frames' /\ Succession'
  BY Untouched, FramesKept DEF Inv
<1>2. Types'
  <2>1. theme' \in 0..MaxTheme
    BY MaxThemeType DEF NoTheme
  <2> QED BY <2>1, Untouched DEF Inv, Types
<1>3. Caches'
  BY DEF Inv, Caches
<1>4. Showing'
  <2> SUFFICES ASSUME cache = NoTheme, NEW x \in DOMAIN elems
               PROVE  Shown(elems[x].buckets, value[x], state)
    BY DEF Showing
  <2>1. Unfilled(elems[x].buckets)
    BY DEF Inv, Caches
  <2> QED BY <2>1, UnfilledShown
<1> QED BY <1>1, <1>2, <1>3, <1>4 DEF Inv

LEMMA RestoreAllStep ==
  ASSUME Inv, RestoreAll
  PROVE  Inv'
<1> USE DEF RestoreAll
<1>1. DOMAIN elems' = {} /\ elems' \in Partial(Elements, Element)
  <2>1. DOMAIN Empty = {} /\ Empty \in [DOMAIN Empty -> Element]
    BY DEF Empty
  <2> QED BY <2>1, PartialMember
<1>2. /\ value' \in [Elements -> Row]
      /\ \A e \in Elements : \A p \in Properties : value'[e][p] = Shell(seen[e][p])
  BY RestoredFacts DEF Inv
<1>3. Types'
  <2>1. cache' \in 0..MaxTheme
    BY MaxThemeType DEF NoTheme
  <2> QED BY <1>1, <1>2, <2>1 DEF Inv, Types
<1>4. Elems'
  BY <1>1 DEF Elems
<1>5. Bare'
  BY <1>2 DEF Bare
<1>6. Frames' /\ Succession'
  <2>1. \A d \in 1..Len(stack) : StillBuilding(d)
    BY <1>1 DEF StillBuilding, Owns
  <2> QED BY <2>1, FramesKept DEF Inv
<1>7. Caches' /\ Showing'
  BY <1>1 DEF Caches, Showing
<1> QED BY <1>3, <1>4, <1>5, <1>6, <1>7 DEF Inv

LEMMA ReportBeginsStep ==
  ASSUME Inv, NEW e \in Elements, ReportBegins(e)
  PROVE  Inv'
<1> DEFINE f == [kind |-> "report", at |-> "match", id |-> e, theme |-> theme, gen |-> 0,
                 node |-> 0, m |-> 1, s |-> 1, claimed |-> {}, mine |-> {}]
<1>0. theme # NoTheme /\ cache' = theme /\ stack' = Append(stack, f) /\ reports' = reports + 1
      /\ UNCHANGED <<theme, installed, clean, elems, generation, consumers, value, shell,
                     state, lost, seen, readopted>>
  BY DEF ReportBegins, history
<1>1. f \in Frame /\ f.kind = "report" /\ f.at = "match" /\ f.m = 1 /\ f.s = 1 /\ f.mine = {}
  BY <1>0 DEF Inv, Types, Themes, NoTheme, Frame, ReportFrame
<1> HIDE DEF f
<1>2. /\ stack' \in Seq(Frame) /\ Len(stack') = Len(stack) + 1
      /\ \A d \in 1..Len(stack) : stack'[d] = stack[d]
      /\ stack'[Len(stack) + 1] = f
      /\ \A d \in 1..Len(stack') : d \in 1..Len(stack) \/ d = Len(stack) + 1
  BY <1>0, <1>1, PushFacts DEF Inv, Types
<1>3. Types' /\ Elems' /\ Bare'
  BY <1>0, <1>2, Untouched DEF Inv, Types
<1>4. Frames'
  BY <1>0, <1>1, <1>2, Untouched DEF Inv, Frames, FrameOK, StillBuilding, Styling
<1>5. Succession'
  BY <1>0, <1>1, <1>2 DEF Inv, Succession, Styling
<1>6. Caches'
  BY <1>0 DEF Inv, Caches
<1>7. Showing'
  BY <1>0, ShownNow DEF Showing
<1> QED BY <1>3, <1>4, <1>5, <1>6, <1>7 DEF Inv

LEMMA ReportTop ==
  ASSUME Inv, NEW at, Waits("report", at)
  PROVE  /\ stack # <<>> /\ Top \in ReportFrame /\ Top \in Frame
         /\ Top.kind = "report" /\ Top.at = at
         /\ Top.id \in Elements /\ Top.theme \in Themes /\ Top.theme # NoTheme
         /\ Top.gen \in Nat
         /\ at # "match" => Styling(Top) /\ FrameOK(Top)
         /\ at = "match" => Top.m = 1 /\ Top.s = 1 /\ Top.mine = {}
<1>1. stack # <<>> /\ Top.kind = "report" /\ Top.at = at
  BY DEF Waits
<1>2. Top \in Frame /\ Len(stack) \in 1..Len(stack) /\ Top = stack[Len(stack)]
  BY <1>1, StackFacts DEF Inv
<1>3. Top \in ReportFrame /\ Top.id \in Elements /\ Top.theme \in Themes /\ Top.gen \in Nat
  BY <1>1, <1>2, FrameTypes
<1>4. Top.theme # NoTheme
  BY <1>3 DEF Themes, NoTheme
<1>5. at # "match" => Styling(Top) /\ FrameOK(Top)
  BY <1>1, <1>2 DEF Inv, Frames, Styling
<1>6. at = "match" => Top.m = 1 /\ Top.s = 1 /\ Top.mine = {}
  BY <1>1, <1>2 DEF Inv, Frames
<1> QED BY <1>1, <1>2, <1>3, <1>4, <1>5, <1>6

LEMMA ReportReturnsStep ==
  ASSUME Inv, ReportReturns
  PROVE  Inv'
<1> USE DEF ReportReturns, history
<1>1. stack # <<>>
  BY DEF Waits
<1>2. stack' \in Seq(Frame) /\ Frames' /\ Succession'
  <2>1. Len(Pop) = Len(stack) - 1 /\ Len(stack) \in Nat
    BY <1>1, StackFacts DEF Inv
  <2>2. \A d \in 1..Len(Pop) : StillBuilding(d)
    BY <2>1, Untouched
  <2> QED BY <1>1, <2>2, FramesPop DEF Inv
<1>3. Types' /\ Elems' /\ Bare'
  BY <1>2, Untouched DEF Inv, Types
<1>4. Caches' /\ Showing'
  BY DEF Inv, Caches, Showing
<1> QED BY <1>2, <1>3, <1>4 DEF Inv

LEMMA ReapplyBeginsStep ==
  ASSUME Inv, NEW e \in Elements, NEW p \in Properties, ReapplyBegins(e, p)
  PROVE  Inv'
<1>0. UNCHANGED <<theme, installed, clean, cache, elems, generation, consumers, value, shell,
                  state, reports, lost, seen, readopted>>
  BY DEF ReapplyBegins, history
<1>1. PICK i \in Holding(elems[e].buckets, p) :
        stack' = Append(stack, [kind |-> "reapply", at |-> "value", id |-> e,
                                property |-> p, theme |-> cache,
                                gen |-> elems[e].gen, bucket |-> i,
                                styles |-> elems[e].buckets[i].props[p].dynamic])
  BY DEF ReapplyBegins
<1> DEFINE f == [kind |-> "reapply", at |-> "value", id |-> e, property |-> p,
                 theme |-> cache, gen |-> elems[e].gen, bucket |-> i,
                 styles |-> elems[e].buckets[i].props[p].dynamic]
<1>2. f \in Frame /\ f.kind = "reapply"
  <2>1. e \in DOMAIN elems /\ cache \in Themes
    BY DEF ReapplyBegins, Inv, Types, Themes, NoTheme
  <2>2. elems[e].gen \in Nat /\ elems[e].buckets \in Seq(Bucket)
    BY <2>1, ElemFacts DEF Inv
  <2>3. i \in 1..Len(elems[e].buckets) /\ p \in DOMAIN elems[e].buckets[i].props
    BY <1>1, HoldingFacts
  <2>4. elems[e].buckets[i].props[p] \in PropertyState /\ i \in Nat \ {0}
    BY <2>2, <2>3, BucketFacts
  <2>5. elems[e].buckets[i].props[p].dynamic \in SUBSET StateNames
    BY <2>4 DEF PropertyState
  <2> QED BY <2>1, <2>2, <2>4, <2>5 DEF Frame, ReapplyFrame
<1> HIDE DEF f
<1>3. /\ stack' \in Seq(Frame) /\ Len(stack') = Len(stack) + 1
      /\ \A d \in 1..Len(stack) : stack'[d] = stack[d]
      /\ stack'[Len(stack) + 1] = f
      /\ \A d \in 1..Len(stack') : d \in 1..Len(stack) \/ d = Len(stack) + 1
  <2>1. stack' = Append(stack, f)
    BY <1>1 DEF f
  <2> QED BY <2>1, <1>2, PushFacts DEF Inv, Types
<1>4. Types' /\ Elems' /\ Bare'
  BY <1>0, <1>3, Untouched DEF Inv, Types
<1>5. Frames'
  BY <1>0, <1>2, <1>3, Untouched DEF Inv, Frames, FrameOK, StillBuilding, Styling
<1>6. Succession'
  BY <1>0, <1>2, <1>3 DEF Inv, Succession, Styling
<1>7. Caches' /\ Showing'
  BY <1>0 DEF Inv, Caches, Showing
<1> QED BY <1>4, <1>5, <1>6, <1>7 DEF Inv

-----------------------------------------------------------------------------
(* What a step of the report on top leaves: its own element's buckets are   *)
(* changed at most, and still show what they are to show.                   *)
MayShow == ~readopted /\ (cache = theme \/ theme # NoTheme)
Follows ==
  /\ elems' \in Partial(Elements, Element) /\ value' \in [Elements -> Row]
  /\ Elems' /\ Bare'
  /\ \A x \in DOMAIN elems' : x # Top.id =>
       x \in DOMAIN elems /\ elems'[x] = elems[x] /\ value'[x] = value[x]
  /\ Top.id \in DOMAIN elems' =>
       /\ cache = NoTheme => Unfilled(elems'[Top.id].buckets)
       /\ MayShow => Shown(elems'[Top.id].buckets, value'[Top.id], state)
SameOwner == Top.id \in DOMAIN elems' => /\ Top.id \in DOMAIN elems
                                         /\ elems'[Top.id].gen = elems[Top.id].gen

LEMMA ElementsKept ==
  ASSUME Inv, UNCHANGED <<elems, value, seen, generation>>
  PROVE  Follows /\ SameOwner
<1>1. /\ elems' \in Partial(Elements, Element) /\ value' \in [Elements -> Row]
      /\ Elems' /\ Bare'
  BY DEF Inv, Types, Elems, Bare
<1>2. ASSUME Top.id \in DOMAIN elems
      PROVE  /\ cache = NoTheme => Unfilled(elems[Top.id].buckets)
             /\ MayShow => Shown(elems[Top.id].buckets, value[Top.id], state)
  BY <1>2, ShownNow DEF Inv, Caches, MayShow
<1> QED BY <1>1, <1>2 DEF Follows, SameOwner

LEMMA BucketsFollow ==
  ASSUME Inv, Top.id \in DOMAIN elems, NEW bs, elems' = Changed(Top.id, bs),
         NEW row \in Row, value' = [value EXCEPT ![Top.id] = row],
         UNCHANGED <<seen, generation>>,
         Whole(bs, elems[Top.id].gen, row, seen[Top.id]),
         Quiet(bs) \/ Wired(bs),
         cache = NoTheme => Unfilled(bs),
         MayShow => Shown(bs, row, state)
  PROVE  /\ Follows /\ SameOwner /\ Top.id \in DOMAIN elems'
         /\ elems'[Top.id].gen = elems[Top.id].gen /\ elems'[Top.id].node = elems[Top.id].node
         /\ elems'[Top.id].buckets = bs
<1> DEFINE e == Top.id
           g == elems[e].gen
           n == elems[e].node
<1>1. e \in DOMAIN elems /\ e \in Elements /\ g \in 1..generation /\ n \in Nat
      /\ generation \in Nat
  BY ElemFacts DEF Inv, Types, Elems
<1>2. elems' = With(elems, e, Styled(g, n, bs))
  BY BucketsReplaced DEF Inv
<1>3. /\ generation' \in Nat /\ generation' >= generation /\ g \in 1..generation'
      /\ seen' \in [Elements -> Writes] /\ seen'[e] = seen[e]
      /\ \A x \in Elements : x # e => seen'[x] = seen[x]
  BY <1>1 DEF Inv, Types
<1>4. /\ Types /\ Elems /\ Bare /\ Whole(bs, g, row, seen'[e])
      /\ value' = [value EXCEPT ![e] = row]
      /\ e \in Elements /\ n \in Nat /\ (Quiet(bs) \/ Wired(bs))
  BY <1>1, <1>3 DEF Inv
<1> HIDE DEF e, g, n
<1>5. /\ elems' \in Partial(Elements, Element)
      /\ value' \in [Elements -> Row]
      /\ Elems' /\ Bare'
      /\ DOMAIN elems' = DOMAIN elems \cup {e}
      /\ elems'[e].gen = g /\ elems'[e].node = n /\ elems'[e].buckets = bs
      /\ value'[e] = row
      /\ \A x \in DOMAIN elems : x # e => elems'[x] = elems[x] /\ value'[x] = value[x]
  <2>1. /\ value' \in [Elements -> Row] /\ value'[e] = row
        /\ \A x \in Elements : x # e => value'[x] = value[x]
    BY <1>4 DEF Types
  <2>2. Whole(bs, g, value'[e], seen'[e])
    BY <1>4, <2>1
  <2>3. elems' \in Partial(Elements, Element) /\ Elems' /\ Bare' /\ elems'[e].gen = g
    BY ONLY <1>2, <1>3, <1>4, <2>1, <2>2, ElementRebuilt
  <2>4. /\ DOMAIN elems' = DOMAIN elems \cup {e}
        /\ elems'[e].node = n /\ elems'[e].buckets = bs
        /\ \A x \in DOMAIN elems : x # e => elems'[x] = elems[x]
    BY <1>2 DEF With, Styled
  <2>5. DOMAIN elems \subseteq Elements
    BY PartialFacts DEF Inv, Types
  <2> QED BY <2>1, <2>3, <2>4, <2>5
<1>6. \A x \in DOMAIN elems' : x # e =>
        x \in DOMAIN elems /\ elems'[x] = elems[x] /\ value'[x] = value[x]
  BY <1>5
<1> QED BY <1>1, <1>5, <1>6 DEF Follows, SameOwner, e, g, n

(* Going on, the report may adopt its theme again.                          *)
LEMMA Adopted ==
  ASSUME Inv, UNCHANGED <<theme, clean, state>>, Follows,
         NEW next, next.theme \in Themes, GoesOn(next)
  PROVE  cache' \in 0..MaxTheme /\ readopted' \in BOOLEAN /\ Caches' /\ Showing'
<1>1. /\ cache' = Adopting(next, cache)
      /\ readopted' = (readopted \/ cache' \notin {cache, theme})
  BY DEF GoesOn
<1>2. cache' \in {cache, next.theme} /\ next.theme # NoTheme /\ next.theme \in 0..MaxTheme
  BY <1>1 DEF Adopting, Themes, NoTheme
<1>3. cache' \in 0..MaxTheme /\ readopted' \in BOOLEAN
  BY <1>1, <1>2 DEF Inv, Types
<1>4. ~readopted' => ~readopted /\ cache' \in {cache, theme}
  BY <1>1 DEF Inv, Types
<1>5. Caches'
  <2>1. ~readopted' /\ cache' # NoTheme => cache' = theme \/ (theme = NoTheme /\ ~clean)
    BY <1>4 DEF Inv, Caches
  <2>2. ASSUME cache' = NoTheme, NEW x \in DOMAIN elems' PROVE Unfilled(elems'[x].buckets)
    <3>1. cache = NoTheme
      BY <1>2, <2>2
    <3>2. CASE x = Top.id
      BY <3>1, <3>2 DEF Follows
    <3>3. CASE x # Top.id
      BY <3>1, <3>3 DEF Follows, Inv, Caches
    <3> QED BY <3>2, <3>3
  <2> QED BY <2>1, <2>2 DEF Caches
<1>6. Showing'
  <2> SUFFICES ASSUME ~readopted', cache' = theme, NEW x \in DOMAIN elems'
               PROVE  Shown(elems'[x].buckets, value'[x], state)
    BY DEF Showing
  <2>1. ~readopted /\ (cache = theme \/ theme # NoTheme)
    BY <1>2, <1>4
  <2>2. CASE x = Top.id
    BY <2>1, <2>2 DEF Follows, MayShow
  <2>3. CASE x # Top.id
    <3>1. x \in DOMAIN elems /\ elems'[x] = elems[x] /\ value'[x] = value[x]
      BY <2>3 DEF Follows
    <3> QED BY <2>1, <3>1, ShownNow
  <2> QED BY <2>2, <2>3
<1> QED BY <1>3, <1>5, <1>6

(* Matches are found: the element starts with a bucket for the first match. *)
LEMMA MatchesFoundStep ==
  ASSUME Inv, MatchesFound
  PROVE  Inv'
<1> DEFINE e == Top.id
<1>0. /\ UNCHANGED <<theme, installed, clean, consumers, shell, state, reports, lost, seen>>
      /\ Waits("report", "match")
  BY DEF MatchesFound
<1>1. /\ stack # <<>> /\ Top \in ReportFrame /\ Top \in Frame /\ e \in Elements
      /\ Top.kind = "report" /\ Top.theme \in Themes /\ Top.theme # NoTheme
      /\ Top.m = 1 /\ Top.s = 1 /\ Top.mine = {}
  BY <1>0, ReportTop
<1>2. Len(Pop) = Len(stack) - 1 /\ Len(stack) \in Nat
  BY <1>1, StackFacts DEF Inv
<1>3. CASE Matches(Top) = <<>>
  <2>1. stack' = Pop /\ UNCHANGED <<elems, generation, value, cache, readopted>>
    BY <1>3 DEF MatchesFound
  <2>3. stack' \in Seq(Frame) /\ Frames' /\ Succession'
    <3>1. \A d \in 1..Len(Pop) : StillBuilding(d)
      BY <1>0, <1>2, <2>1, Untouched
    <3> QED BY <1>1, <2>1, <3>1, FramesPop DEF Inv
  <2>4. Types' /\ Elems' /\ Bare'
    BY <1>0, <2>1, <2>3, Untouched DEF Inv, Types
  <2>5. Caches' /\ Showing'
    BY <1>0, <2>1 DEF Inv, Caches, Showing
  <2> QED BY <2>3, <2>4, <2>5 DEF Inv
<1>4. CASE Matches(Top) # <<>>
  <2> DEFINE g == generation + 1
             n == IF e \in DOMAIN elems THEN elems[e].node ELSE generation + 1
             group == Matches(Top)[1].group
             bs == WithBucket(<<>>, group)
             row == RestoredRow(e)
             start == [Top EXCEPT !.gen = g, !.node = n]
             next == Entering(start, 1)
  <2>1. /\ generation' = g
        /\ value' = [value EXCEPT ![e] = row]
        /\ elems' = With(elems, e, Styled(g, n, bs))
        /\ GoesOn(next)
    BY <1>4 DEF MatchesFound, Styled
  <2>2. group \in STRING /\ 1 \in 1..Len(Matches(Top))
        /\ (Matches(Top)[1].styles # <<>> => 1 \in 1..Len(Matches(Top)[1].styles))
    <3>1. Matches(Top) \in Seq(MatchRecord)
      BY <1>1, RulesFacts DEF Matches
    <3>2. 1 \in 1..Len(Matches(Top))
      BY <1>4, <3>1
    <3> QED BY <1>1, <3>2, RulesFacts DEF Matches
  <2>3. g \in Nat /\ generation \in Nat /\ g >= generation /\ g \in 1..g /\ g > generation
        /\ n \in Nat
    BY ElemFacts DEF Inv, Types
  <2>4. row \in Row /\ (\A p \in Properties : row[p] = Shell(seen[e][p]))
    BY <1>1, RestoredFacts DEF Inv
  <2>8. /\ next \in Frame /\ Styling(next) /\ next.id = e /\ next.gen = g /\ next.node = n
        /\ next.m = 1 /\ next.s = 1 /\ next.theme = Top.theme
        /\ next.at = IF Matches(Top)[1].styles = <<>> THEN "capture" ELSE "property"
        /\ Matches(next) = Matches(Top)
    <3>1. /\ start \in ReportFrame /\ start.id = Top.id /\ start.theme = Top.theme
          /\ start.kind = "report" /\ start.gen = g /\ start.node = n
          /\ start.claimed \cup start.mine \in SUBSET Properties
      BY <1>1, <2>3 DEF ReportFrame
    <3> HIDE DEF start, g, n
    <3>2. Matches(start) = Matches(Top)
      BY <3>1 DEF Matches
    <3>3. next = [start EXCEPT !.m = 1, !.s = 1, !.claimed = start.claimed \cup start.mine,
                    !.mine = {},
                    !.at = IF Matches(Top)[1].styles = <<>> THEN "capture" ELSE "property"]
      BY <3>1, <3>2 DEF Entering, ReportFrame
    <3> HIDE DEF next
    <3>4. /\ next \in ReportFrame /\ next.id = Top.id /\ next.theme = Top.theme
          /\ next.kind = "report" /\ next.gen = g /\ next.node = n /\ next.m = 1 /\ next.s = 1
          /\ next.at = IF Matches(Top)[1].styles = <<>> THEN "capture" ELSE "property"
      BY <3>1, <3>3 DEF ReportFrame
    <3>5. next.at # "match"
      BY <3>4
    <3> QED BY <3>4, <3>5 DEF Frame, Styling, Matches, e
  <2> HIDE DEF e, g, n, group, row, next
  <2>5. /\ Whole(bs, g, row, seen[e])
        /\ \E i \in 1..Len(bs) : bs[i].group = group
        /\ \A i \in 1..Len(bs) : DOMAIN bs[i].props = {} /\ bs[i].watch = 0
    <3>1. Whole(<<>>, g, row, seen[e])
      BY <2>4, NoBuckets
    <3>2. Len(<<>>) = 0
      OBVIOUS
    <3>3. \A i \in 1..Len(bs) : \/ i \in 1..Len(<<>>) /\ bs[i] = <<>>[i]
                                \/ DOMAIN bs[i].props = {} /\ bs[i].watch = 0
      BY <2>2, <3>1, WithBucketFacts
    <3>4. /\ Whole(bs, g, row, seen[e])
          /\ \E i \in 1..Len(bs) : bs[i].group = group
      BY <2>2, <3>1, WithBucketFacts
    <3> QED BY <3>2, <3>3, <3>4
  <2> HIDE DEF bs
  <2>6. Quiet(bs) /\ Unfilled(bs)
    BY <2>5 DEF Quiet, Unfilled
  <2>7. /\ elems' \in Partial(Elements, Element)
        /\ value' \in [Elements -> Row]
        /\ Elems' /\ Bare'
        /\ DOMAIN elems' = DOMAIN elems \cup {e}
        /\ elems'[e].gen = g /\ elems'[e].node = n /\ elems'[e].buckets = bs
        /\ value'[e] = row
        /\ \A x \in DOMAIN elems : x # e => elems'[x] = elems[x] /\ value'[x] = value[x]
    <3>1. seen' \in [Elements -> Writes] /\ seen'[e] = seen[e]
          /\ \A x \in Elements : x # e => seen'[x] = seen[x]
      BY <1>0 DEF Inv, Types
    <3>2. e \in Elements /\ Whole(bs, g, row, seen'[e])
      BY <1>1, <2>5, <3>1 DEF e
    <3>3. Types /\ Elems /\ Bare
      BY DEF Inv
    <3> QED BY <2>1, <2>3, <2>4, <2>6, <3>1, <3>2, <3>3, ElementChanged
  <2>9. Placed(next)
    BY <2>2, <2>8 DEF Placed, Match
  <2>10. Building(next, bs)
    <3>1. next.at # "value" /\ Group(next) = group
      BY <2>8 DEF Group, group
    <3> QED BY <2>5, <2>6, <3>1 DEF Building, Claims
  <2>11. ASSUME NEW d \in 1..Len(Pop)
         PROVE  StillBuilding(d)
                /\ (Styling(stack[d]) /\ stack[d].id = next.id => ~Owns(stack[d], elems'))
    <3>1. d \in 1..Len(stack)
      BY <1>2
    <3>2. Styling(stack[d]) => FrameOK(stack[d]) /\ stack[d].gen # g
      BY <3>1, <2>3 DEF Inv, Frames, FrameOK
    <3>3. Styling(stack[d]) /\ stack[d].id = e => ~Owns(stack[d], elems')
      BY <3>2, <2>7 DEF Owns
    <3>4. ASSUME Styling(stack[d]), Owns(stack[d], elems')
          PROVE  /\ Owns(stack[d], elems)
                 /\ elems'[stack[d].id].node = stack[d].node
                 /\ Building(stack[d], elems'[stack[d].id].buckets)
      <4>1. stack[d].id # e
        BY <3>3, <3>4
      <4>2. stack[d].id \in DOMAIN elems /\ elems'[stack[d].id] = elems[stack[d].id]
        BY <3>4, <4>1, <2>7 DEF Owns
      <4> QED BY <3>2, <3>4, <4>2 DEF FrameOK, Owns
    <3> QED BY <3>3, <3>4, <2>8 DEF StillBuilding
  <2>12. stack' \in Seq(Frame) /\ Frames' /\ Succession'
    <3>1. stack' = Append(Pop, next)
      BY <2>1 DEF GoesOn
    <3>2. generation' \in Nat /\ generation' >= generation /\ next.gen \in 1..generation'
      BY <2>1, <2>3, <2>8
    <3>3. elems'[next.id].node = next.node /\ Building(next, elems'[next.id].buckets)
      BY <2>7, <2>8, <2>10
    <3>4. Types /\ Frames /\ Succession
      BY DEF Inv
    <3> QED BY <1>1, <2>8, <2>9, <2>11, <3>1, <3>2, <3>3, <3>4, FramesReplaced
  <2>13. Follows
    <3>1. MayShow => Shown(bs, row, state)
      BY <2>6, UnfilledShown
    <3>2. \A x \in DOMAIN elems' : x # e =>
            x \in DOMAIN elems /\ elems'[x] = elems[x] /\ value'[x] = value[x]
      BY <2>7
    <3>3. elems' \in Partial(Elements, Element) /\ value' \in [Elements -> Row]
          /\ Elems' /\ Bare'
      BY <2>7
    <3> QED BY <2>6, <2>7, <3>1, <3>2, <3>3 DEF Follows, e
  <2>14. cache' \in 0..MaxTheme /\ readopted' \in BOOLEAN /\ Caches' /\ Showing'
    <3>1. next.theme \in Themes
      BY <1>1, <2>8
    <3> QED BY <1>0, <2>1, <2>13, <3>1, Adopted
  <2>15. Types'
    BY <1>0, <2>1, <2>3, <2>7, <2>12, <2>14 DEF Inv, Types
  <2> QED BY <2>7, <2>12, <2>14, <2>15 DEF Inv
<1> QED BY <1>3, <1>4

-----------------------------------------------------------------------------
(* The styling of an element.                                               *)

(* What a report that owns its element may leave as its buckets.            *)
Ready(f, bs) ==
  /\ Whole(bs, f.gen, value[f.id], seen[f.id])
  /\ Quiet(bs) /\ Claims(f, bs)
  /\ \E i \in 1..Len(bs) : bs[i].group = Group(f)

(* What any report may leave, the overtaken ones that go on included.       *)
Workable(f, bs) ==
  /\ Whole(bs, elems[f.id].gen, value[f.id], seen[f.id])
  /\ Quiet(bs) \/ Wired(bs)
  /\ cache = NoTheme => Unfilled(bs)
  /\ MayShow => Shown(bs, value[f.id], state)
  /\ Owner(f) => /\ Quiet(bs) /\ Claims(f, bs)
                 /\ \E i \in 1..Len(bs) : bs[i].group = Group(f)
Prepared(f, all) ==
  IF f.id \in DOMAIN elems THEN \E bs : Workable(f, bs) /\ all = Changed(f.id, bs)
  ELSE all = elems

(* f is the report on top, perhaps with one more property of its own.       *)
Progress(f) ==
  /\ f \in ReportFrame /\ f.id = Top.id /\ f.theme = Top.theme
  /\ f.at = Top.at /\ f.gen = Top.gen /\ f.node = Top.node
  /\ f.m = Top.m /\ f.s = Top.s /\ f.claimed = Top.claimed /\ Top.mine \subseteq f.mine

Lost == (SUBSET Watches) \X (SUBSET (Elements \X Nat))

LEMMA ReadyWorkable ==
  ASSUME NEW f, NEW bs, Ready(f, bs), Owner(f), cache # NoTheme
  PROVE  Workable(f, bs)
<1>1. elems[f.id].gen = f.gen
  BY DEF Owner
<1>2. Shown(bs, value[f.id], state)
  BY QuietShown DEF Ready
<1> QED BY <1>1, <1>2 DEF Ready, Workable

LEMMA SameElements ==
  ASSUME Types, NEW e \in DOMAIN elems
  PROVE  Changed(e, elems[e].buckets) = elems
<1>1. elems[e] = Styled(elems[e].gen, elems[e].node, elems[e].buckets)
  BY ElemFacts DEF Styled
<1>2. Changed(e, elems[e].buckets) = With(elems, e, elems[e])
  BY <1>1, BucketsReplaced
<1>3. elems = [x \in DOMAIN elems |-> elems[x]] /\ DOMAIN elems \cup {e} = DOMAIN elems
  BY ElemFacts
<1> QED BY <1>2, <1>3 DEF With

(* The report on top may go on with its element as it is.                   *)
LEMMA PreparedTop ==
  ASSUME Inv, stack # <<>>, Styling(Top), FrameOK(Top)
  PROVE  Prepared(Top, elems)
<1> SUFFICES ASSUME Top.id \in DOMAIN elems
             PROVE  Workable(Top, elems[Top.id].buckets)
  BY SameElements DEF Prepared, Inv
<1>1. /\ Whole(elems[Top.id].buckets, elems[Top.id].gen, value[Top.id], seen[Top.id])
      /\ Quiet(elems[Top.id].buckets) \/ Wired(elems[Top.id].buckets)
  BY DEF Inv, Elems
<1>2. cache = NoTheme => Unfilled(elems[Top.id].buckets)
  BY DEF Inv, Caches
<1>3. MayShow => Shown(elems[Top.id].buckets, value[Top.id], state)
  BY ShownNow DEF MayShow
<1>4. Owner(Top) => Building(Top, elems[Top.id].buckets)
  BY DEF Owner, FrameOK, Owns
<1> QED BY <1>1, <1>2, <1>3, <1>4 DEF Workable, Building

LEMMA CurrentFacts ==
  ASSUME Inv, Waits("report", "property") \/ Waits("report", "value"), Current(Top)
  PROVE  /\ Top.id \in DOMAIN elems /\ elems[Top.id].gen = Top.gen
         /\ Owner(Top) /\ cache # NoTheme
         /\ Building(Top, elems[Top.id].buckets)
         /\ Ready(Top, elems[Top.id].buckets)
<1>1. /\ Top \in ReportFrame /\ FrameOK(Top) /\ Top.theme # NoTheme
  BY ReportTop
<1>2. /\ Top.id \in DOMAIN elems /\ elems[Top.id].gen = Top.gen /\ cache = Top.theme
  BY DEF Current
<1>3. Building(Top, elems[Top.id].buckets)
  BY <1>1, <1>2 DEF FrameOK, Owns
<1>4. Whole(elems[Top.id].buckets, Top.gen, value[Top.id], seen[Top.id])
  BY <1>2 DEF Inv, Elems
<1>5. Ready(Top, elems[Top.id].buckets)
  BY <1>3, <1>4 DEF Building, Ready
<1> QED BY <1>1, <1>2, <1>3, <1>5 DEF Owner

LEMMA StylingTop ==
  ASSUME Inv, Waits("report", "property") \/ Waits("report", "value")
                \/ Waits("report", "capture")
  PROVE  /\ stack # <<>> /\ Styling(Top) /\ FrameOK(Top) /\ Top \in ReportFrame
         /\ Top.theme \in Themes /\ Top.gen \in Nat /\ Progress(Top)
BY ReportTop DEF Progress

(* The report goes on to its next value.                                    *)
LEMMA ReportGoesOn ==
  ASSUME Inv, stack # <<>>, Styling(Top), FrameOK(Top),
         UNCHANGED <<theme, installed, clean, generation, shell, state, reports, seen>>,
         consumers' \subseteq Elements \X Properties, lost' \in Lost, Follows, SameOwner,
         NEW next \in ReportFrame, next.at # "match", next.id = Top.id, next.gen = Top.gen,
         Placed(next), GoesOn(next),
         Owns(next, elems') => /\ elems'[next.id].node = next.node
                               /\ Building(next, elems'[next.id].buckets)
  PROVE  Inv'
<1>1. next.theme \in Themes /\ next \in Frame /\ Styling(next) /\ stack' = Append(Pop, next)
  BY DEF ReportFrame, Frame, Styling, GoesOn
<1>2. cache' \in 0..MaxTheme /\ readopted' \in BOOLEAN /\ Caches' /\ Showing'
  BY <1>1, Adopted
<1>3. ASSUME NEW d \in 1..Len(Pop)
      PROVE  /\ StillBuilding(d)
             /\ Styling(stack[d]) /\ stack[d].id = Top.id => ~Owns(stack[d], elems')
  BY <1>3, LowerFrames DEF Inv, Follows, SameOwner
<1>4. generation' \in Nat /\ generation' >= generation /\ next.gen \in 1..generation'
  BY DEF Inv, Types, FrameOK
<1>5. stack' \in Seq(Frame) /\ Frames' /\ Succession'
  <2>1. Types /\ Frames /\ Succession
    BY DEF Inv
  <2>2. /\ \A d \in 1..Len(Pop) : StillBuilding(d)
        /\ \A d \in 1..Len(Pop) : Styling(stack[d]) /\ stack[d].id = next.id
                                    => ~Owns(stack[d], elems')
    BY <1>3
  <2> QED BY <1>1, <1>4, <2>1, <2>2, FramesReplaced
<1>6. Types'
  BY <1>2, <1>5 DEF Inv, Types, Follows, Lost
<1> QED BY <1>2, <1>5, <1>6 DEF Inv, Follows

(* The report ends.                                                         *)
LEMMA ReportEnds ==
  ASSUME Inv, stack # <<>>, Styling(Top),
         UNCHANGED <<theme, installed, clean, cache, generation, shell, state, reports,
                     seen, readopted>>,
         consumers' \subseteq Elements \X Properties, lost' \in Lost, Follows, SameOwner,
         stack' = Pop
  PROVE  Inv'
<1>1. ASSUME NEW d \in 1..Len(Pop) PROVE StillBuilding(d)
  BY <1>1, LowerFrames DEF Inv, Follows, SameOwner
<1>2. stack' \in Seq(Frame) /\ Frames' /\ Succession'
  BY <1>1, FramesPop DEF Inv
<1>3. Types'
  BY <1>2 DEF Inv, Types, Follows, Lost
<1>4. Caches'
  BY DEF Inv, Caches, Follows
<1>5. Showing'
  <2> SUFFICES ASSUME ~readopted, cache = theme, NEW x \in DOMAIN elems'
               PROVE  Shown(elems'[x].buckets, value'[x], state)
    BY DEF Showing
  <2>1. CASE x = Top.id
    BY <2>1 DEF Follows, MayShow
  <2>2. CASE x # Top.id
    <3>1. x \in DOMAIN elems /\ elems'[x] = elems[x] /\ value'[x] = value[x]
      BY <2>2 DEF Follows
    <3> QED BY <3>1, ShownNow
  <2> QED BY <2>1, <2>2
<1> QED BY <1>2, <1>3, <1>4, <1>5 DEF Inv, Follows

(* The element of the report gets the buckets it was prepared.              *)
LEMMA PreparedFollows ==
  ASSUME Inv, stack # <<>>, Styling(Top), Top.id \in Elements,
         NEW f, f.id = Top.id, NEW all, Prepared(f, all), elems' = all,
         UNCHANGED <<value, seen, generation>>
  PROVE  /\ Follows /\ SameOwner
         /\ Top.id \in DOMAIN elems' =>
              /\ Top.id \in DOMAIN elems
              /\ elems'[Top.id].gen = elems[Top.id].gen
              /\ elems'[Top.id].node = elems[Top.id].node
              /\ Workable(f, elems'[Top.id].buckets)
<1>1. CASE Top.id \notin DOMAIN elems
  <2>1. elems' = elems
    BY <1>1 DEF Prepared
  <2>2. Follows /\ SameOwner
    BY <2>1, ElementsKept
  <2> QED BY <1>1, <2>1, <2>2
<1>2. CASE Top.id \in DOMAIN elems
  <2>1. PICK bs : Workable(f, bs) /\ all = Changed(Top.id, bs)
    BY <1>2 DEF Prepared
  <2>2. value[Top.id] \in Row /\ value' = [value EXCEPT ![Top.id] = value[Top.id]]
    BY RowFacts DEF Inv, Types
  <2>3. /\ Whole(bs, elems[Top.id].gen, value[Top.id], seen[Top.id])
        /\ Quiet(bs) \/ Wired(bs)
        /\ cache = NoTheme => Unfilled(bs)
        /\ MayShow => Shown(bs, value[Top.id], state)
    BY <2>1 DEF Workable
  <2>4. /\ Follows /\ SameOwner /\ Top.id \in DOMAIN elems'
        /\ elems'[Top.id].gen = elems[Top.id].gen /\ elems'[Top.id].node = elems[Top.id].node
        /\ elems'[Top.id].buckets = bs
    BY <1>2, <2>1, <2>2, <2>3, BucketsFollow
  <2> QED BY <1>2, <2>1, <2>4
<1> QED BY <1>1, <1>2

LEMMA PublishesType ==
  ASSUME Types, NEW f \in ReportFrame, NEW all, Publishes(f, all)
  PROVE  consumers' \subseteq Elements \X Properties
<1>1. consumers \subseteq Elements \X Properties
  BY DEF Types
<1>2. f.id \in Elements /\ f.mine \subseteq Properties
  BY DEF ReportFrame
<1> QED BY <1>1, <1>2 DEF Publishes

LEMMA LosesType ==
  ASSUME Types, NEW e \in Elements, NEW kept \in Seq(Bucket), LosesWatches(e, kept)
  PROVE  lost' \in Lost
<1>1. lostWatches \in SUBSET Watches /\ lostStates \in SUBSET (Elements \X Nat)
  BY DEF Types, lost
<1>2. ASSUME NEW i \in 1..Len(kept), NEW p \in DOMAIN kept[i].props
      PROVE  kept[i].props[p].watch \in Nat
  BY BucketFacts DEF PropertyState
<1>3. lostWatches' \in SUBSET Watches
  BY <1>1, <1>2 DEF LosesWatches, Watches
<1>4. lostStates' \in SUBSET (Elements \X Nat)
  BY <1>1, BucketFacts DEF LosesWatches
<1> QED BY <1>3, <1>4 DEF lost, Lost

(* Buckets prepared, then replaced.                                         *)
LEMMA ReplacedAgain ==
  ASSUME Types, NEW e \in DOMAIN elems, NEW bs, NEW all, all = Changed(e, bs)
  PROVE  /\ all[e].buckets = bs
         /\ Without(all, e) = Without(elems, e)
         /\ \A cs : [all EXCEPT ![e].buckets = cs] = Changed(e, cs)
<1> DEFINE g == elems[e].gen
           n == elems[e].node
<1>1. \A cs : Changed(e, cs) = With(elems, e, Styled(g, n, cs))
  BY BucketsReplaced
<1>2. DOMAIN elems \cup {e} = DOMAIN elems
  OBVIOUS
<1> HIDE DEF g, n
<1>3. all = [x \in DOMAIN elems |-> IF x = e THEN Styled(g, n, bs) ELSE elems[x]]
  BY <1>1, <1>2 DEF With
<1>4. all[e] = Styled(g, n, bs) /\ all[e].buckets = bs /\ DOMAIN all = DOMAIN elems
      /\ \A x \in DOMAIN elems : x # e => all[x] = elems[x]
  BY <1>3 DEF Styled
<1>5. Without(all, e) = Without(elems, e)
  BY <1>4 DEF Without
<1>6. ASSUME NEW cs PROVE [all EXCEPT ![e].buckets = cs] = Changed(e, cs)
  <2>1. [all[e] EXCEPT !.buckets = cs] = Styled(g, n, cs)
    BY <1>4 DEF Styled
  <2>2. [all EXCEPT ![e].buckets = cs] = [all EXCEPT ![e] = [all[e] EXCEPT !.buckets = cs]]
    OBVIOUS
  <2>3. Changed(e, cs) = [x \in DOMAIN elems |-> IF x = e THEN Styled(g, n, cs) ELSE elems[x]]
    BY <1>1, <1>2 DEF With
  <2> QED BY <2>1, <2>2, <2>3, <1>3, <1>4
<1> QED BY <1>4, <1>5, <1>6

LEMMA UnfilledKept ==
  ASSUME NEW bs \in Seq(Bucket), Unfilled(bs)
  PROVE  Kept(bs) = <<>>
<1> DEFINE kept == Kept(bs)
<1>1. kept \in Seq(Bucket) /\ \E f : Picks(kept, bs, f)
  BY KeptFacts
<1> HIDE DEF kept
<1>2. PICK f : Picks(kept, bs, f)
  BY <1>1
<1>3. ~\E k \in 1..Len(kept) : TRUE
  BY <1>2 DEF Picks, Unfilled
<1>4. kept = <<>>
  BY <1>1, <1>3
<1> QED BY <1>4 DEF kept

(* The end of the report: what is kept of the buckets is applied, watched   *)
(* and shown.                                                               *)
LEMMA FinishedStep ==
  ASSUME Inv, stack # <<>>, Styling(Top), Top \in ReportFrame,
         UNCHANGED <<theme, installed, clean, cache, generation, shell, state, reports,
                     seen, readopted>>,
         consumers' \subseteq Elements \X Properties,
         NEW f, f.id = Top.id, Top.id \in DOMAIN elems,
         NEW buckets, Workable(f, buckets), NEW all, all = Changed(Top.id, buckets),
         Finished(f, buckets, all), stack' = Pop
  PROVE  Inv'
<1> DEFINE e == Top.id
           g == elems[e].gen
           kept == Kept(buckets)
           done == Applied(kept, 1..Len(kept), value[e], state)
           bs == AllWatched(done.buckets)
<1>1. /\ e \in Elements /\ f.id = e /\ e \in DOMAIN elems
      /\ value[e] \in Row /\ Types /\ Elems /\ Bare
  BY RowFacts DEF ReportFrame, Inv
<1>2. /\ Whole(kept, g, value[e], seen[e]) /\ buckets \in Seq(Bucket)
      /\ cache = NoTheme => Unfilled(buckets)
  BY <1>1, KeptWhole DEF Workable, Whole
<1>3. kept \in Seq(Bucket) /\ Single(kept) /\ Remembers(kept)
  BY <1>2 DEF Whole
<1>4. cache = NoTheme => kept = <<>>
  BY <1>2, UnfilledKept
<1>5. LosesWatches(e, kept)
  BY <1>1 DEF Finished
<1>6. lost' \in Lost
  <2> HIDE DEF e, kept
  <2> QED BY <1>1, <1>3, <1>5, LosesType
<1>7. Follows /\ SameOwner => Inv'
  BY <1>6, ReportEnds
<1>8. CASE kept = <<>>
  <2>1. elems' = Without(all, e) /\ value' = value
    BY <1>1, <1>8 DEF Finished
  <2>2. elems' = Without(elems, e)
    BY <1>1, <2>1, ReplacedAgain
  <2>3. \A p \in Properties : value[e][p] = Shell(seen[e][p])
    <3>1. Len(<<>>) = 0
      OBVIOUS
    <3> QED BY <1>2, <1>8, <3>1 DEF Whole, Keeps, Holding
  <2>4. value' = [value EXCEPT ![e] = value[e]]
    BY <2>1 DEF Inv, Types
  <2>5. /\ elems' \in Partial(Elements, Element)
        /\ value' \in [Elements -> Row]
        /\ Elems' /\ Bare'
        /\ DOMAIN elems' = DOMAIN elems \ {e}
        /\ \A x \in DOMAIN elems' : elems'[x] = elems[x] /\ value'[x] = value[x]
    <3> HIDE DEF e, kept
    <3>1. generation' = generation /\ seen' = seen
      OBVIOUS
    <3> QED BY ONLY <1>1, <2>2, <2>3, <2>4, <3>1, ElementGone
  <2>6. Follows /\ SameOwner
    BY <2>5 DEF Follows, SameOwner
  <2> QED BY <2>6, <1>7
<1>9. CASE kept # <<>>
  <2>1. /\ elems' = [all EXCEPT ![e].buckets = bs]
        /\ value' = [value EXCEPT ![e] = done.row]
    BY <1>1, <1>9 DEF Finished
  <2>2. elems' = Changed(e, bs)
    BY <1>1, <2>1, ReplacedAgain
  <2> HIDE DEF kept
  <2>3. Whole(done.buckets, g, done.row, seen[e])
    BY <1>1, <1>2, AppliedWhole
  <2>4. AppliedTo(done, kept, 1..Len(kept), value[e], state)
    BY <1>1, <1>3, AppliedFacts
  <2>5. \A i \in 1..Len(kept) : \A p \in DOMAIN kept[i].props :
          Shows(done.buckets, i, p, done.row, state)
    BY <1>1, <1>2, AppliedShows
  <2> HIDE DEF done
  <2>6. done.row \in Row /\ SameShape(done.buckets, kept)
    BY <2>4 DEF AppliedTo
  <2>7. /\ Whole(bs, g, done.row, seen[e]) /\ Wired(bs) /\ Len(bs) = Len(done.buckets)
        /\ \A i \in 1..Len(done.buckets) :
             /\ bs[i].group = done.buckets[i].group
             /\ DOMAIN bs[i].props = DOMAIN done.buckets[i].props
             /\ \A p \in DOMAIN done.buckets[i].props :
                  /\ bs[i].props[p].applied = done.buckets[i].props[p].applied
                  /\ bs[i].props[p].values = done.buckets[i].props[p].values
    BY <2>3, AllWatchedFacts
  <2> HIDE DEF bs
  <2>8. Shown(bs, done.row, state)
    <3> SUFFICES ASSUME NEW i \in 1..Len(bs), NEW p \in DOMAIN bs[i].props
                 PROVE  Shows(bs, i, p, done.row, state)
      BY DEF Shown
    <3>1. i \in 1..Len(kept) /\ p \in DOMAIN kept[i].props
          /\ i \in 1..Len(done.buckets) /\ p \in DOMAIN done.buckets[i].props
      BY <2>6, <2>7 DEF SameShape
    <3>2. Pick(bs[i].props[p], StateOf(bs[i].group, state))
            = Pick(done.buckets[i].props[p], StateOf(done.buckets[i].group, state))
      BY <3>1, <2>7 DEF Pick
    <3> QED BY <2>5, <2>7, <3>1, <3>2 DEF Shows
  <2>9. cache # NoTheme
    BY <1>4, <1>9
  <2>10. Follows /\ SameOwner
    BY <1>1, <2>1, <2>2, <2>6, <2>7, <2>8, <2>9, BucketsFollow DEF e, g
  <2> QED BY <2>10, <1>7
<1> QED BY <1>8, <1>9

(* A bucket more, without properties.                                       *)
LEMMA BucketMore ==
  ASSUME NEW bs \in Seq(Bucket), NEW new, NEW row, NEW s,
         \A i \in 1..Len(new) : \/ i \in 1..Len(bs) /\ new[i] = bs[i]
                                \/ DOMAIN new[i].props = {} /\ new[i].watch = 0
  PROVE  /\ Quiet(bs) => Quiet(new)
         /\ Wired(bs) => Wired(new)
         /\ Unfilled(bs) => Unfilled(new)
         /\ Shown(bs, row, s) => Shown(new, row, s)
<1>1. Quiet(bs) => Quiet(new)
  BY DEF Quiet
<1>2. Wired(bs) => Wired(new)
  BY DEF Wired
<1>3. Unfilled(bs) => Unfilled(new)
  BY DEF Unfilled
<1>4. Shown(bs, row, s) => Shown(new, row, s)
  BY DEF Shown, Shows
<1> QED BY <1>1, <1>2, <1>3, <1>4

LEMMA MatchesFacts ==
  ASSUME NEW f \in ReportFrame, Placed(f)
  PROVE  /\ Len(Matches(f)) \in Nat /\ f.m \in 1..Len(Matches(f))
         /\ Match(f) = Matches(f)[f.m] /\ Len(Match(f).styles) \in Nat
         /\ \A m \in 1..Len(Matches(f)) :
              /\ Matches(f)[m].group \in STRING
              /\ Matches(f)[m].styles # <<>> => 1 \in 1..Len(Matches(f)[m].styles)
<1>1. Matches(f) = Rules[f.theme][f.id] /\ f.theme \in Themes /\ f.id \in Elements
  BY DEF Matches, ReportFrame
<1>2. Matches(f) \in Seq(MatchRecord) /\ f.m \in 1..Len(Matches(f))
  BY <1>1, RulesFacts DEF Placed
<1>3. Matches(f)[f.m].styles \in Seq(Styles)
  BY <1>1, <1>2, RulesFacts
<1>4. \A m \in 1..Len(Rules[f.theme][f.id]) :
        /\ Rules[f.theme][f.id][m].group \in STRING
        /\ Rules[f.theme][f.id][m].styles # <<>>
             => 1 \in 1..Len(Rules[f.theme][f.id][m].styles)
  BY <1>1, RulesFacts
<1>5. Len(Matches(f)) \in Nat /\ Match(f) = Matches(f)[f.m]
      /\ Len(Matches(f)[f.m].styles) \in Nat
  BY <1>2, <1>3 DEF Match
<1> QED BY <1>1, <1>2, <1>4, <1>5

LEMMA MatchEndsStep ==
  ASSUME Inv, stack # <<>>, Styling(Top), FrameOK(Top), Top \in ReportFrame,
         UNCHANGED <<theme, installed, clean, generation, shell, state, reports, seen>>,
         consumers' \subseteq Elements \X Properties, ~astray',
         NEW f, Progress(f), NEW all, Prepared(f, all), MatchEnds(f, all)
  PROVE  Inv'
<1> DEFINE e == Top.id
<1>1. /\ f \in ReportFrame /\ f.id = e /\ f.theme = Top.theme /\ f.gen = Top.gen
      /\ f.node = Top.node /\ f.m = Top.m /\ f.theme \in Themes
      /\ f.claimed \in SUBSET Properties /\ f.mine \in SUBSET Properties
      /\ e \in Elements /\ value[e] \in Row
  BY RowFacts DEF Progress, ReportFrame, Inv
<1>2. ~StateFreed(f)
  BY DEF MatchEnds
<1>3. Stands(f) = {TRUE} /\ e \in DOMAIN elems /\ elems[e].node = f.node
  BY <1>1, <1>2 DEF Stands, StateFreed
<1>4. PICK buckets : Workable(f, buckets) /\ all = Changed(e, buckets)
  BY <1>1, <1>3 DEF Prepared
<1>5. /\ all[e].buckets = buckets
      /\ \A cs : [all EXCEPT ![e].buckets = cs] = Changed(e, cs)
  BY <1>3, <1>4, ReplacedAgain DEF Inv
<1>6. Placed(f)
  BY <1>1 DEF FrameOK, Placed, Match, Matches, Progress
<1>7. CASE f.m < Len(Matches(f))
  <2> DEFINE next == Entering(f, f.m + 1)
             group == Matches(f)[f.m + 1].group
             bs == WithBucket(buckets, group)
  <2>1. /\ GoesOn(next) /\ elems' = Changed(e, bs) /\ UNCHANGED <<value, lost>>
    <3>1. PICK stands \in Stands(f) :
            /\ GoesOn(next)
            /\ elems' = IF stands
                        THEN [all EXCEPT ![f.id].buckets =
                                WithBucket(@, Matches(f)[f.m + 1].group)]
                        ELSE all
            /\ UNCHANGED <<value, lost>>
      BY <1>7 DEF MatchEnds
    <3>2. stands = TRUE
      BY <1>3, <3>1
    <3>3. elems' = [all EXCEPT ![e].buckets = bs]
      BY <1>1, <1>5, <3>1, <3>2
    <3> QED BY <1>5, <3>1, <3>3
  <2>2. f.m + 1 \in 1..Len(Matches(f)) /\ f.m + 1 \in Nat
    BY <1>6, <1>1, <1>7, MatchesFacts
  <2>3. /\ next \in ReportFrame /\ next.id = e /\ next.gen = Top.gen /\ next.node = f.node
        /\ next.theme = f.theme /\ next.m = f.m + 1 /\ next.s = 1 /\ next.mine = {}
        /\ next.claimed = f.claimed \cup f.mine
        /\ next.at = IF Matches(f)[f.m + 1].styles = <<>> THEN "capture" ELSE "property"
    <3>1. f.claimed \cup f.mine \in SUBSET Properties
      BY <1>1
    <3>2. next = [f EXCEPT !.m = f.m + 1, !.s = 1, !.claimed = f.claimed \cup f.mine,
                    !.mine = {},
                    !.at = IF Matches(f)[f.m + 1].styles = <<>> THEN "capture" ELSE "property"]
      BY <1>1 DEF Entering, ReportFrame
    <3> HIDE DEF next
    <3> QED BY <1>1, <2>2, <3>1, <3>2 DEF ReportFrame
  <2> HIDE DEF next
  <2>4. group \in STRING /\ (Matches(f)[f.m + 1].styles # <<>>
                               => 1 \in 1..Len(Matches(f)[f.m + 1].styles))
    BY <1>1, <1>6, <2>2, MatchesFacts
  <2>5. Matches(next) = Matches(f) /\ Group(next) = group /\ next.at \notin {"match", "value"}
    BY <1>1, <2>3 DEF Matches, Group
  <2>6. Placed(next)
    BY <2>2, <2>3, <2>4, <2>5 DEF Placed, Match
  <2> HIDE DEF group
  <2>7. /\ Whole(buckets, elems[e].gen, value[e], seen[e]) /\ buckets \in Seq(Bucket)
        /\ Quiet(buckets) \/ Wired(buckets)
        /\ cache = NoTheme => Unfilled(buckets)
        /\ MayShow => Shown(buckets, value[e], state)
    BY <1>1, <1>4 DEF Workable, Whole
  <2>8. /\ Whole(bs, elems[e].gen, value[e], seen[e])
        /\ \E i \in 1..Len(bs) : bs[i].group = group
        /\ \A i \in 1..Len(bs) : \/ i \in 1..Len(buckets) /\ bs[i] = buckets[i]
                                 \/ DOMAIN bs[i].props = {} /\ bs[i].watch = 0
    BY <2>4, <2>7, WithBucketFacts
  <2> HIDE DEF bs
  <2>9. /\ Quiet(bs) \/ Wired(bs)
        /\ cache = NoTheme => Unfilled(bs)
        /\ MayShow => Shown(bs, value[e], state)
        /\ Quiet(buckets) => Quiet(bs)
    BY <2>7, <2>8, BucketMore
  <2>10. value' = [value EXCEPT ![e] = value[e]]
    BY <2>1 DEF Inv, Types
  <2>11. /\ Follows /\ SameOwner
         /\ elems'[e].gen = elems[e].gen /\ elems'[e].node = elems[e].node
         /\ elems'[e].buckets = bs
    BY <1>1, <1>3, <2>1, <2>8, <2>9, <2>10, BucketsFollow
  <2>12. ASSUME Owns(next, elems')
         PROVE  elems'[next.id].node = next.node /\ Building(next, elems'[next.id].buckets)
    <3>1. Owner(f)
      BY <1>1, <1>3, <2>3, <2>11, <2>12 DEF Owns, Owner
    <3>2. Quiet(buckets) /\ Claims(f, buckets)
      BY <1>4, <3>1 DEF Workable
    <3>3. Claims(next, bs)
      BY <2>3, <2>8, <3>2 DEF Claims
    <3>4. Building(next, bs)
      BY <2>5, <2>8, <2>9, <3>2, <3>3 DEF Building
    <3> QED BY <1>3, <2>3, <2>11, <3>4
  <2>13. lost' \in Lost
    BY <2>1 DEF Inv, Types, Lost
  <2> QED BY <2>1, <2>3, <2>5, <2>6, <2>11, <2>12, <2>13, ReportGoesOn
<1>8. CASE ~(f.m < Len(Matches(f)))
  <2>1. /\ Finished(f, buckets, all) /\ stack' = Pop /\ UNCHANGED <<cache, readopted>>
    BY <1>1, <1>3, <1>5, <1>8 DEF MatchEnds
  <2> QED BY <1>1, <1>3, <1>4, <2>1, FinishedStep
<1> QED BY <1>7, <1>8

LEMMA StyleDoneStep ==
  ASSUME Inv, stack # <<>>, Styling(Top), FrameOK(Top), Top \in ReportFrame,
         Top.at # "capture",
         UNCHANGED <<theme, installed, clean, generation, shell, state, reports, seen>>,
         ~astray', NEW f, Progress(f), NEW all, Prepared(f, all), StyleDone(f, all)
  PROVE  Inv'
<1> DEFINE e == Top.id
<1>1. /\ f \in ReportFrame /\ f.id = e /\ f.theme = Top.theme /\ f.gen = Top.gen
      /\ f.node = Top.node /\ f.m = Top.m /\ f.s = Top.s /\ f.theme \in Themes
      /\ f.claimed \in SUBSET Properties /\ f.mine \in SUBSET Properties
      /\ f.s \in Nat /\ e \in Elements
  BY DEF Progress, ReportFrame
<1>2. Placed(f) /\ f.s \in 1..Len(Match(f).styles)
  BY <1>1 DEF FrameOK, Placed, Match, Matches
<1>3. Len(Match(f).styles) \in Nat /\ f.m \in 1..Len(Matches(f))
  BY <1>1, <1>2, MatchesFacts
<1>4. ASSUME elems' = all, UNCHANGED <<value, lost>>,
             consumers' \subseteq Elements \X Properties,
             NEW next \in ReportFrame, next.at \notin {"match", "value"}, next.id = f.id,
             next.theme = f.theme, next.gen = f.gen, next.node = f.node, next.m = f.m,
             next.claimed \cup next.mine = f.claimed \cup f.mine,
             f.claimed \subseteq next.claimed, next.mine \subseteq f.mine,
             Placed(next), GoesOn(next)
      PROVE  Inv'
  <2>1. /\ Follows /\ SameOwner
        /\ Top.id \in DOMAIN elems' =>
             /\ Top.id \in DOMAIN elems
             /\ elems'[Top.id].gen = elems[Top.id].gen
             /\ elems'[Top.id].node = elems[Top.id].node
             /\ Workable(f, elems'[Top.id].buckets)
    BY <1>1, <1>4, PreparedFollows
  <2>2. Group(next) = Group(f)
    BY <1>4 DEF Group, Matches
  <2>3. ASSUME Owns(next, elems')
        PROVE  elems'[next.id].node = next.node /\ Building(next, elems'[next.id].buckets)
    <3>1. /\ e \in DOMAIN elems' /\ e \in DOMAIN elems /\ elems[e].gen = f.gen
          /\ elems'[e].node = elems[e].node /\ Workable(f, elems'[e].buckets)
      BY <1>1, <1>4, <2>1, <2>3 DEF Owns
    <3>2. Owner(f) /\ elems[e].node = f.node
      BY <1>1, <3>1 DEF Owner, FrameOK, Owns
    <3>3. /\ Quiet(elems'[e].buckets) /\ Claims(f, elems'[e].buckets)
          /\ \E i \in 1..Len(elems'[e].buckets) : elems'[e].buckets[i].group = Group(f)
      BY <3>1, <3>2 DEF Workable
    <3>4. Claims(next, elems'[e].buckets)
      BY <1>4, <2>2, <3>3 DEF Claims
    <3> QED BY <1>1, <1>4, <2>2, <3>1, <3>2, <3>3, <3>4 DEF Building
  <2>4. lost' \in Lost
    BY <1>4 DEF Inv, Types, Lost
  <2> QED BY <1>1, <1>4, <2>1, <2>3, <2>4, ReportGoesOn
<1>5. CASE f.s < Len(Match(f).styles)
  <2> DEFINE next == [f EXCEPT !.s = @ + 1, !.at = "property"]
  <2>1. GoesOn(next) /\ elems' = all /\ UNCHANGED <<value, consumers, lost>>
    BY <1>5 DEF StyleDone
  <2>2. /\ next \in ReportFrame /\ next.id = f.id /\ next.gen = f.gen /\ next.node = f.node
        /\ next.theme = f.theme /\ next.at = "property" /\ next.m = f.m /\ next.s = f.s + 1
        /\ next.claimed = f.claimed /\ next.mine = f.mine
    <3>1. f.s + 1 \in Nat /\ next = [f EXCEPT !.s = f.s + 1, !.at = "property"]
      BY <1>1 DEF ReportFrame
    <3> HIDE DEF next
    <3> QED BY <1>1, <3>1 DEF ReportFrame
  <2> HIDE DEF next
  <2>3. Matches(next) = Matches(f) /\ Match(next) = Match(f)
    BY <2>2 DEF Matches, Match
  <2>4. f.s + 1 \in 1..Len(Match(f).styles)
    BY <1>2, <1>3, <1>5
  <2>5. Placed(next)
    BY <1>3, <2>2, <2>3, <2>4 DEF Placed
  <2>6. consumers' \subseteq Elements \X Properties
    BY <2>1 DEF Inv, Types
  <2> QED BY <1>4, <2>1, <2>2, <2>5, <2>6
<1>6. CASE ~(f.s < Len(Match(f).styles))
  <2>1. Publishes(f, all)
    BY <1>6 DEF StyleDone
  <2>2. consumers' \subseteq Elements \X Properties
    BY <1>1, <2>1, PublishesType DEF Inv
  <2>3. CASE Match(f).captures
    <3> DEFINE next == [f EXCEPT !.at = "capture", !.claimed = @ \cup f.mine, !.mine = {}]
    <3>1. GoesOn(next) /\ elems' = all /\ UNCHANGED <<value, lost>>
      BY <1>6, <2>3 DEF StyleDone
    <3>2. /\ next \in ReportFrame /\ next.id = f.id /\ next.gen = f.gen /\ next.node = f.node
          /\ next.theme = f.theme /\ next.at = "capture" /\ next.m = f.m
          /\ next.claimed = f.claimed \cup f.mine /\ next.mine = {}
      <4>1. f.claimed \cup f.mine \in SUBSET Properties
            /\ next = [f EXCEPT !.at = "capture", !.claimed = f.claimed \cup f.mine, !.mine = {}]
        BY <1>1 DEF ReportFrame
      <4> HIDE DEF next
      <4> QED BY <1>1, <4>1 DEF ReportFrame
    <3> HIDE DEF next
    <3>3. Placed(next)
      BY <1>3, <3>2 DEF Placed, Matches
    <3> QED BY <1>4, <2>2, <3>1, <3>2, <3>3
  <2>4. CASE ~Match(f).captures
    <3>1. MatchEnds(f, all)
      BY <1>6, <2>4 DEF StyleDone
    <3> QED BY <2>2, <3>1, MatchEndsStep
  <2> QED BY <2>3, <2>4
<1> QED BY <1>5, <1>6

LEMMA PropertyFailsStep ==
  ASSUME Inv, ~astray', PropertyFails
  PROVE  Inv'
<1>1. /\ Waits("report", "property") /\ StyleDone(Top, elems)
      /\ UNCHANGED <<theme, installed, clean, generation, shell, state, reports, seen>>
  BY DEF PropertyFails
<1>2. /\ stack # <<>> /\ Styling(Top) /\ FrameOK(Top) /\ Top \in ReportFrame /\ Progress(Top)
      /\ Top.at # "capture"
  BY <1>1, StylingTop DEF Waits
<1>3. Prepared(Top, elems)
  BY <1>2, PreparedTop
<1> QED BY <1>1, <1>2, <1>3, StyleDoneStep

LEMMA CapturesEndStep ==
  ASSUME Inv, ~astray', CapturesEnd
  PROVE  Inv'
<1>1. /\ Waits("report", "capture") /\ MatchEnds(Top, elems)
      /\ UNCHANGED <<theme, installed, clean, generation, consumers, shell, state, reports,
                     seen>>
  BY DEF CapturesEnd
<1>2. stack # <<>> /\ Styling(Top) /\ FrameOK(Top) /\ Top \in ReportFrame /\ Progress(Top)
  BY <1>1, StylingTop
<1>3. Prepared(Top, elems)
  BY <1>2, PreparedTop
<1>4. consumers' \subseteq Elements \X Properties
  BY <1>1 DEF Inv, Types
<1> QED BY <1>1, <1>2, <1>3, <1>4, MatchEndsStep

LEMMA NewPropertyFacts ==
  NewProperty \in PropertyState /\ ~NewProperty.applied /\ DOMAIN NewProperty.values = {}
  /\ NewProperty.watch = 0
<1>1. DOMAIN Empty = {} /\ Empty \in [DOMAIN Empty -> Themes \X Nat]
  BY DEF Empty
<1>2. Empty \in Partial(StateNames, Themes \X Nat)
  BY <1>1, PartialMember
<1> QED BY <1>1, <1>2 DEF NewProperty, PropertyState

(* New values of a property, all of the report's generation.                *)
LEMMA ValuesWith ==
  ASSUME NEW values \in Partial(StateNames, Themes \X Nat), NEW s \in StateNames,
         NEW v \in Themes \X Nat, \A n \in DOMAIN values : values[n][2] = v[2]
  PROVE  LET new == With(values, s, v)
         IN new \in Partial(StateNames, Themes \X Nat) /\ \A n \in DOMAIN new : new[n][2] = v[2]
<1> DEFINE new == With(values, s, v)
<1>1. DOMAIN values \subseteq StateNames /\ values \in [DOMAIN values -> Themes \X Nat]
  BY PartialFacts
<1>3. DOMAIN new = DOMAIN values \cup {s}
      /\ new \in [DOMAIN new -> Themes \X Nat] /\ \A n \in DOMAIN new : new[n][2] = v[2]
  BY <1>1 DEF With
<1> HIDE DEF new
<1>4. new \in Partial(StateNames, Themes \X Nat)
  BY <1>1, <1>3, PartialMember
<1> QED BY <1>3, <1>4 DEF new

LEMMA ValuesWithout ==
  ASSUME NEW values \in Partial(StateNames, Themes \X Nat), NEW s, NEW g,
         \A n \in DOMAIN values : values[n][2] = g
  PROVE  LET new == Without(values, s)
         IN new \in Partial(StateNames, Themes \X Nat) /\ \A n \in DOMAIN new : new[n][2] = g
<1> DEFINE new == Without(values, s)
<1>1. DOMAIN values \subseteq StateNames /\ values \in [DOMAIN values -> Themes \X Nat]
  BY PartialFacts
<1>2. DOMAIN new = DOMAIN values \ {s}
      /\ new \in [DOMAIN new -> Themes \X Nat] /\ \A n \in DOMAIN new : new[n][2] = g
  BY <1>1 DEF Without
<1> HIDE DEF new
<1>3. new \in Partial(StateNames, Themes \X Nat)
  BY <1>1, <1>2, PartialMember
<1> QED BY <1>2, <1>3 DEF new

(* The report's style puts a property into the bucket of its match.         *)
LEMMA OwnBucket ==
  ASSUME NEW f \in ReportFrame, Placed(f), NEW bs, Ready(f, bs)
  PROVE  LET b == BucketOf(bs, Group(f))
         IN b \in 1..Len(bs) /\ bs[b].group = Group(f)
            /\ \A p \in Properties : p \notin f.claimed => \A j \in Holding(bs, p) : j = b
<1> DEFINE b == BucketOf(bs, Group(f))
<1>1. b \in 1..Len(bs) /\ bs[b].group = Group(f)
  BY DEF BucketOf, Ready
<1>2. ASSUME NEW p \in Properties, p \notin f.claimed, NEW j \in Holding(bs, p)
      PROVE  j = b
  <2>1. j \in 1..Len(bs) /\ bs[j].group = Group(f)
    BY <1>2, HoldingFacts DEF Ready, Claims
  <2> HIDE DEF b
  <2> QED BY <1>1, <2>1 DEF Ready, Whole, Single
<1> QED BY <1>1, <1>2

LEMMA PutReady ==
  ASSUME NEW f \in ReportFrame, Placed(f), NEW bs, Ready(f, bs),
         NEW p \in Properties,
         p \notin f.claimed \/ p \in DOMAIN bs[BucketOf(bs, Group(f))].props,
         NEW prop \in PropertyState, prop.watch = 0,
         \A s \in DOMAIN prop.values : prop.values[s][2] = f.gen,
         LET b == BucketOf(bs, Group(f))
         IN IF p \in DOMAIN bs[b].props
            THEN /\ prop.applied = bs[b].props[p].applied
                 /\ prop.original = bs[b].props[p].original
                 /\ prop.last = bs[b].props[p].last
            ELSE ~prop.applied,
         NEW g \in ReportFrame, g.id = f.id, g.gen = f.gen, g.theme = f.theme, g.m = f.m,
         g.claimed = f.claimed, f.mine \subseteq g.mine,
         p \in g.mine \/ p \in DOMAIN bs[BucketOf(bs, Group(f))].props
  PROVE  LET b == BucketOf(bs, Group(f))
             new == Put(bs, b, p, prop)
         IN /\ Ready(g, new) /\ Group(g) = Group(f)
            /\ b \in 1..Len(new) /\ new[b].group = Group(f) /\ p \in DOMAIN new[b].props
<1> DEFINE b == BucketOf(bs, Group(f))
           new == Put(bs, b, p, prop)
<1>1. b \in 1..Len(bs) /\ bs[b].group = Group(f) /\ \A j \in Holding(bs, p) : j = b
  <2>1. b \in 1..Len(bs) /\ bs[b].group = Group(f)
    BY OwnBucket
  <2>2. CASE p \notin f.claimed
    BY <2>2, OwnBucket
  <2>3. CASE p \in DOMAIN bs[b].props
    <3> HIDE DEF b
    <3>1. b \in Holding(bs, p)
      BY <2>1, <2>3, HoldingFacts
    <3> QED BY <2>1, <3>1 DEF Ready, Whole, Single
  <2> QED BY <2>1, <2>2, <2>3
<1>2. Whole(bs, f.gen, value[f.id], seen[f.id]) /\ bs \in Seq(Bucket)
  BY DEF Ready, Whole
<1>3. IF p \in DOMAIN bs[b].props
      THEN /\ prop.applied = bs[b].props[p].applied
           /\ prop.original = bs[b].props[p].original
           /\ prop.last = bs[b].props[p].last
      ELSE ~prop.applied
  OBVIOUS
<1>4. Group(g) = Group(f)
  BY DEF Group, Matches
<1> HIDE DEF b
<1>5. Whole(new, f.gen, value[f.id], seen[f.id])
  <2>1. prop.applied \in BOOLEAN
    BY DEF PropertyState
  <2>2. IF p \in DOMAIN bs[b].props
        THEN prop.applied => /\ bs[b].props[p].applied
                             /\ prop.original = bs[b].props[p].original
                             /\ prop.last = bs[b].props[p].last
        ELSE ~prop.applied
    BY <1>3
  <2>3. p \in DOMAIN bs[b].props /\ bs[b].props[p].applied => prop.applied
    BY <1>3
  <2> QED BY <1>1, <1>2, <2>2, <2>3, PutWhole
<1>6. /\ new \in Seq(Bucket) /\ Len(new) = Len(bs)
      /\ \A j \in 1..Len(bs) :
           /\ new[j].group = bs[j].group /\ new[j].watch = bs[j].watch
           /\ j # b => new[j] = bs[j]
      /\ DOMAIN new[b].props = DOMAIN bs[b].props \cup {p}
      /\ new[b].props[p] = prop
      /\ \A q \in DOMAIN bs[b].props : q # p => new[b].props[q] = bs[b].props[q]
  BY <1>1, <1>2, PutFacts
<1> HIDE DEF new
<1>7. Quiet(new)
  BY <1>1, <1>6 DEF Ready, Quiet
<1>8. Claims(g, new)
  <2> SUFFICES ASSUME NEW i \in 1..Len(new), NEW q \in DOMAIN new[i].props
               PROVE  q \in g.claimed \/ (q \in g.mine /\ new[i].group = Group(g))
    BY DEF Claims
  <2>1. CASE i = b /\ q = p
    <3>1. new[i].group = Group(g) /\ i \in 1..Len(bs)
      BY <2>1, <1>1, <1>4, <1>6
    <3>2. CASE q \in g.mine
      BY <3>1, <3>2
    <3>3. CASE q \in DOMAIN bs[i].props
      BY <3>1, <3>3, <1>4 DEF Ready, Claims
    <3> QED BY <2>1, <3>2, <3>3 DEF b
  <2>2. CASE ~(i = b /\ q = p)
    <3>1. i \in 1..Len(bs) /\ q \in DOMAIN bs[i].props /\ new[i].group = bs[i].group
      BY <2>2, <1>6
    <3> QED BY <3>1, <1>4 DEF Ready, Claims
  <2> QED BY <2>1, <2>2
<1>9. Ready(g, new)
  BY <1>1, <1>4, <1>5, <1>6, <1>7, <1>8 DEF Ready
<1> QED BY <1>1, <1>4, <1>6, <1>9 DEF new, b

LEMMA PropertyResolvedStep ==
  ASSUME Inv, ~astray', PropertyResolved
  PROVE  Inv'
<1> DEFINE p == Style(Top).property
           buckets == elems[Top.id].buckets
           group == Match(Top).group
           b == BucketOf(buckets, group)
           record == IF p \in DOMAIN buckets[b].props THEN buckets[b].props[p] ELSE NewProperty
           prop == Selected(Top, record)
           added == Put(buckets, b, p, prop)
           mine == [Top EXCEPT !.mine = @ \cup {p}]
           next == [mine EXCEPT !.at = "value"]
<1>1. /\ Waits("report", "property") /\ Current(Top)
      /\ UNCHANGED <<theme, installed, clean, generation, shell, state, reports, seen>>
  BY DEF PropertyResolved
<1>2. IF IsClaimed(Top) THEN StyleDone(Top, elems)
      ELSE IF IsInert(Top) THEN StyleDone(mine, elems)
      ELSE IF ~Style(Top).dynamic THEN StyleDone(mine, Changed(Top.id, added))
      ELSE /\ elems' = Changed(Top.id, added)
           /\ stack' = Append(Pop, next)
           /\ UNCHANGED <<cache, value, consumers, lost, readopted, astray>>
  BY DEF PropertyResolved
<1>3. /\ stack # <<>> /\ Styling(Top) /\ FrameOK(Top) /\ Top \in ReportFrame
      /\ Placed(Top) /\ Ready(Top, buckets) /\ Progress(Top)
      /\ Top.theme \in Themes /\ Top.gen \in Nat /\ Top.at = "property"
      /\ Top.id \in DOMAIN elems /\ Owner(Top) /\ cache # NoTheme /\ Top.id \in Elements
  BY <1>1, StylingTop, CurrentFacts DEF FrameOK, Waits, ReportFrame
<1>4. p \in Properties /\ Style(Top) \in Styles /\ Style(Top).state \in StateNames
  BY <1>3, StyleFacts
<1>5. /\ mine \in ReportFrame /\ mine.id = Top.id /\ mine.gen = Top.gen /\ mine.theme = Top.theme
      /\ mine.m = Top.m /\ mine.s = Top.s /\ mine.at = Top.at /\ mine.node = Top.node
      /\ mine.claimed = Top.claimed /\ mine.mine = Top.mine \cup {p}
  <2>1. Top.mine \cup {p} \in SUBSET Properties
    BY <1>3, <1>4 DEF ReportFrame
  <2>2. mine = [Top EXCEPT !.mine = Top.mine \cup {p}]
    BY <1>3 DEF ReportFrame
  <2> HIDE DEF mine
  <2> QED BY <1>3, <2>1, <2>2 DEF ReportFrame
<1> HIDE DEF p, mine
<1>6. Progress(mine)
  BY <1>3, <1>5 DEF Progress
<1>7. Ready(mine, buckets) /\ Owner(mine)
  <2>1. Group(mine) = Group(Top)
    BY <1>5 DEF Group, Matches
  <2>2. Ready(mine, buckets)
    BY <1>3, <1>5, <2>1 DEF Ready, Claims
  <2>3. Owner(mine)
    BY <1>3, <1>5 DEF Owner
  <2> QED BY <2>2, <2>3
<1>13. ASSUME NEW bs, Ready(mine, bs)
       PROVE  Prepared(mine, Changed(Top.id, bs))
  <2>1. Workable(mine, bs)
    BY <1>3, <1>7, <1>13, ReadyWorkable
  <2> QED BY <1>3, <1>5, <2>1 DEF Prepared
<1>8. CASE IsClaimed(Top)
  <2>1. Prepared(Top, elems)
    BY <1>3, PreparedTop
  <2> QED BY <1>1, <1>2, <1>3, <1>8, <2>1, StyleDoneStep
<1>9. CASE ~IsClaimed(Top) /\ IsInert(Top)
  <2>1. Prepared(mine, elems)
    BY <1>3, <1>7, <1>13, SameElements DEF Inv
  <2> QED BY <1>1, <1>2, <1>3, <1>6, <1>9, <2>1, StyleDoneStep
<1>10. ASSUME ~IsClaimed(Top)
       PROVE  /\ Ready(mine, added) /\ Group(mine) = Group(Top)
              /\ b \in 1..Len(added) /\ added[b].group = Group(Top) /\ p \in DOMAIN added[b].props
  <2>1. p \notin Top.claimed
    BY <1>10 DEF IsClaimed, p
  <2>2. b = BucketOf(buckets, Group(Top))
    BY DEF Group, Match
  <2>3. b \in 1..Len(buckets) /\ buckets \in Seq(Bucket) /\ Owned(buckets, Top.gen)
        /\ Quiet(buckets)
    BY <1>3, <2>2, OwnBucket DEF Ready, Whole
  <2> HIDE DEF b, buckets
  <2>4. /\ record \in PropertyState /\ record.watch = 0
        /\ \A n \in DOMAIN record.values : record.values[n][2] = Top.gen
        /\ IF p \in DOMAIN buckets[b].props THEN record = buckets[b].props[p]
           ELSE ~record.applied
    BY <2>3, BucketFacts, NewPropertyFacts DEF Owned, Quiet
  <2> HIDE DEF record
  <2>5. /\ prop \in PropertyState /\ prop.watch = 0
        /\ \A n \in DOMAIN prop.values : prop.values[n][2] = Top.gen
        /\ prop.applied = record.applied /\ prop.original = record.original
        /\ prop.last = record.last
    <3> DEFINE s == Style(Top).state
               new == With(record.values, s, Themed(Top.theme, Top.gen))
    <3>1. /\ record.dynamic \cup {s} \in SUBSET StateNames
          /\ record.dynamic \ {s} \in SUBSET StateNames
          /\ record.values \in Partial(StateNames, Themes \X Nat)
      BY <2>4, <1>4 DEF PropertyState
    <3>2. new \in Partial(StateNames, Themes \X Nat)
          /\ \A n \in DOMAIN new : new[n][2] = Top.gen
      <4>1. Themed(Top.theme, Top.gen) \in Themes \X Nat /\ Themed(Top.theme, Top.gen)[2] = Top.gen
        BY <1>3 DEF Themed
      <4>2. PICK v \in Themes \X Nat : v = Themed(Top.theme, Top.gen)
        BY <4>1
      <4>3. \A n \in DOMAIN record.values : record.values[n][2] = v[2]
        BY <2>4, <4>1, <4>2
      <4>4. new = With(record.values, s, v) /\ s \in StateNames
        BY <1>4, <4>2
      <4> HIDE DEF new, s
      <4>5. new \in Partial(StateNames, Themes \X Nat) /\ \A n \in DOMAIN new : new[n][2] = v[2]
        BY <3>1, <4>3, <4>4, ValuesWith
      <4> QED BY <4>1, <4>2, <4>5
    <3>3. prop = IF Style(Top).dynamic
                 THEN [record EXCEPT !.dynamic = record.dynamic \cup {s}]
                 ELSE [record EXCEPT !.dynamic = record.dynamic \ {s}, !.values = new]
      BY <2>4 DEF Selected, PropertyState
    <3> HIDE DEF s, new, prop
    <3>4. CASE Style(Top).dynamic
      BY <2>4, <3>1, <3>3, <3>4 DEF PropertyState
    <3>5. CASE ~Style(Top).dynamic
      BY <2>4, <3>1, <3>2, <3>3, <3>5 DEF PropertyState
    <3> QED BY <3>4, <3>5
  <2> HIDE DEF prop
  <2>6. IF p \in DOMAIN buckets[b].props
        THEN /\ prop.applied = buckets[b].props[p].applied
             /\ prop.original = buckets[b].props[p].original
             /\ prop.last = buckets[b].props[p].last
        ELSE ~prop.applied
    BY <2>4, <2>5
  <2>7. Top.mine \subseteq mine.mine /\ p \in mine.mine
    BY <1>5
  <2> QED BY <1>3, <1>4, <1>5, <2>1, <2>2, <2>5, <2>6, <2>7, PutReady
<1>11. CASE ~IsClaimed(Top) /\ ~IsInert(Top) /\ ~Style(Top).dynamic
  <2>1. Prepared(mine, Changed(Top.id, added))
    BY <1>10, <1>11, <1>13
  <2> QED BY <1>1, <1>2, <1>3, <1>6, <1>11, <2>1, StyleDoneStep
<1>12. CASE ~IsClaimed(Top) /\ ~IsInert(Top) /\ Style(Top).dynamic
  <2>1. /\ elems' = Changed(Top.id, added)
        /\ stack' = Append(Pop, next)
        /\ UNCHANGED <<cache, value, consumers, lost, readopted>>
    BY <1>2, <1>12
  <2>2. /\ next \in ReportFrame /\ next.at = "value" /\ next.id = Top.id /\ next.gen = Top.gen
        /\ next.theme = Top.theme /\ next.m = Top.m /\ next.s = Top.s
        /\ next.claimed = mine.claimed /\ next.mine = mine.mine /\ next.node = Top.node
    BY <1>5 DEF ReportFrame
  <2> HIDE DEF next
  <2>3. Matches(next) = Matches(Top) /\ Match(next) = Match(Top)
        /\ Group(next) = Group(Top) /\ Style(next) = Style(Top)
    BY <2>2 DEF Matches, Match, Group, Style
  <2>4. Placed(next)
    BY <1>3, <2>2, <2>3 DEF Placed
  <2>5. Ready(mine, added) /\ Group(mine) = Group(Top) /\ b \in 1..Len(added)
        /\ added[b].group = Group(Top) /\ p \in DOMAIN added[b].props
    BY <1>10, <1>12
  <2> HIDE DEF added
  <2>6. Building(next, added)
    <3>1. Claims(next, added)
      BY <2>2, <2>3, <2>5 DEF Ready, Claims
    <3> QED BY <3>1, <2>3, <2>5 DEF Ready, Building, p
  <2>7. GoesOn(next)
    <3>1. Adopting(next, cache) = cache
      BY <2>2 DEF Adopting
    <3> QED BY <2>1, <3>1 DEF GoesOn, Inv, Types
  <2>8. consumers' \subseteq Elements \X Properties /\ lost' \in Lost
    BY <2>1 DEF Inv, Types, Lost
  <2>9. Prepared(mine, Changed(Top.id, added))
    BY <1>13, <2>5
  <2>10. /\ Follows /\ SameOwner
         /\ Top.id \in DOMAIN elems' =>
              /\ elems'[Top.id].gen = elems[Top.id].gen
              /\ elems'[Top.id].node = elems[Top.id].node
    BY <1>1, <1>3, <1>5, <2>1, <2>9, PreparedFollows
  <2>11. elems'[Top.id].buckets = added
    BY <1>3, <2>1, ReplacedAgain DEF Inv
  <2>12. Owns(next, elems') => /\ elems'[next.id].node = next.node
                               /\ Building(next, elems'[next.id].buckets)
    BY <1>3, <2>2, <2>6, <2>10, <2>11 DEF Owner, Owns, FrameOK
  <2> QED BY <1>1, <1>3, <2>2, <2>4, <2>7, <2>8, <2>10, <2>12, ReportGoesOn
<1> QED BY <1>8, <1>9, <1>11, <1>12

LEMMA ValueResolvedStep ==
  ASSUME Inv, ~astray', ValueResolved
  PROVE  Inv'
<1> DEFINE p == Style(Top).property
           buckets == elems[Top.id].buckets
           b == BucketOf(buckets, Match(Top).group)
           record == buckets[b].props[p]
           s == Style(Top).state
           New(found) == IF found THEN With(record.values, s, Themed(Top.theme, Top.gen))
                         ELSE Without(record.values, s)
<1>1. /\ Waits("report", "value") /\ Current(Top)
      /\ UNCHANGED <<theme, installed, clean, generation, shell, state, reports, seen>>
  BY DEF ValueResolved
<1>2. PICK found \in BOOLEAN :
        StyleDone(Top, Changed(Top.id, Put(buckets, b, p, [record EXCEPT !.values = New(found)])))
  BY DEF ValueResolved
<1> DEFINE new == New(found)
           prop == [record EXCEPT !.values = new]
<1>3. /\ stack # <<>> /\ Styling(Top) /\ FrameOK(Top) /\ Top \in ReportFrame
      /\ Placed(Top) /\ Ready(Top, buckets) /\ Progress(Top)
      /\ Top.theme \in Themes /\ Top.gen \in Nat /\ Top.at = "value"
      /\ Building(Top, buckets) /\ Top.id \in DOMAIN elems /\ Owner(Top) /\ cache # NoTheme
  BY <1>1, StylingTop, CurrentFacts DEF FrameOK, Waits
<1>4. p \in Properties /\ Style(Top) \in Styles /\ s \in StateNames
  BY <1>3, StyleFacts
<1>5. b = BucketOf(buckets, Group(Top))
  BY DEF Group, Match
<1>6. b \in 1..Len(buckets) /\ buckets \in Seq(Bucket) /\ Owned(buckets, Top.gen)
      /\ Quiet(buckets) /\ Single(buckets) /\ buckets[b].group = Group(Top)
  BY <1>3, <1>5, OwnBucket DEF Ready, Whole
<1>7. p \in DOMAIN buckets[b].props
  <2> HIDE DEF b, p, buckets
  <2>1. PICK i \in 1..Len(buckets) : buckets[i].group = Group(Top) /\ p \in DOMAIN buckets[i].props
    BY <1>3 DEF Building, p
  <2> QED BY <1>6, <2>1 DEF Single
<1> HIDE DEF p, buckets, b
<1>8. /\ record \in PropertyState /\ record.watch = 0
      /\ \A n \in DOMAIN record.values : record.values[n][2] = Top.gen
      /\ record.values \in Partial(StateNames, Themes \X Nat)
  BY <1>6, <1>7, BucketFacts DEF Owned, Quiet, PropertyState
<1> HIDE DEF record, s
<1>9. new \in Partial(StateNames, Themes \X Nat) /\ \A n \in DOMAIN new : new[n][2] = Top.gen
  <2>1. CASE found
    <3>1. new = With(record.values, s, Themed(Top.theme, Top.gen))
      BY <2>1
    <3>2. Themed(Top.theme, Top.gen) \in Themes \X Nat /\ Themed(Top.theme, Top.gen)[2] = Top.gen
      BY <1>3 DEF Themed
    <3>3. PICK v \in Themes \X Nat : v = Themed(Top.theme, Top.gen)
      BY <3>2
    <3>4. \A n \in DOMAIN record.values : record.values[n][2] = v[2]
      BY <1>8, <3>2, <3>3
    <3>5. new = With(record.values, s, v)
      BY <3>1, <3>3
    <3> HIDE DEF new
    <3>6. new \in Partial(StateNames, Themes \X Nat) /\ \A n \in DOMAIN new : new[n][2] = v[2]
      BY <3>4, <3>5, <1>4, <1>8, ValuesWith
    <3> QED BY <3>2, <3>3, <3>6
  <2>2. CASE ~found
    <3>1. new = Without(record.values, s)
      BY <2>2
    <3> HIDE DEF new, New, prop
    <3> QED BY ONLY <3>1, <1>8, ValuesWithout
  <2> QED BY <2>1, <2>2
<1> HIDE DEF new
<1>10. /\ prop \in PropertyState /\ prop.watch = 0 /\ prop.values = new
       /\ prop.applied = record.applied /\ prop.original = record.original
       /\ prop.last = record.last
  BY <1>8, <1>9 DEF PropertyState
<1>11. Ready(Top, Put(buckets, b, p, prop))
  <2>1. /\ prop.applied = buckets[b].props[p].applied
        /\ prop.original = buckets[b].props[p].original
        /\ prop.last = buckets[b].props[p].last
    BY <1>10 DEF record
  <2>2. \A n \in DOMAIN prop.values : prop.values[n][2] = Top.gen
    BY <1>9, <1>10
  <2> HIDE DEF prop
  <2> QED BY <1>3, <1>4, <1>5, <1>7, <1>10, <2>1, <2>2, PutReady
<1>12. Prepared(Top, Changed(Top.id, Put(buckets, b, p, prop)))
  BY <1>3, <1>11, ReadyWorkable DEF Prepared
<1>13. StyleDone(Top, Changed(Top.id, Put(buckets, b, p, prop)))
  BY <1>2 DEF new
<1> HIDE DEF prop
<1> QED BY <1>1, <1>3, <1>12, <1>13, StyleDoneStep

-----------------------------------------------------------------------------
(* The steps outside a report.  Buckets of the same shape stay watched as   *)
(* they were.                                                               *)
LEMMA ShapeWatched ==
  ASSUME NEW bs, NEW old, SameShape(bs, old), Quiet(old) \/ Wired(old)
  PROVE  /\ Quiet(bs) \/ Wired(bs)
         /\ Quiet(old) => Quiet(bs)
<1>1. Quiet(old) => Quiet(bs)
  BY DEF Quiet, SameShape
<1>2. Wired(old) => Wired(bs)
  BY DEF Wired, SameShape
<1> QED BY <1>1, <1>2

LEMMA ShapeTransitive ==
  ASSUME NEW a, NEW b, NEW c, SameShape(a, b), SameShape(b, c)
  PROVE  SameShape(a, c)
BY DEF SameShape

(* One element keeps its generation and its shape, and still shows what it  *)
(* is to show.                                                              *)
LEMMA ShapeKeptStep ==
  ASSUME Inv, NEW e \in DOMAIN elems, NEW bs,
         UNCHANGED <<theme, installed, clean, cache, generation, state, reports, lost,
                     readopted>>,
         consumers' \subseteq Elements \X Properties,
         elems' = Changed(e, bs),
         value' \in [Elements -> Row], \A x \in Elements : x # e => value'[x] = value[x],
         shell' \in [Elements -> Writes], seen' \in [Elements -> Writes],
         \A x \in Elements : x # e => seen'[x] = seen[x],
         SameShape(bs, elems[e].buckets),
         Whole(bs, elems[e].gen, value'[e], seen'[e]),
         ~readopted /\ cache = theme /\ cache # NoTheme => Shown(bs, value'[e], state),
         stack' = stack \/ (stack # <<>> /\ stack' = Pop)
  PROVE  Inv'
<1> DEFINE g == elems[e].gen
           n == elems[e].node
<1>1. /\ e \in Elements /\ g \in 1..generation /\ generation \in Nat /\ n \in Nat
      /\ Quiet(elems[e].buckets) \/ Wired(elems[e].buckets)
  BY ElemFacts DEF Inv, Types, Elems
<1>2. Quiet(bs) \/ Wired(bs)
  BY <1>1, ShapeWatched
<1>3. elems' = With(elems, e, Styled(g, n, bs))
  BY BucketsReplaced DEF Inv
<1>4. /\ generation' \in Nat /\ generation' >= generation /\ g \in 1..generation'
      /\ value' \in [Elements -> Row] /\ seen' \in [Elements -> Writes]
      /\ \A x \in Elements : x # e => value'[x] = value[x]
      /\ \A x \in Elements : x # e => seen'[x] = seen[x]
  BY <1>1
<1> HIDE DEF g, n
<1>5. Types /\ Elems /\ Bare /\ Whole(bs, g, value'[e], seen'[e])
  BY DEF Inv, g
<1>6. /\ elems' \in Partial(Elements, Element) /\ Elems' /\ Bare'
      /\ elems'[e].gen = g /\ elems'[e].node = n
  BY ONLY <1>1, <1>2, <1>3, <1>4, <1>5, ElementRebuilt
<1>7. /\ DOMAIN elems' = DOMAIN elems /\ elems'[e].buckets = bs
      /\ \A x \in DOMAIN elems : x # e => elems'[x] = elems[x]
  BY ONLY <1>3, e \in DOMAIN elems DEF With, Styled
<1>8. \A d \in 1..Len(stack) : StillBuilding(d)
  <2>1. \A x \in DOMAIN elems' : /\ elems'[x].gen = elems[x].gen
                                 /\ elems'[x].node = elems[x].node
                                 /\ SameShape(elems'[x].buckets, elems[x].buckets)
    BY <1>6, <1>7 DEF g, n, SameShape
  <2> QED BY <1>7, <2>1, FramesShape DEF Inv
<1>9. stack' \in Seq(Frame) /\ Frames' /\ Succession'
  <2>1. CASE stack' = stack
    BY <1>8, <2>1, FramesKept DEF Inv, Types
  <2>2. CASE stack # <<>> /\ stack' = Pop
    <3>1. Len(Pop) = Len(stack) - 1 /\ Len(stack) \in Nat
      BY <2>2, StackFacts DEF Inv
    <3>2. \A d \in 1..Len(Pop) : StillBuilding(d)
      BY <1>8, <3>1
    <3> QED BY <2>2, <3>2, FramesPop DEF Inv
  <2> QED BY <2>1, <2>2
<1>10. Types'
  BY <1>6, <1>9 DEF Inv, Types
<1>11. cache = NoTheme => \A x \in DOMAIN elems' : Unfilled(elems'[x].buckets)
  <2> SUFFICES ASSUME cache = NoTheme, NEW x \in DOMAIN elems' PROVE Unfilled(elems'[x].buckets)
    OBVIOUS
  <2>1. Unfilled(elems[x].buckets) /\ Unfilled(elems[e].buckets)
    BY <1>7 DEF Inv, Caches
  <2>2. CASE x = e
    BY <1>7, <2>1, <2>2, UnfilledShape
  <2>3. CASE x # e
    BY <1>7, <2>1, <2>3
  <2> QED BY <2>2, <2>3
<1>12. Caches'
  BY <1>11 DEF Inv, Caches
<1>13. Showing'
  <2> SUFFICES ASSUME ~readopted, cache = theme, NEW x \in DOMAIN elems'
               PROVE  Shown(elems'[x].buckets, value'[x], state)
    BY DEF Showing
  <2>1. CASE cache = NoTheme
    BY <1>11, <2>1, UnfilledShown
  <2>2. CASE cache # NoTheme /\ x = e
    BY <1>7, <2>2
  <2>3. CASE x # e
    <3>1. elems'[x] = elems[x] /\ value'[x] = value[x]
      BY <1>7, <2>3, ElemFacts DEF Inv
    <3> QED BY <3>1, <1>7 DEF Inv, Showing
  <2> QED BY <2>1, <2>2, <2>3
<1> QED BY <1>6, <1>9, <1>10, <1>12, <1>13 DEF Inv

LEMMA ReapplyTop ==
  ASSUME Inv, Waits("reapply", "value")
  PROVE  /\ stack # <<>> /\ Top \in ReapplyFrame
         /\ Top.theme \in Themes /\ Top.gen \in Nat /\ Top.bucket \in Nat \ {0}
         /\ Top.property \in Properties /\ Top.id \in Elements /\ Top.styles \in SUBSET StateNames
<1>1. stack # <<>> /\ Top.kind = "reapply"
  BY DEF Waits
<1>2. Top \in Frame
  BY <1>1, StackFacts DEF Inv
<1> QED BY <1>1, <1>2 DEF Frame, ReportFrame, ReapplyFrame

LEMMA ReapplyEndsStep ==
  ASSUME Inv, ReapplyEnds
  PROVE  Inv'
<1>1. /\ Waits("reapply", "value") /\ stack' = Pop
      /\ UNCHANGED <<theme, installed, clean, cache, generation, shell, state, reports, lost,
                     seen, readopted>>
  BY DEF ReapplyEnds, history
<1>2. /\ stack # <<>> /\ Top.theme \in Themes /\ Top.gen \in Nat /\ Top.bucket \in Nat \ {0}
      /\ Top.property \in Properties /\ Top.id \in Elements /\ Top.styles \in SUBSET StateNames
  BY <1>1, ReapplyTop
<1>3. CASE ~StillThere(Top)
  <2>1. UNCHANGED <<elems, value, consumers>>
    BY <1>3 DEF ReapplyEnds
  <2>2. Len(Pop) = Len(stack) - 1 /\ Len(stack) \in Nat
    BY <1>2, StackFacts DEF Inv
  <2>3. \A d \in 1..Len(Pop) : StillBuilding(d)
    BY <1>1, <2>1, <2>2, Untouched
  <2>4. stack' \in Seq(Frame) /\ Frames' /\ Succession'
    BY <1>1, <1>2, <2>3, FramesPop DEF Inv
  <2>5. Types' /\ Elems' /\ Bare'
    BY <1>1, <2>1, <2>4, Untouched DEF Inv, Types
  <2>6. Caches' /\ Showing'
    BY <1>1, <2>1 DEF Inv, Caches, Showing
  <2> QED BY <2>4, <2>5, <2>6 DEF Inv
<1>4. CASE StillThere(Top)
  <2> DEFINE e == Top.id
             p == Top.property
             i == Top.bucket
             old == elems[e].buckets
             prop == old[i].props[p]
             New(found) == [s \in (DOMAIN prop.values \ Top.styles) \cup found |->
                              IF s \in found THEN Themed(Top.theme, Top.gen) ELSE prop.values[s]]
             Updated(found) == [prop EXCEPT !.dynamic = Top.styles, !.values = New(found)]
             R(found) == Applied(Put(old, i, p, Updated(found)), {i}, value[e], state)
  <2>1. PICK found \in SUBSET Top.styles :
          /\ elems' = Changed(e, R(found).buckets)
          /\ value' = [value EXCEPT ![e] = R(found).row]
          /\ consumers' = consumers \cup {<<e, p>>}
    BY <1>4 DEF ReapplyEnds, Changed
  <2> DEFINE new == New(found)
             updated == Updated(found)
             put == Put(old, i, p, updated)
             r == R(found)
  <2>2. /\ e \in DOMAIN elems /\ elems[e].gen = Top.gen /\ cache = Top.theme /\ theme = Top.theme
        /\ i <= Len(old) /\ p \in DOMAIN old[i].props
    BY <1>4 DEF StillThere, Current
  <2> HIDE DEF e, p, i, New
  <2>3. /\ Whole(old, Top.gen, value[e], seen[e]) /\ old \in Seq(Bucket)
        /\ Single(old) /\ Owned(old, Top.gen)
        /\ Quiet(old) \/ Wired(old)
    BY <2>2 DEF Inv, Elems, Whole
  <2>4. i \in 1..Len(old) /\ p \in Properties /\ e \in Elements
    <3>1. Len(old) \in Nat /\ i \in Nat /\ i # 0
      BY <2>3, <1>2 DEF i
    <3> QED BY <3>1, <2>2, <1>2 DEF p, e
  <2>5. /\ prop \in PropertyState /\ prop.values \in [DOMAIN prop.values -> Themes \X Nat]
        /\ DOMAIN prop.values \subseteq StateNames
        /\ \A s \in DOMAIN prop.values : prop.values[s][2] = Top.gen
    BY <2>2, <2>3, <2>4, BucketFacts DEF Owned
  <2>6. /\ new \in Partial(StateNames, Themes \X Nat)
        /\ \A s \in DOMAIN new : new[s][2] = Top.gen
    <3>1. /\ DOMAIN new \subseteq StateNames
          /\ new = [s \in DOMAIN new |-> new[s]]
          /\ \A s \in DOMAIN new : new[s] = Themed(Top.theme, Top.gen)
                                   \/ (s \in DOMAIN prop.values /\ new[s] = prop.values[s])
      BY <2>5, <1>2 DEF New
    <3>2. Themed(Top.theme, Top.gen) \in Themes \X Nat /\ Themed(Top.theme, Top.gen)[2] = Top.gen
      BY <1>2 DEF Themed
    <3>3. \A s \in DOMAIN new : new[s] \in Themes \X Nat /\ new[s][2] = Top.gen
      BY <3>1, <3>2, <2>5
    <3> HIDE DEF new
    <3>4. new \in [DOMAIN new -> Themes \X Nat]
      BY <3>1, <3>3
    <3> QED BY <3>1, <3>3, <3>4, PartialMember
  <2>7. /\ updated \in PropertyState /\ updated.values = new
        /\ updated.applied = prop.applied /\ updated.original = prop.original
        /\ updated.last = prop.last /\ updated.watch = prop.watch
    <3> HIDE DEF prop
    <3> QED BY <2>5, <2>6, <1>2 DEF PropertyState
  <2> HIDE DEF updated, old
  <2>8. \A j \in Holding(old, p) : j = i
    <3>1. i \in Holding(old, p)
      BY <2>2, <2>4, HoldingFacts DEF old
    <3> QED BY <3>1, <2>3, <2>4, HoldingFacts DEF Single
  <2>9. Whole(put, Top.gen, value[e], seen[e])
    <3>1. p \in DOMAIN old[i].props /\ prop = old[i].props[p]
      BY <2>2 DEF old
    <3>2. \A s \in DOMAIN updated.values : updated.values[s][2] = Top.gen
      BY <2>6, <2>7
    <3>3. IF p \in DOMAIN old[i].props
          THEN updated.applied => /\ old[i].props[p].applied
                                  /\ updated.original = old[i].props[p].original
                                  /\ updated.last = old[i].props[p].last
          ELSE ~updated.applied
      BY <2>7, <3>1
    <3>4. p \in DOMAIN old[i].props /\ old[i].props[p].applied => updated.applied
      BY <2>7, <3>1
    <3> QED BY <2>3, <2>4, <2>7, <2>8, <3>2, <3>3, <3>4, PutWhole
  <2>10. SameShape(put, old)
    <3>1. /\ Len(put) = Len(old)
          /\ \A j \in 1..Len(old) :
               /\ put[j].group = old[j].group /\ put[j].watch = old[j].watch
               /\ j # i => put[j] = old[j]
          /\ DOMAIN put[i].props = DOMAIN old[i].props \cup {p}
          /\ put[i].props[p] = updated
          /\ \A q \in DOMAIN old[i].props : q # p => put[i].props[q] = old[i].props[q]
      BY <2>3, <2>4, <2>7, PutFacts
    <3>2. p \in DOMAIN old[i].props /\ updated.watch = old[i].props[p].watch
      BY <2>2, <2>7 DEF old
    <3> HIDE DEF put
    <3> QED BY <3>1, <3>2 DEF SameShape
  <2>11. r = Applied(put, {i}, value[e], state)
    BY DEF updated, old
  <2> HIDE DEF put, r
  <2>12. value[e] \in Row /\ put \in Seq(Bucket) /\ Len(put) = Len(old)
         /\ {i} \in SUBSET (1..Len(put)) /\ Single(put) /\ Remembers(put)
    BY <2>4, <2>9, <2>10, RowFacts DEF Inv, Whole, SameShape
  <2>13. AppliedTo(r, put, {i}, value[e], state)
    BY <2>11, <2>12, AppliedFacts
  <2>14. Whole(r.buckets, Top.gen, r.row, seen[e])
    BY <2>9, <2>11, <2>12, AppliedWhole
  <2>15. SameShape(r.buckets, old)
    BY <2>10, <2>13, ShapeTransitive DEF AppliedTo
  <2>16. ~readopted /\ cache = theme /\ cache # NoTheme => Shown(r.buckets, r.row, state)
    <3> SUFFICES ASSUME ~readopted, cache = theme,
                        NEW j \in 1..Len(r.buckets), NEW q \in DOMAIN r.buckets[j].props,
                        r.buckets[j].props[q].watch # 0
                 PROVE  Shows(r.buckets, j, q, r.row, state)
      BY DEF Shown
    <3>1. CASE j = i
      <4>1. q \in DOMAIN put[j].props
        BY <2>13, <3>1 DEF AppliedTo, SameShape
      <4> QED BY <3>1, <4>1, <2>9, <2>11, <2>12, AppliedShows
    <3>2. CASE j # i
      <4>1. j \in 1..Len(old) /\ j \in 1..Len(put) /\ q \in DOMAIN old[j].props
            /\ r.buckets[j] = put[j] /\ put[j] = old[j]
        <5>1. j \in 1..Len(old) /\ j \in 1..Len(put)
          BY <2>12, <2>13 DEF AppliedTo, SameShape
        <5>2. r.buckets[j] = put[j]
          BY <5>1, <2>13, <3>2 DEF AppliedTo
        <5>3. put[j] = old[j]
          BY <5>1, <3>2, <2>3, <2>4, <2>7, PutFacts DEF put
        <5> QED BY <5>1, <5>2, <5>3
      <4>2. Shows(old, j, q, value[e], state)
        BY <4>1, <2>2 DEF Inv, Showing, Shown, old
      <4>3. q \in Properties
        BY <4>1, <2>3, BucketFacts
      <4>4. r.row[q] = value[e][q]
        <5>1. j \in Holding(put, q)
          BY <4>1, HoldingFacts
        <5>2. i \notin Holding(put, q)
          BY <5>1, <4>1, <4>3, <2>4, <2>12, <3>2 DEF Single
        <5> QED BY <5>2, <4>3, <2>13 DEF AppliedTo
      <4> QED BY <4>1, <4>2, <4>4 DEF Shows
    <3> QED BY <3>1, <3>2
  <2>17. /\ elems' = Changed(e, r.buckets)
         /\ value' = [value EXCEPT ![e] = r.row]
         /\ consumers' = consumers \cup {<<e, p>>}
    BY <2>1 DEF r
  <2>18. /\ value' \in [Elements -> Row] /\ value'[e] = r.row
         /\ \A x \in Elements : x # e => value'[x] = value[x]
    BY <2>4, <2>13, <2>17 DEF Inv, Types, AppliedTo
  <2>19. consumers' \subseteq Elements \X Properties /\ shell' \in [Elements -> Writes]
         /\ seen' \in [Elements -> Writes] /\ \A x \in Elements : x # e => seen'[x] = seen[x]
    BY <1>1, <2>4, <2>17 DEF Inv, Types
  <2>20. Whole(r.buckets, elems[e].gen, value'[e], seen'[e])
    BY <1>1, <2>2, <2>14, <2>18
  <2>21. ~readopted /\ cache = theme /\ cache # NoTheme => Shown(r.buckets, value'[e], state)
    BY <2>16, <2>18
  <2>22. SameShape(r.buckets, elems[e].buckets)
    BY <2>15 DEF old
  <2> HIDE DEF old
  <2>23. e \in DOMAIN elems
    BY <2>2
  <2> QED BY <1>1, <1>2, <2>17, <2>18, <2>19, <2>20, <2>21, <2>22, <2>23, ShapeKeptStep
<1> QED BY <1>3, <1>4

-----------------------------------------------------------------------------
LEMMA ElementRemovedStep ==
  ASSUME Inv, NEW e \in Elements, ElementRemoved(e)
  PROVE  Inv'
<1>1. /\ UNCHANGED <<theme, installed, clean, cache, generation, shell, state, reports, stack,
                     lost, seen, readopted>>
      /\ consumers' = {c \in consumers : c[1] # e}
      /\ value' = [value EXCEPT ![e] = RestoredRow(e)]
      /\ elems' = Without(elems, e)
  BY DEF ElementRemoved, history
<1>2. /\ RestoredRow(e) \in Row
      /\ \A p \in Properties : RestoredRow(e)[p] = Shell(seen[e][p])
  BY RestoredFacts DEF Inv
<1>3. /\ elems' \in Partial(Elements, Element) /\ value' \in [Elements -> Row]
      /\ Elems' /\ Bare' /\ DOMAIN elems' = DOMAIN elems \ {e}
      /\ \A x \in DOMAIN elems' : elems'[x] = elems[x] /\ value'[x] = value[x]
  <2>1. Types /\ Elems /\ Bare
    BY DEF Inv
  <2> QED BY <1>1, <1>2, <2>1, ElementGone
<1>4. Types'
  BY <1>1, <1>3 DEF Inv, Types
<1>5. Frames' /\ Succession'
  <2>1. \A d \in 1..Len(stack) : StillBuilding(d)
    BY <1>3 DEF Inv, Frames, FrameOK, StillBuilding, Owns
  <2> QED BY <1>1, <2>1, FramesKept DEF Inv
<1>6. Caches'
  BY <1>1, <1>3 DEF Inv, Caches
<1>7. Showing'
  BY <1>1, <1>3 DEF Inv, Showing
<1> QED BY <1>3, <1>4, <1>5, <1>6, <1>7 DEF Inv

-----------------------------------------------------------------------------
(* The group changes state.                                                 *)
LEMMA ReactingShows ==
  ASSUME NEW bs, NEW g, NEW row \in Row, NEW w, Whole(bs, g, row, w),
         Quiet(bs) \/ Wired(bs), NEW t, Shown(bs, row, t),
         NEW chosen \in SUBSET (1..Len(bs)), NEW s,
         \A i \in 1..Len(bs) \ chosen : bs[i].watch = 0 \/ bs[i].group = "none"
  PROVE  LET r == Applied(bs, chosen, row, s) IN Shown(r.buckets, r.row, s)
<1> DEFINE r == Applied(bs, chosen, row, s)
<1>1. bs \in Seq(Bucket) /\ Single(bs) /\ Remembers(bs)
  BY DEF Whole
<1>2. AppliedTo(r, bs, chosen, row, s)
  BY <1>1, AppliedFacts
<1> SUFFICES ASSUME NEW i \in 1..Len(r.buckets), NEW p \in DOMAIN r.buckets[i].props,
                    r.buckets[i].props[p].watch # 0
             PROVE  Shows(r.buckets, i, p, r.row, s)
  BY DEF Shown
<1>3. i \in 1..Len(bs) /\ p \in DOMAIN bs[i].props /\ bs[i].props[p].watch # 0
  <2> HIDE DEF r
  <2> QED BY <1>2 DEF AppliedTo, SameShape
<1>4. CASE i \in chosen
  BY <1>3, <1>4, AppliedShows
<1>5. CASE i \notin chosen
  <2>1. bs[i].group = "none"
    BY <1>3, <1>5 DEF Quiet, Wired
  <2>2. Shows(bs, i, p, row, t)
    BY <1>3 DEF Shown
  <2>3. p \in Properties
    BY <1>1, <1>3, BucketFacts
  <2> HIDE DEF r
  <2>4. r.buckets[i] = bs[i]
    BY <1>2, <1>3, <1>5 DEF AppliedTo
  <2>5. r.row[p] = row[p]
    <3>1. \A j \in chosen : j \notin Holding(bs, p)
      BY <1>1, <1>3, <1>5, <2>3, HoldingFacts DEF Single
    <3> QED BY <3>1, <2>3, <1>2 DEF AppliedTo
  <2> QED BY <2>1, <2>2, <2>4, <2>5 DEF Shows, StateOf
<1> QED BY <1>4, <1>5

LEMMA StateChangesStep ==
  ASSUME Inv, NEW s \in States, StateChanges(s)
  PROVE  Inv'
<1>1. /\ UNCHANGED <<theme, installed, clean, cache, generation, consumers, shell, reports, stack,
                     lost, seen, readopted>>
      /\ state' = s
  BY DEF StateChanges, history
<1>2. CASE cache = NoTheme \/ cache # theme
  <2>1. UNCHANGED <<elems, value>>
    BY <1>2 DEF StateChanges
  <2>2. Types' /\ Elems' /\ Bare' /\ Frames' /\ Succession'
    BY <1>1, <2>1, Untouched, FramesKept DEF Inv, Types
  <2>3. Caches'
    BY <1>1, <2>1 DEF Inv, Caches
  <2>4. Showing'
    <3> SUFFICES ASSUME cache = theme, NEW x \in DOMAIN elems
                 PROVE  Shown(elems[x].buckets, value[x], s)
      BY <1>1, <2>1 DEF Showing
    <3>1. Unfilled(elems[x].buckets)
      BY <1>2 DEF Inv, Caches
    <3> QED BY <3>1, UnfilledShown
  <2> QED BY <2>2, <2>3, <2>4 DEF Inv
<1>3. CASE cache # NoTheme /\ cache = theme
  <2> DEFINE R(x) == Applied(elems[x].buckets, Reacting(x), value[x], s)
  <2>1. /\ elems' = [x \in DOMAIN elems |-> [elems[x] EXCEPT !.buckets = R(x).buckets]]
        /\ value' = [x \in Elements |-> IF x \in DOMAIN elems THEN R(x).row ELSE value[x]]
    BY <1>3 DEF StateChanges
  <2>2. ASSUME NEW x \in DOMAIN elems
        PROVE  /\ Whole(R(x).buckets, elems[x].gen, R(x).row, seen[x])
               /\ SameShape(R(x).buckets, elems[x].buckets)
               /\ R(x).row \in Row /\ R(x).buckets \in Seq(Bucket)
               /\ ~readopted => Shown(R(x).buckets, R(x).row, s)
    <3> DEFINE bs == elems[x].buckets
    <3>1. /\ Whole(bs, elems[x].gen, value[x], seen[x]) /\ bs \in Seq(Bucket)
          /\ Single(bs) /\ Remembers(bs)
          /\ Quiet(bs) \/ Wired(bs)
      BY DEF Inv, Elems, Whole
    <3>2. value[x] \in Row
      BY ElemFacts, RowFacts DEF Inv
    <3>3. /\ Reacting(x) \in SUBSET (1..Len(bs))
          /\ \A i \in 1..Len(bs) \ Reacting(x) : bs[i].watch = 0 \/ bs[i].group = "none"
      BY DEF Reacting
    <3>4. ~readopted => Shown(bs, value[x], state)
      BY <1>3 DEF Inv, Showing
    <3> HIDE DEF bs
    <3>5. AppliedTo(Applied(bs, Reacting(x), value[x], s), bs, Reacting(x), value[x], s)
      BY <3>1, <3>2, <3>3, AppliedFacts
    <3> DEFINE r == Applied(bs, Reacting(x), value[x], s)
               chosen == Reacting(x)
               row == value[x]
               g == elems[x].gen
    <3>10. /\ Whole(bs, g, row, seen[x]) /\ row \in Row /\ chosen \in SUBSET (1..Len(bs))
           /\ r = Applied(bs, chosen, row, s)
           /\ \A i \in 1..Len(bs) \ chosen : bs[i].watch = 0 \/ bs[i].group = "none"
           /\ ~readopted => Shown(bs, row, state)
      BY <3>1, <3>2, <3>3, <3>4
    <3> HIDE DEF r, chosen, row, g
    <3>6. Whole(r.buckets, g, r.row, seen[x])
      BY <3>10, AppliedWhole
    <3>7. ~readopted => Shown(r.buckets, r.row, s)
      BY <3>1, <3>10, ReactingShows
    <3>8. R(x) = Applied(bs, Reacting(x), value[x], s)
      BY DEF bs
    <3> HIDE DEF R
    <3>9. SameShape(R(x).buckets, bs) /\ R(x).row \in Row /\ R(x).buckets \in Seq(Bucket)
      BY <3>5, <3>8 DEF AppliedTo
    <3> QED BY <3>6, <3>7, <3>8, <3>9 DEF bs, r, g
  <2> HIDE DEF R
  <2>3. /\ DOMAIN elems \subseteq Elements /\ value \in [Elements -> Row]
        /\ DOMAIN elems' = DOMAIN elems
        /\ elems' = [x \in DOMAIN elems' |-> elems'[x]]
    BY <2>1, PartialFacts DEF Inv, Types
  <2>4. ASSUME NEW x \in DOMAIN elems
        PROVE  /\ elems'[x].gen = elems[x].gen /\ elems'[x].buckets = R(x).buckets
               /\ elems'[x].node = elems[x].node
               /\ elems'[x] \in Element /\ value'[x] = R(x).row
    <3>1. elems'[x] = [elems[x] EXCEPT !.buckets = R(x).buckets] /\ value'[x] = R(x).row
      BY <2>1, <2>3
    <3>2. elems[x] \in Element
      BY ElemFacts DEF Inv
    <3> QED BY <3>1, <3>2, <2>2 DEF Element
  <2>5. elems' \in Partial(Elements, Element)
    <3>1. elems' \in [DOMAIN elems' -> Element]
      BY <2>3, <2>4
    <3> QED BY <3>1, <2>3, PartialMember
  <2>6. value' \in [Elements -> Row]
    BY <2>1, <2>2, <2>3
  <2>7. Types'
    BY <1>1, <2>5, <2>6 DEF Inv, Types
  <2>8. ASSUME NEW x \in DOMAIN elems
        PROVE  /\ Quiet(elems'[x].buckets) \/ Wired(elems'[x].buckets)
               /\ Quiet(elems[x].buckets) => Quiet(elems'[x].buckets)
    <3>1. Quiet(elems[x].buckets) \/ Wired(elems[x].buckets)
      BY DEF Inv, Elems
    <3>2. SameShape(elems'[x].buckets, elems[x].buckets)
      BY <2>2, <2>4
    <3> QED BY <3>1, <3>2, ShapeWatched
  <2>9. Elems'
    <3> SUFFICES ASSUME NEW x \in DOMAIN elems'
                 PROVE  /\ elems'[x].gen \in 1..generation'
                        /\ Whole(elems'[x].buckets, elems'[x].gen, value'[x], seen'[x])
                        /\ Quiet(elems'[x].buckets) \/ Wired(elems'[x].buckets)
      BY DEF Elems, Whole, Single, Owned, Remembers, Keeps, Quiet, Wired, Holding, Shell
    <3>1. x \in DOMAIN elems
      BY <2>3
    <3>2. elems[x].gen \in 1..generation
      BY <3>1 DEF Inv, Elems
    <3> QED BY <1>1, <2>2, <2>4, <2>8, <3>1, <3>2
  <2>10. Bare'
    <3>1. \A x \in Elements : x \notin DOMAIN elems => value'[x] = value[x]
      BY <2>1
    <3> QED BY <1>1, <2>3, <3>1 DEF Inv, Bare
  <2>11. Frames' /\ Succession'
    <3>1. \A d \in 1..Len(stack) : StillBuilding(d)
      BY <2>2, <2>3, <2>4, FramesShape DEF Inv
    <3> QED BY <1>1, <3>1, FramesKept DEF Inv
  <2>12. Caches'
    BY <1>1, <1>3 DEF Inv, Caches
  <2>13. Showing'
    <3> SUFFICES ASSUME ~readopted, NEW x \in DOMAIN elems
                 PROVE  Shown(elems'[x].buckets, value'[x], s)
      BY <1>1, <2>3 DEF Showing
    <3> QED BY <2>2, <2>4
  <2> QED BY <2>7, <2>9, <2>10, <2>11, <2>12, <2>13 DEF Inv
<1> QED BY <1>2, <1>3

-----------------------------------------------------------------------------
(* The shell writes a property.  What it writes is never a value of ours.   *)
LEMMA ShellIsNotOurs ==
  ASSUME NEW n \in Nat
  PROVE  Shell(n) \in Values /\ Shell(n) \notin Themes \X Nat
BY MaxThemeType DEF Shell, Values, Themes

LEMMA WatchingFacts ==
  ASSUME Inv, NEW e, NEW p \in Properties, e \in DOMAIN elems
  PROVE  LET bs == elems[e].buckets IN
         /\ \A i \in Watching(e, p) :
              /\ i \in 1..Len(bs) /\ p \in DOMAIN bs[i].props /\ bs[i].props[p].applied
              /\ \A j \in Holding(bs, p) : j = i
         /\ Wired(bs) => Watching(e, p) = Customized(e, p)
<1> DEFINE bs == elems[e].buckets
<1>1. bs \in Seq(Bucket) /\ Single(bs)
  BY DEF Inv, Elems, Whole
<1>2. Customized(e, p) = {i \in Holding(bs, p) : bs[i].props[p].applied}
  BY DEF Customized
<1>3. Watching(e, p) = {i \in Customized(e, p) :
                          \/ <<e, p, i>> \in lostWatches
                          \/ \E j \in Holding(bs, p) : bs[j].props[p].watch = i}
  BY DEF Watching
<1> HIDE DEF bs
<1>4. \A i, j \in Holding(bs, p) : i = j
  BY <1>1 DEF Single
<1>5. ASSUME NEW i \in Watching(e, p)
      PROVE  /\ i \in 1..Len(bs) /\ p \in DOMAIN bs[i].props /\ bs[i].props[p].applied
             /\ \A j \in Holding(bs, p) : j = i
  <2>1. i \in Holding(bs, p) /\ bs[i].props[p].applied
    BY <1>2, <1>3
  <2> QED BY <2>1, <1>4, HoldingFacts
<1>6. Wired(bs) => Watching(e, p) = Customized(e, p)
  BY <1>2, <1>3, HoldingFacts DEF Wired
<1> QED BY <1>5, <1>6 DEF bs

(* The watch honours the write: the new value becomes the original.         *)
LEMMA HonouredWhole ==
  ASSUME NEW bs, NEW g, NEW row \in Row, NEW w \in Writes, Whole(bs, g, row, w),
         NEW i \in 1..Len(bs), NEW p \in Properties, p \in DOMAIN bs[i].props,
         \A j \in Holding(bs, p) : j = i, bs[i].props[p].applied,
         NEW prop \in PropertyState, prop.values = bs[i].props[p].values, prop.applied,
         prop.last \in Themes \X Nat, NEW n \in Nat, prop.original = Shell(n),
         NEW v \in Values
  PROVE  Whole(Put(bs, i, p, prop), g, [row EXCEPT ![p] = v], [w EXCEPT ![p] = n])
<1> DEFINE new == Put(bs, i, p, prop)
           row2 == [row EXCEPT ![p] = v]
           w2 == [w EXCEPT ![p] = n]
<1>0. bs \in Seq(Bucket) /\ Single(bs) /\ Owned(bs, g) /\ Remembers(bs)
  BY DEF Whole
<1>1. /\ new \in Seq(Bucket) /\ Len(new) = Len(bs)
      /\ \A j \in 1..Len(bs) :
           /\ new[j].group = bs[j].group
           /\ j # i => new[j] = bs[j]
      /\ DOMAIN new[i].props = DOMAIN bs[i].props \cup {p}
      /\ new[i].props[p] = prop
      /\ \A q \in DOMAIN bs[i].props : q # p => new[i].props[q] = bs[i].props[q]
  BY <1>0, PutFacts
<1>2. /\ \A q \in Properties : q # p => row2[q] = row[q] /\ w2[q] = w[q]
      /\ w2[p] = n
  BY DEF Row, Writes
<1> HIDE DEF new, row2, w2
<1>3. \A q \in Properties : Holding(new, q) = Holding(bs, q)
  BY <1>1 DEF Holding
<1>4. Single(new)
  BY <1>0, <1>1, <1>3 DEF Single
<1>5. \A j \in 1..Len(bs) : \A q \in DOMAIN new[j].props :
        q \in DOMAIN bs[j].props /\ ((j # i \/ q # p) => new[j].props[q] = bs[j].props[q])
  BY <1>1
<1>6. Owned(new, g)
  <2>1. \A j \in 1..Len(bs) : \A q \in DOMAIN new[j].props :
          new[j].props[q].values = bs[j].props[q].values
    BY <1>1, <1>5
  <2> QED BY <1>0, <1>1, <1>5, <2>1 DEF Owned
<1>7. Remembers(new)
  <2>1. Shell(n) \in Values
    BY ShellIsNotOurs
  <2> QED BY <1>0, <1>1, <1>5, <2>1 DEF Remembers
<1>8. Keeps(new, row2, w2)
  <2>1. Keeps(bs, row, w)
    BY DEF Whole
  <2> SUFFICES ASSUME NEW q \in Properties
               PROVE  /\ \A j \in Holding(new, q) :
                           new[j].props[q].applied => new[j].props[q].original = Shell(w2[q])
                      /\ (\A j \in Holding(new, q) : ~new[j].props[q].applied)
                           => row2[q] = Shell(w2[q])
    BY DEF Keeps
  <2>2. CASE q = p
    <3>1. i \in Holding(new, p)
      BY <1>1, HoldingFacts
    <3> QED BY <2>2, <3>1, <1>1, <1>2, <1>3
  <2>3. CASE q # p
    <3>1. \A j \in Holding(new, q) : new[j].props[q] = bs[j].props[q]
      BY <2>3, <1>1, <1>5, HoldingFacts
    <3> QED BY <2>3, <3>1, <2>1, <1>2, <1>3 DEF Keeps
  <2> QED BY <2>2, <2>3
<1> QED BY <1>1, <1>4, <1>6, <1>7, <1>8 DEF Whole, new, row2, w2

(* We do not hold the property: the value is the shell's.                   *)
LEMMA UnheldWhole ==
  ASSUME NEW bs, NEW g, NEW row \in Row, NEW w \in Writes, Whole(bs, g, row, w),
         NEW p \in Properties, NEW n \in Nat,
         \A i \in Holding(bs, p) : ~bs[i].props[p].applied
  PROVE  Whole(bs, g, [row EXCEPT ![p] = Shell(n)], [w EXCEPT ![p] = n])
<1> DEFINE row2 == [row EXCEPT ![p] = Shell(n)]
           w2 == [w EXCEPT ![p] = n]
<1>1. /\ \A q \in Properties : q # p => row2[q] = row[q] /\ w2[q] = w[q]
      /\ w2[p] = n /\ row2[p] = Shell(n)
  BY DEF Row, Writes
<1> HIDE DEF row2, w2
<1>2. Keeps(bs, row2, w2)
  BY <1>1 DEF Whole, Keeps
<1> QED BY <1>2 DEF Whole, row2, w2

(* We hold it, but nobody watches: the value is not seen.                   *)
LEMMA HeldWhole ==
  ASSUME NEW bs, NEW g, NEW row \in Row, NEW w, Whole(bs, g, row, w),
         NEW p \in Properties, NEW v,
         \E i \in Holding(bs, p) : bs[i].props[p].applied
  PROVE  Whole(bs, g, [row EXCEPT ![p] = v], w)
<1> DEFINE row2 == [row EXCEPT ![p] = v]
<1>1. \A q \in Properties : q # p => row2[q] = row[q]
  BY DEF Row
<1> HIDE DEF row2
<1>2. Keeps(bs, row2, w)
  BY <1>1 DEF Whole, Keeps
<1> QED BY <1>2 DEF Whole, row2

LEMMA WrittenTypes ==
  ASSUME Inv, NEW e \in Elements, NEW p \in Properties, NEW v \in Values,
         shell' = [shell EXCEPT ![e][p] = @ + 1], value' = [value EXCEPT ![e][p] = v]
  PROVE  /\ shell' \in [Elements -> Writes] /\ value' \in [Elements -> Row]
         /\ value'[e] = [value[e] EXCEPT ![p] = v]
         /\ \A x \in Elements : x # e => value'[x] = value[x]
<1>1. /\ value \in [Elements -> Row] /\ shell \in [Elements -> Writes]
      /\ value[e] \in Row /\ shell[e] \in Writes /\ shell[e][p] \in Nat
  BY RowFacts DEF Inv, Types
<1>2. [shell[e] EXCEPT ![p] = shell[e][p] + 1] \in Writes
  BY <1>1 DEF Writes
<1>3. [value[e] EXCEPT ![p] = v] \in Row
  BY <1>1 DEF Row
<1> QED BY <1>1, <1>2, <1>3

LEMMA SeenTypes ==
  ASSUME Inv, NEW e \in Elements, NEW p \in Properties, NEW n \in Nat,
         seen' = [seen EXCEPT ![e][p] = n]
  PROVE  /\ seen' \in [Elements -> Writes]
         /\ seen'[e] = [seen[e] EXCEPT ![p] = n]
         /\ \A x \in Elements : x # e => seen'[x] = seen[x]
<1>1. seen \in [Elements -> Writes] /\ seen[e] \in Writes
  BY RowFacts DEF Inv, Types
<1>2. [seen[e] EXCEPT ![p] = n] \in Writes
  BY <1>1 DEF Writes
<1> QED BY <1>1, <1>2

(* No watch answers.                                                        *)
LEMMA WrittenUnwatched ==
  ASSUME Inv, NEW e \in Elements, NEW p \in Properties, ShellWrites(e, p),
         Watching(e, p) = {}
  PROVE  Inv'
<1> DEFINE n == shell[e][p] + 1
           now == Shell(n)
<1>1. /\ UNCHANGED <<theme, installed, clean, cache, generation, consumers, state, reports, stack,
                     lost, readopted>>
      /\ shell' = [shell EXCEPT ![e][p] = @ + 1]
      /\ seen' = IF Customized(e, p) # {} THEN seen ELSE [seen EXCEPT ![e][p] = n]
      /\ value' = [value EXCEPT ![e][p] = now] /\ elems' = elems
  BY DEF ShellWrites
<1>2. n \in Nat /\ now \in Values
  BY RowFacts, ShellIsNotOurs DEF Inv
<1>3. /\ shell' \in [Elements -> Writes] /\ value' \in [Elements -> Row]
      /\ value'[e] = [value[e] EXCEPT ![p] = now]
      /\ \A x \in Elements : x # e => value'[x] = value[x]
  <2> HIDE DEF now
  <2> QED BY <1>1, <1>2, WrittenTypes
<1> HIDE DEF n
<1>4. /\ seen' \in [Elements -> Writes] /\ \A x \in Elements : x # e => seen'[x] = seen[x]
      /\ Customized(e, p) = {} => seen'[e] = [seen[e] EXCEPT ![p] = n]
      /\ Customized(e, p) # {} => seen'[e] = seen[e]
  <2>1. CASE Customized(e, p) = {}
    BY <1>1, <1>2, <2>1, SeenTypes
  <2>2. CASE Customized(e, p) # {}
    BY <1>1, <2>2 DEF Inv, Types
  <2> QED BY <2>1, <2>2
<1>5. /\ value[e] \in Row /\ seen[e] \in Writes /\ value'[e][p] = now
      /\ \A q \in Properties : q # p => value'[e][q] = value[e][q]
  BY <1>3, RowFacts DEF Inv, Row
<1>6. CASE e \notin DOMAIN elems
  <2>1. DOMAIN elems \subseteq Elements
    BY PartialFacts DEF Inv, Types
  <2>2. \A x \in DOMAIN elems : x # e /\ value'[x] = value[x] /\ seen'[x] = seen[x]
    BY <1>3, <1>4, <1>6, <2>1
  <2>3. Types'
    BY <1>1, <1>3, <1>4 DEF Inv, Types
  <2>4. Elems'
    BY <1>1, <2>2 DEF Inv, Elems
  <2>5. Bare'
    <3>1. \A q \in Properties : value'[e][q] = Shell(seen'[e][q])
      <4>1. seen'[e] = [seen[e] EXCEPT ![p] = n]
        BY <1>4, <1>6 DEF Customized
      <4>2. seen'[e][p] = n /\ \A q \in Properties : q # p => seen'[e][q] = seen[e][q]
        BY <1>5, <4>1 DEF Writes
      <4> QED BY <1>5, <1>6, <4>2 DEF Inv, Bare
    <3> QED BY <1>1, <1>3, <1>4, <3>1 DEF Inv, Bare
  <2>6. Frames' /\ Succession'
    <3>1. \A d \in 1..Len(stack) : StillBuilding(d)
      BY <1>1 DEF Inv, Frames, FrameOK, StillBuilding
    <3> QED BY <1>1, <3>1, FramesKept DEF Inv
  <2>7. Caches'
    BY <1>1 DEF Inv, Caches
  <2>8. Showing'
    BY <1>1, <2>2 DEF Inv, Showing
  <2> QED BY <2>3, <2>4, <2>5, <2>6, <2>7, <2>8 DEF Inv
<1>7. CASE e \in DOMAIN elems
  <2> DEFINE bs == elems[e].buckets
             g == elems[e].gen
  <2>1. /\ Whole(bs, g, value[e], seen[e]) /\ bs \in Seq(Bucket)
        /\ Quiet(bs) \/ Wired(bs)
    BY <1>7 DEF Inv, Elems, Whole
  <2>2. Customized(e, p) = {i \in Holding(bs, p) : bs[i].props[p].applied}
    BY <1>7 DEF Customized
  <2>3. Wired(bs) => Customized(e, p) = {}
    BY <1>7, WatchingFacts
  <2>4. elems' = Changed(e, bs)
    BY <1>1, <1>7, SameElements DEF Inv
  <2>5. ~readopted /\ cache = theme => Shown(bs, value[e], state)
    BY <1>7 DEF Inv, Showing
  <2> HIDE DEF bs, g
  <2>6. Whole(bs, g, value'[e], seen'[e])
    <3>1. CASE Customized(e, p) = {}
      BY <1>2, <1>3, <1>4, <1>5, <2>1, <2>2, <3>1, UnheldWhole
    <3>2. CASE Customized(e, p) # {}
      <4>1. \E i \in Holding(bs, p) : bs[i].props[p].applied
        BY <2>2, <3>2
      <4> HIDE DEF now
      <4>2. Whole(bs, g, [value[e] EXCEPT ![p] = now], seen[e])
        BY ONLY <1>5, <2>1, <4>1, p \in Properties, HeldWhole
      <4>3. seen'[e] = seen[e]
        BY <1>4, <3>2
      <4> QED BY ONLY <1>3, <4>2, <4>3
    <3> QED BY <3>1, <3>2
  <2>9. ~readopted /\ cache = theme => Shown(bs, value'[e], state)
    <3> SUFFICES ASSUME ~readopted, cache = theme, NEW i \in 1..Len(bs),
                        NEW q \in DOMAIN bs[i].props, bs[i].props[q].watch # 0
                 PROVE  Shows(bs, i, q, value'[e], state)
      BY DEF Shown
    <3>1. Shows(bs, i, q, value[e], state)
      BY <2>5 DEF Shown
    <3>2. q \in Properties /\ i \in Holding(bs, q)
      BY <2>1, BucketFacts, HoldingFacts
    <3>3. CASE q # p
      BY <3>1, <3>2, <3>3, <1>5 DEF Shows
    <3>4. CASE q = p
      <4>1. Wired(bs)
        BY <2>1 DEF Quiet
      <4>2. ~bs[i].props[q].applied
        BY <2>2, <2>3, <3>2, <3>4, <4>1
      <4> QED BY <3>1, <4>2 DEF Shows
    <3> QED BY <3>3, <3>4
  <2>10. SameShape(bs, elems[e].buckets)
    BY DEF bs, SameShape
  <2>11. consumers' \subseteq Elements \X Properties
    BY <1>1 DEF Inv, Types
  <2>12. Whole(bs, elems[e].gen, value'[e], seen'[e])
    BY <2>6 DEF g
  <2> QED BY <1>1, <1>3, <1>4, <1>7, <2>4, <2>9, <2>10, <2>11, <2>12, ShapeKeptStep
<1> QED BY <1>6, <1>7

(* The watch answers: the write is kept as the original and, with the theme *)
(* in force, what the bucket picks is put back.                             *)
LEMMA WrittenWatched ==
  ASSUME Inv, NEW e \in Elements, NEW p \in Properties, ShellWrites(e, p),
         Watching(e, p) # {}
  PROVE  Inv'
<1> DEFINE n == shell[e][p] + 1
           now == Shell(n)
           old == elems[e].buckets
           g == elems[e].gen
           i == CHOOSE j \in Watching(e, p) : TRUE
           rec == old[i].props[p]
           prop == [rec EXCEPT !.original = Honoured(rec, now)]
           picked == IF cache # NoTheme /\ cache = theme
                     THEN Pick(prop, StateOf(old[i].group, state)) ELSE {}
           v == IF picked = {} THEN now ELSE CHOOSE x \in picked : TRUE
           new == IF picked = {} THEN prop ELSE [prop EXCEPT !.last = v]
           bs == Put(old, i, p, new)
<1>1. /\ UNCHANGED <<theme, installed, clean, cache, generation, consumers, state, reports, stack,
                     lost, readopted>>
      /\ shell' = [shell EXCEPT ![e][p] = @ + 1]
      /\ seen' = [seen EXCEPT ![e][p] = n]
      /\ value' = [value EXCEPT ![e][p] = v]
      /\ elems' = [elems EXCEPT ![e].buckets = Put(@, i, p, new)]
  BY DEF ShellWrites
<1>2. e \in DOMAIN elems
  BY DEF Watching, Customized
<1>3. elems' = Changed(e, bs)
  BY <1>1, <1>2 DEF Changed
<1>4. i \in Watching(e, p)
  OBVIOUS
<1> HIDE DEF i
<1>5. /\ i \in 1..Len(old) /\ p \in DOMAIN old[i].props /\ rec.applied
      /\ \A j \in Holding(old, p) : j = i
  BY <1>2, <1>4, WatchingFacts
<1>6. /\ Whole(old, g, value[e], seen[e]) /\ old \in Seq(Bucket) /\ Remembers(old)
      /\ Owned(old, g)
  BY <1>2 DEF Inv, Elems, Whole
<1>7. ~readopted /\ cache = theme => Shown(old, value[e], state)
  BY <1>2 DEF Inv, Showing
<1>8. /\ n \in Nat /\ value[e] \in Row /\ seen[e] \in Writes
  BY RowFacts DEF Inv
<1> HIDE DEF old, g, n
<1>9. rec \in PropertyState /\ rec.last \in Themes \X Nat
  BY <1>5, <1>6, BucketFacts DEF Remembers
<1>10. now \in Values /\ now # rec.last
  BY <1>8, <1>9, ShellIsNotOurs
<1>11. Honoured(rec, now) = now
  BY <1>10 DEF Honoured
<1> HIDE DEF rec, now
<1>12. /\ prop \in PropertyState /\ prop.values = rec.values /\ prop.applied
       /\ prop.original = now /\ prop.last = rec.last /\ prop.watch = rec.watch
  BY <1>5, <1>9, <1>10, <1>11 DEF PropertyState
<1> HIDE DEF prop
<1>13. ASSUME picked # {}
       PROVE  /\ v \in Themes \X Nat /\ v \in picked
              /\ picked = Pick(rec, StateOf(old[i].group, state))
  <2>1. v \in picked /\ picked = Pick(prop, StateOf(old[i].group, state))
    BY <1>13
  <2>2. v \in Themes \X Nat
    <3> HIDE DEF v, picked
    <3> QED BY <1>12, <2>1, PickFacts
  <2>3. picked = Pick(rec, StateOf(old[i].group, state))
    BY <1>12, <2>1 DEF Pick
  <2> QED BY <2>1, <2>2, <2>3
<1>14. v \in Values
  BY <1>10, <1>13, MaxThemeType DEF Values, Themes
<1>15. picked = {} => v = now /\ new = prop
  OBVIOUS
<1>16. picked # {} => new = [prop EXCEPT !.last = v]
  OBVIOUS
<1>17. cache # NoTheme /\ cache = theme => picked = Pick(prop, StateOf(old[i].group, state))
  OBVIOUS
<1> HIDE DEF v, new, picked
<1>18. /\ new \in PropertyState /\ new.values = rec.values /\ new.applied
       /\ new.original = now /\ new.last \in Themes \X Nat /\ new.watch = rec.watch
  <2>1. CASE picked = {}
    BY <2>1, <1>9, <1>12, <1>15
  <2>2. CASE picked # {}
    <3>1. new = [prop EXCEPT !.last = v] /\ v \in Themes \X Nat
      BY <2>2, <1>13, <1>16
    <3>2. v \in Values
      BY <1>14
    <3> QED BY <3>1, <3>2, <1>12 DEF PropertyState
  <2> QED BY <2>1, <2>2
<1>19. /\ bs \in Seq(Bucket) /\ Len(bs) = Len(old)
       /\ \A j \in 1..Len(old) :
            /\ bs[j].group = old[j].group /\ bs[j].watch = old[j].watch
            /\ j # i => bs[j] = old[j]
       /\ DOMAIN bs[i].props = DOMAIN old[i].props \cup {p}
       /\ bs[i].props[p] = new
       /\ \A q \in DOMAIN old[i].props : q # p => bs[i].props[q] = old[i].props[q]
  BY <1>5, <1>6, <1>18, PutFacts
<1>20. /\ shell' \in [Elements -> Writes] /\ value' \in [Elements -> Row]
       /\ value'[e] = [value[e] EXCEPT ![p] = v]
       /\ \A x \in Elements : x # e => value'[x] = value[x]
  BY <1>1, <1>14, WrittenTypes
<1>26. /\ seen' \in [Elements -> Writes]
       /\ seen'[e] = [seen[e] EXCEPT ![p] = n]
       /\ \A x \in Elements : x # e => seen'[x] = seen[x]
  BY <1>1, <1>8, SeenTypes
<1>21. Whole(bs, g, value'[e], seen'[e])
  <2>1. new.values = old[i].props[p].values /\ new.original = Shell(n) /\ old[i].props[p].applied
    BY <1>5, <1>18 DEF rec, now
  <2> QED BY <1>5, <1>6, <1>8, <1>14, <1>18, <1>20, <1>26, <2>1, HonouredWhole
<1> HIDE DEF bs
<1>22. SameShape(bs, old)
  <2>1. new.watch = old[i].props[p].watch
    BY <1>18 DEF rec
  <2> QED BY <1>5, <1>19, <2>1 DEF SameShape
<1>23. ~readopted /\ cache = theme /\ cache # NoTheme => Shown(bs, value'[e], state)
  <2> SUFFICES ASSUME ~readopted, cache = theme, cache # NoTheme, NEW j \in 1..Len(bs),
                      NEW q \in DOMAIN bs[j].props, bs[j].props[q].watch # 0
               PROVE  Shows(bs, j, q, value'[e], state)
    BY DEF Shown
  <2>1. j \in 1..Len(old) /\ q \in DOMAIN old[j].props /\ old[j].props[q].watch # 0
    BY <1>22 DEF SameShape
  <2>2. Shows(old, j, q, value[e], state)
    BY <1>7, <2>1 DEF Shown
  <2>3. q \in Properties /\ j \in Holding(old, q)
    BY <1>6, <2>1, BucketFacts, HoldingFacts
  <2>4. CASE q = p
    <3>1. j = i
      BY <1>5, <2>3, <2>4
    <3>2. picked = Pick(rec, StateOf(old[i].group, state)) /\ picked # {}
      <4>1. Pick(prop, StateOf(old[i].group, state)) = Pick(rec, StateOf(old[i].group, state))
        BY <1>12 DEF Pick
      <4>2. Pick(rec, StateOf(old[i].group, state)) # {}
        BY <1>5, <2>2, <2>4, <3>1 DEF Shows, rec
      <4> QED BY <4>1, <4>2, <1>17
    <3>3. v \in picked
      BY <1>13, <3>2
    <3>4. Pick(new, StateOf(bs[i].group, state)) = picked
      BY <1>5, <1>18, <1>19, <3>2 DEF Pick
    <3>5. value'[e][p] = v
      BY <1>8, <1>20 DEF Row
    <3> QED BY <1>18, <1>19, <2>4, <3>1, <3>2, <3>3, <3>4, <3>5 DEF Shows
  <2>5. CASE q # p
    <3>1. bs[j].props[q] = old[j].props[q] /\ bs[j].group = old[j].group
      BY <1>19, <2>1, <2>5
    <3>2. value'[e][q] = value[e][q]
      BY <1>8, <1>20, <2>3, <2>5 DEF Row
    <3> QED BY <2>2, <3>1, <3>2 DEF Shows
  <2> QED BY <2>4, <2>5
<1>24. SameShape(bs, elems[e].buckets) /\ Whole(bs, elems[e].gen, value'[e], seen'[e])
  BY <1>21, <1>22 DEF old, g
<1>25. consumers' \subseteq Elements \X Properties
  BY <1>1 DEF Inv, Types
<1> QED BY <1>1, <1>2, <1>3, <1>20, <1>23, <1>24, <1>25, <1>26, ShapeKeptStep

LEMMA ShellWritesStep ==
  ASSUME Inv, NEW e \in Elements, NEW p \in Properties, ShellWrites(e, p)
  PROVE  Inv'
BY WrittenUnwatched, WrittenWatched

-----------------------------------------------------------------------------
LEMMA EngineUnchanged ==
  ASSUME Inv, UNCHANGED engineVars
  PROVE  Inv'
<1> USE DEF engineVars, history
<1>1. Types' /\ Elems' /\ Bare' /\ Frames' /\ Succession'
  BY Untouched, FramesKept DEF Inv, Types
<1>2. Caches' /\ Showing'
  BY DEF Inv, Caches, Showing
<1> QED BY <1>1, <1>2 DEF Inv

LEMMA EngineInit == Init => Inv
<1> SUFFICES ASSUME Init PROVE Inv
  OBVIOUS
<1>1. DOMAIN elems = {} /\ elems \in Partial(Elements, Element)
  <2>1. DOMAIN Empty = {} /\ Empty \in [DOMAIN Empty -> Element]
    BY DEF Empty
  <2> QED BY <2>1, PartialMember DEF Init
<1>2. /\ value \in [Elements -> Row] /\ shell \in [Elements -> Writes]
      /\ seen \in [Elements -> Writes]
  <2>1. Shell(0) \in Values
    BY ShellIsNotOurs
  <2> QED BY <2>1 DEF Init, Row, Writes
<1>3. Types
  <2>1. stack \in Seq(Frame)
    BY DEF Init
  <2>2. theme \in 0..MaxTheme /\ installed \in 0..MaxTheme /\ cache \in 0..MaxTheme
    BY MaxThemeType DEF Init, NoTheme
  <2>3. lost \in (SUBSET Watches) \X (SUBSET (Elements \X Nat))
    BY DEF Init, lost
  <2> QED BY <1>1, <1>2, <2>1, <2>2, <2>3 DEF Init, Types
<1>4. Elems /\ Bare
  BY <1>1 DEF Elems, Bare, Init
<1>5. Frames /\ Succession
  BY DEF Frames, Succession, Init
<1>6. Caches /\ Showing
  BY <1>1 DEF Caches, Showing, Init
<1> QED BY <1>3, <1>4, <1>5, <1>6 DEF Inv

(* No step comes back from astray.                                          *)
LEMMA StaysAstray == [Next]_vars /\ ~astray' => ~astray
<1> SUFFICES ASSUME [Next]_vars, ~astray' PROVE ~astray
  OBVIOUS
<1>1. ASSUME NEW f, NEW all, StyleDone(f, all) PROVE astray => astray'
  BY <1>1 DEF StyleDone, MatchEnds
<1>2. ASSUME NEW f, NEW all, MatchEnds(f, all) PROVE astray => astray'
  BY <1>2 DEF MatchEnds
<1>3. CASE PropertyResolved
  BY <1>1, <1>3 DEF PropertyResolved
<1>4. CASE PropertyFails
  BY <1>1, <1>4 DEF PropertyFails
<1>5. CASE ValueResolved
  BY <1>1, <1>5 DEF ValueResolved
<1>6. CASE CapturesEnd
  BY <1>2, <1>6 DEF CapturesEnd
<1>7. CASE InstallTheme \/ RetireTheme \/ RestoreAll \/ ReportReturns
  BY ONLY <1>7, ~astray' DEF InstallTheme, RetireTheme, RestoreAll, ReportReturns, history
<1>8. CASE MatchesFound \/ ReapplyEnds
  BY ONLY <1>8, ~astray' DEF MatchesFound, ReapplyEnds, history
<1>9. ASSUME NEW e \in Elements, ReportBegins(e) \/ ElementRemoved(e) PROVE ~astray
  BY ONLY <1>9, ~astray' DEF ReportBegins, ElementRemoved, history
<1>10. ASSUME NEW e \in Elements, NEW p \in Properties, ReapplyBegins(e, p) PROVE ~astray
  BY ONLY <1>10, ~astray' DEF ReapplyBegins, history
<1>11. ASSUME NEW e \in Elements, NEW p \in Properties, ShellWrites(e, p) PROVE ~astray
  BY ONLY <1>11, ~astray' DEF ShellWrites
<1>12. ASSUME NEW s \in States, StateChanges(s) PROVE ~astray
  BY ONLY <1>12, ~astray' DEF StateChanges, history
<1>13. CASE Resources \/ UNCHANGED vars
  BY ONLY <1>13, ~astray' DEF Resources, vars, engineVars, history
<1> QED BY <1>3, <1>4, <1>5, <1>6, <1>7, <1>8, <1>9, <1>10, <1>11, <1>12, <1>13 DEF Next

LEMMA EngineStep == Sound /\ [Next]_vars => Sound'
<1> SUFFICES ASSUME Sound, [Next]_vars, ~astray' PROVE Inv'
  BY DEF Sound
<1>0. Inv
  BY StaysAstray DEF Sound
<1>1. CASE InstallTheme
  BY <1>0, <1>1, InstallThemeStep
<1>2. CASE RetireTheme
  BY <1>0, <1>2, RetireThemeStep
<1>3. CASE RestoreAll
  BY <1>0, <1>3, RestoreAllStep
<1>4. CASE \E e \in Elements : ReportBegins(e)
  BY <1>0, <1>4, ReportBeginsStep
<1>5. CASE MatchesFound
  BY <1>0, <1>5, MatchesFoundStep
<1>6. CASE ReportReturns
  BY <1>0, <1>6, ReportReturnsStep
<1>7. CASE PropertyResolved
  BY <1>0, <1>7, PropertyResolvedStep
<1>8. CASE PropertyFails
  BY <1>0, <1>8, PropertyFailsStep
<1>9. CASE ValueResolved
  BY <1>0, <1>9, ValueResolvedStep
<1>10. CASE CapturesEnd
  BY <1>0, <1>10, CapturesEndStep
<1>11. CASE \E e \in Elements, p \in Properties : ReapplyBegins(e, p)
  BY <1>0, <1>11, ReapplyBeginsStep
<1>12. CASE ReapplyEnds
  BY <1>0, <1>12, ReapplyEndsStep
<1>13. CASE \E e \in Elements, p \in Properties : ShellWrites(e, p)
  BY <1>0, <1>13, ShellWritesStep
<1>14. CASE \E s \in States : StateChanges(s)
  BY <1>0, <1>14, StateChangesStep
<1>15. CASE \E e \in Elements : ElementRemoved(e)
  BY <1>0, <1>15, ElementRemovedStep
<1>16. CASE Resources
  BY <1>0, <1>16, EngineUnchanged DEF Resources
<1>17. CASE UNCHANGED vars
  BY <1>0, <1>17, EngineUnchanged DEF vars
<1> QED BY <1>1, <1>2, <1>3, <1>4, <1>5, <1>6, <1>7, <1>8, <1>9, <1>10, <1>11, <1>12,
           <1>13, <1>14, <1>15, <1>16, <1>17 DEF Next

LEMMA EngineInvariant == Spec => []Sound
<1>1. Init => Sound
  BY EngineInit DEF Sound
<1> QED BY <1>1, EngineStep, PTL DEF Spec

-----------------------------------------------------------------------------
(* The application's resources.                                             *)
Overrides ==
  /\ merged # 0 => /\ KeysOf(entries) \cap Existing \subseteq DOMAIN originals
                   /\ \A k \in Existing : IF k \in DOMAIN originals THEN originals[k] = App
                                          ELSE resources[k] = App
  /\ merged = 0 => /\ entries = <<>> /\ DOMAIN originals = {}
                   /\ \A k \in Existing : resources[k] = App

LEMMA RestoredApp ==
  ASSUME Overrides
  PROVE  /\ \A k \in Existing : Restored[k] = App
         /\ DOMAIN Surviving = {}
<1>1. \A k \in Existing : k \in Keys
  BY ExistingAssumption
<1> QED BY <1>1 DEF Overrides, Restored, Surviving

LEMMA MergeStep ==
  ASSUME Overrides, NEW t, t # 0, Merge(t)
  PROVE  Overrides'
<1>1. CASE merged = t
  BY <1>1 DEF Merge, resourceVars, Overrides, KeysOf
<1>2. CASE merged # t
  <2> DEFINE found == {k \in KeysOf(Entries[t]) \ DOMAIN Surviving : Restored[k] # Absent}
  <2>1. /\ merged' = t /\ entries' = Entries[t]
        /\ resources' = [k \in Keys |-> IF k \in found THEN Override(t) ELSE Restored[k]]
        /\ originals' = [k \in DOMAIN Surviving \cup found |->
                           IF k \in found THEN FirstOriginals(t, found, Restored)[k]
                           ELSE Surviving[k]]
    BY <1>2 DEF Merge
  <2>2. /\ \A k \in Existing : Restored[k] = App /\ k \in Keys
        /\ DOMAIN Surviving = {} /\ App # Absent
    BY RestoredApp, ExistingAssumption DEF App, Absent
  <2>3. DOMAIN originals' = found /\ \A k \in found : originals'[k] = Restored[k]
    BY <2>1, <2>2 DEF FirstOriginals
  <2>4. KeysOf(entries') \cap Existing \subseteq found
    BY <2>1, <2>2
  <2>5. \A k \in Existing : k \notin found => resources'[k] = App
    BY <2>1, <2>2
  <2> HIDE DEF found
  <2>6. merged' # 0
    BY <2>1
  <2> QED BY <2>2, <2>3, <2>4, <2>5, <2>6 DEF Overrides, KeysOf
<1> QED BY <1>1, <1>2

LEMMA UnmergeStep ==
  ASSUME Overrides, Unmerge
  PROVE  Overrides'
<1>1. /\ merged' = 0 /\ resources' = Restored /\ originals' = Surviving
      /\ entries' = IF merged = 0 THEN entries ELSE <<>>
  BY DEF Unmerge
<1>2. entries' = <<>>
  BY <1>1 DEF Overrides
<1> QED BY <1>1, <1>2, RestoredApp DEF Overrides

LEMMA RefreshStep ==
  ASSUME Overrides, RefreshReferences
  PROVE  Overrides'
<1>1. /\ UNCHANGED <<merged, originals, entries>>
      /\ resources' = [k \in Keys |-> IF k \in References(entries) THEN Override(merged)
                                      ELSE resources[k]]
  BY DEF RefreshReferences
<1>2. References(entries) \subseteq KeysOf(entries)
  BY DEF References, KeysOf
<1>3. \A k \in Existing : k \in Keys
  BY ExistingAssumption
<1>4. merged = 0 => References(entries) = {}
  BY DEF Overrides, References
<1> QED BY <1>1, <1>2, <1>3, <1>4 DEF Overrides, KeysOf

LEMMA OverridesStep == Overrides /\ [Next]_vars => Overrides'
<1> SUFFICES ASSUME Overrides, [Next]_vars PROVE Overrides'
  OBVIOUS
<1>1. CASE \E e \in Elements : ReportBegins(e)
  BY <1>1, MergeStep DEF ReportBegins, NoTheme
<1>2. CASE RestoreAll
  BY <1>2, UnmergeStep DEF RestoreAll
<1>3. CASE Resources
  <2>1. CASE ColorsChange
    BY <2>1 DEF ColorsChange, Overrides, KeysOf
  <2>2. CASE RefreshReferences
    BY <2>2, RefreshStep
  <2> QED BY <1>3, <2>1, <2>2 DEF Resources
<1>4. CASE UNCHANGED resourceVars
  BY <1>4 DEF resourceVars, Overrides, KeysOf
<1>5. CASE InstallTheme \/ RetireTheme \/ MatchesFound \/ ReportReturns
  BY <1>4, <1>5 DEF InstallTheme, RetireTheme, MatchesFound, ReportReturns
<1>6. CASE PropertyResolved \/ PropertyFails \/ ValueResolved
  <2>1. UNCHANGED resourceVars
    BY ONLY <1>6 DEF PropertyResolved, PropertyFails, ValueResolved
  <2> QED BY <1>4, <2>1
<1>7. CASE CapturesEnd \/ ReapplyEnds
  <2>1. UNCHANGED resourceVars
    BY ONLY <1>7 DEF CapturesEnd, ReapplyEnds
  <2> QED BY <1>4, <2>1
<1>8. CASE \E e \in Elements, p \in Properties : ReapplyBegins(e, p) \/ ShellWrites(e, p)
  <2>1. ASSUME NEW e \in Elements, NEW p \in Properties, ReapplyBegins(e, p)
        PROVE  UNCHANGED resourceVars
    BY ONLY <2>1 DEF ReapplyBegins
  <2>2. ASSUME NEW e \in Elements, NEW p \in Properties, ShellWrites(e, p)
        PROVE  UNCHANGED resourceVars
    BY ONLY <2>2 DEF ShellWrites
  <2> QED BY <1>4, <1>8, <2>1, <2>2
<1>9. CASE (\E s \in States : StateChanges(s)) \/ (\E e \in Elements : ElementRemoved(e))
  <2>1. UNCHANGED resourceVars
    BY ONLY <1>9 DEF StateChanges, ElementRemoved
  <2> QED BY <1>4, <2>1
<1>10. CASE UNCHANGED vars
  BY <1>4, <1>10 DEF vars
<1> QED BY <1>1, <1>2, <1>3, <1>5, <1>6, <1>7, <1>8, <1>9, <1>10 DEF Next

LEMMA OverridesInvariant == Spec => []Overrides
<1>1. Init => Overrides
  BY ExistingAssumption DEF Init, ResourceInit, Overrides
<1> QED BY <1>1, OverridesStep, PTL DEF Spec

-----------------------------------------------------------------------------
(* Until a report goes astray, the state of the engine has its types: every *)
(* frame under way among them, the overtaken reports that go on included.   *)
THEOREM EngineTypeCorrect == Spec => [](~astray => Types)
<1>1. Sound => (~astray => Types)
  BY DEF Sound, Inv
<1> QED BY <1>1, EngineInvariant, PTL

(* No value of the shell that a watch saw, or that fell on a property we    *)
(* did not hold, is ever lost, for any themes, elements and nesting.        *)
THEOREM ShellValuesAlwaysKept == Spec => []ShellValuesKept
<1>1. Sound => ShellValuesKept
  <2> SUFFICES ASSUME Inv, NEW e \in Elements, NEW p \in Properties
               PROVE  /\ \A i \in Customized(e, p) :
                           elems[e].buckets[i].props[p].original = Shell(seen[e][p])
                      /\ Customized(e, p) = {} => value[e][p] = Shell(seen[e][p])
    BY DEF Sound, ShellValuesKept
  <2>1. CASE e \notin DOMAIN elems
    BY <2>1 DEF Customized, Inv, Bare
  <2>2. CASE e \in DOMAIN elems
    <3>1. Keeps(elems[e].buckets, value[e], seen[e])
      BY <2>2 DEF Inv, Elems, Whole
    <3>2. Customized(e, p) =
            {i \in Holding(elems[e].buckets, p) : elems[e].buckets[i].props[p].applied}
      BY <2>2 DEF Customized
    <3> QED BY <3>1, <3>2 DEF Keeps
  <2> QED BY <2>1, <2>2
<1> QED BY <1>1, EngineInvariant, PTL

(* Until a report uses what was freed, a property lives in one bucket, and  *)
(* all it holds was resolved by the report that owns the element: what an   *)
(* overtaken report leaves when it goes on is none of its own values.       *)
THEOREM AlwaysOneOwner == Spec => []OneOwner
<1>1. Sound => OneOwner
  <2> SUFFICES ASSUME Inv, NEW e \in DOMAIN elems, NEW p \in Properties
               PROVE  /\ Cardinality(Holding(elems[e].buckets, p)) <= 1
                      /\ \A i \in Holding(elems[e].buckets, p) :
                           \A s \in DOMAIN elems[e].buckets[i].props[p].values :
                             elems[e].buckets[i].props[p].values[s][2] = elems[e].gen
    BY DEF Sound, OneOwner
  <2> DEFINE bs == elems[e].buckets
  <2>1. Single(bs) /\ Owned(bs, elems[e].gen)
    BY DEF Inv, Elems, Whole
  <2> HIDE DEF bs
  <2>2. Cardinality(Holding(bs, p)) <= 1
    <3>1. CASE Holding(bs, p) = {}
      BY <3>1, FS_EmptySet
    <3>2. CASE Holding(bs, p) # {}
      <4>1. PICK i \in Holding(bs, p) : TRUE
        BY <3>2
      <4>2. Holding(bs, p) = {i}
        BY <4>1, <2>1 DEF Single
      <4>3. Cardinality({i}) = 1
        BY FS_Singleton
      <4> QED BY <4>2, <4>3
    <3> QED BY <3>1, <3>2
  <2>3. \A i \in Holding(bs, p) :
          \A s \in DOMAIN bs[i].props[p].values : bs[i].props[p].values[s][2] = elems[e].gen
    BY <2>1, HoldingFacts DEF Owned
  <2> QED BY <2>2, <2>3 DEF bs
<1> QED BY <1>1, EngineInvariant, PTL

(* With nothing under way and the theme in force, an element that is        *)
(* watched shows what its buckets pick for the group's state.               *)
THEOREM AlwaysShowsItsState == Spec => []ShowsItsState
<1>1. Sound => ShowsItsState
  <2> SUFFICES ASSUME Inv, cache = theme, ~readopted, NEW e \in DOMAIN elems
               PROVE  LET bs == elems[e].buckets
                          at == {ip \in (1..Len(bs)) \X Properties :
                                   ip[2] \in DOMAIN bs[ip[1]].props}
                          Prop(ip) == bs[ip[1]].props[ip[2]]
                          Picked(ip) == Pick(Prop(ip), StateOf(bs[ip[1]].group, state))
                      IN \/ \A ip \in at : Prop(ip).watch = 0
                         \/ \A ip \in at :
                              /\ Prop(ip).watch = ip[1]
                              /\ IF Picked(ip) = {} THEN ~Prop(ip).applied
                                 ELSE value[e][ip[2]] \in Picked(ip)
    BY DEF Sound, ShowsItsState
  <2> DEFINE bs == elems[e].buckets
  <2>1. Quiet(bs) \/ Wired(bs)
    BY DEF Inv, Elems
  <2>2. Shown(bs, value[e], state)
    BY DEF Inv, Showing
  <2> HIDE DEF bs
  <2>3. CASE Quiet(bs)
    BY <2>3 DEF Quiet, bs
  <2>4. CASE Wired(bs)
    <3>1. ASSUME NEW i \in 1..Len(bs), NEW p \in DOMAIN bs[i].props
          PROVE  bs[i].props[p].watch = i /\ Shows(bs, i, p, value[e], state)
      <4>1. bs[i].props[p].watch = i /\ i # 0
        BY <2>4 DEF Wired
      <4> QED BY <4>1, <2>2 DEF Shown
    <3> QED BY <3>1 DEF bs, Shows
  <2> QED BY <2>1, <2>3, <2>4
<1> QED BY <1>1, EngineInvariant, PTL

(* Taken back, every key the application defines has its own value again.   *)
THEOREM OverridesAlwaysUndone == Spec => []OverridesUndone
<1>1. Overrides => OverridesUndone
  BY DEF Overrides, OverridesUndone
<1> QED BY <1>1, OverridesInvariant, PTL
=============================================================================
