---------------------------- MODULE StylingProofs ----------------------------
(* What styles an element: the convergence of the style variables, for any  *)
(* elements, expressions and trees and any bounds; the match of a selector, *)
(* for any chain and any path; and the evaluation of an expression, for any *)
(* tokens and any variables.                                                *)
EXTENDS StyleVariables, Selectors, Expressions, FiniteSetTheorems, SequenceTheorems,
        WellFoundedInduction, TLAPS

-----------------------------------------------------------------------------
(* Stacks.                                                                  *)

LEMMA Pushed ==
  ASSUME NEW S, NEW s \in Seq(S), NEW f \in S
  PROVE  /\ Append(s, f) \in Seq(S) /\ Len(Append(s, f)) = Len(s) + 1
         /\ \A i \in 1..Len(s) : Append(s, f)[i] = s[i]
         /\ Append(s, f)[Len(s) + 1] = f
OBVIOUS

LEMMA Popped ==
  ASSUME NEW S, NEW s \in Seq(S), s # <<>>
  PROVE  LET t == SubSeq(s, 1, Len(s) - 1) IN
         /\ t \in Seq(S) /\ Len(t) = Len(s) - 1 /\ Len(s) \in Nat /\ Len(s) > 0
         /\ \A i \in 1..Len(t) : t[i] = s[i]
<1>1. Len(s) \in Nat /\ Len(s) > 0 /\ \A i \in 1..Len(s) - 1 : s[i] \in S
  BY EmptySeq, LenProperties
<1> DEFINE n == Len(s) - 1
           t == SubSeq(s, 1, n)
<1>2. n \in Int /\ 1 \in Int
  BY <1>1
<1>3. /\ t \in Seq(S) /\ Len(t) = IF 1 <= n THEN n - 1 + 1 ELSE 0
      /\ \A i \in 1..n - 1 + 1 : t[i] = s[1 + i - 1]
  <2>1. \A i \in 1..n : s[i] \in S
    BY <1>1
  <2> HIDE DEF n
  <2> QED BY <1>2, <2>1, SubSeqProperties
<1> HIDE DEF t
<1>4. Len(t) = Len(s) - 1 /\ \A i \in 1..Len(t) : t[i] = s[i]
  <2>1. n \in Nat /\ n - 1 + 1 = n /\ \A i \in 1..n : 1 + i - 1 = i
    BY <1>1
  <2> HIDE DEF n
  <2>2. Len(t) = n
    BY <2>1, <1>3
  <2>3. \A i \in 1..n : t[i] = s[i]
    BY <2>1, <1>3
  <2> QED BY <2>2, <2>3 DEF n
<1> QED BY <1>1, <1>3, <1>4 DEF t

LEMMA Swapped ==
  ASSUME NEW S, NEW s \in Seq(S), s # <<>>, NEW f \in S
  PROVE  LET t == Append(SubSeq(s, 1, Len(s) - 1), f) IN
         /\ t \in Seq(S) /\ Len(t) = Len(s) /\ Len(s) \in Nat /\ Len(s) > 0
         /\ \A i \in 1..Len(s) : t[i] = IF i = Len(s) THEN f ELSE s[i]
<1> DEFINE u == SubSeq(s, 1, Len(s) - 1)
<1>1. /\ u \in Seq(S) /\ Len(u) = Len(s) - 1 /\ Len(s) \in Nat /\ Len(s) > 0
      /\ \A i \in 1..Len(u) : u[i] = s[i]
  BY Popped
<1> HIDE DEF u
<1>2. /\ Append(u, f) \in Seq(S) /\ Len(Append(u, f)) = Len(u) + 1
      /\ \A i \in 1..Len(u) : Append(u, f)[i] = u[i]
      /\ Append(u, f)[Len(u) + 1] = f
  BY <1>1, Pushed
<1>3. \A i \in 1..Len(s) : Append(u, f)[i] = IF i = Len(s) THEN f ELSE s[i]
  BY <1>1, <1>2
<1> QED BY <1>1, <1>2, <1>3 DEF u

-----------------------------------------------------------------------------
(* Erasing from a list of consumers.  The definition recurs over the list;  *)
(* that there is such a function, and what it yields, is an induction by    *)
(* the least counterexample.                                                *)
Step(list, e, before, i) ==
  IF i = 0 THEN <<>>
  ELSE IF list[i] = e THEN before[i - 1] ELSE Append(before[i - 1], list[i])

LEMMA LeastNat ==
  ASSUME NEW T, T \subseteq Nat, T # {}
  PROVE  \E m \in T : \A k \in T : m <= k
<1>1. PICK m \in T : \A k \in T : ~(<<k, m>> \in OpToRel(<, Nat))
  BY WFMin, NatLessThanWellFounded
<1>2. \A k \in T : ~(k < m)
  BY <1>1 DEF OpToRel
<1> QED BY <1>2

LEMMA FilterExists ==
  ASSUME NEW list, NEW e, NEW n \in Nat
  PROVE  \E g : g = [i \in 0..n |-> Step(list, e, g, i)]
<1> DEFINE Bad == {m \in Nat : ~ \E g : g = [i \in 0..m |-> Step(list, e, g, i)]}
<1> SUFFICES ASSUME Bad # {} PROVE FALSE
  OBVIOUS
<1>1. PICK m \in Bad : \A k \in Bad : m <= k
  <2>1. Bad \subseteq Nat
    OBVIOUS
  <2> HIDE DEF Bad
  <2> QED BY <2>1, LeastNat
<1>2. CASE m = 0
  <2> DEFINE g == [i \in 0..0 |-> <<>>]
  <2>1. g = [i \in 0..0 |-> Step(list, e, g, i)]
    BY DEF Step
  <2> QED BY <1>1, <1>2, <2>1
<1>3. CASE m # 0
  <2>1. m \in Nat /\ m - 1 \in Nat /\ m - 1 \notin Bad
    <3>1. m \in Nat /\ m - 1 \in Nat /\ ~(m <= m - 1)
      BY <1>1, <1>3
    <3> HIDE DEF Bad
    <3> QED BY <1>1, <3>1
  <2>2. PICK g : g = [i \in 0..(m - 1) |-> Step(list, e, g, i)]
    BY <2>1
  <2> DEFINE h == [i \in 0..m |-> IF i = m THEN Step(list, e, g, m) ELSE g[i]]
  <2>3. ASSUME NEW i \in 0..m PROVE h[i] = Step(list, e, h, i)
    <3>1. CASE i = m
      <4>1. h[m - 1] = g[m - 1] /\ h[m] = Step(list, e, g, m)
        BY <2>1
      <4> QED BY <3>1, <4>1 DEF Step
    <3>2. CASE i # m
      <4>1. i \in 0..(m - 1) /\ h[i] = g[i] /\ (i # 0 => h[i - 1] = g[i - 1])
        BY <3>2, <2>1
      <4>2. g[i] = Step(list, e, g, i)
        BY <2>2, <4>1
      <4> QED BY <4>1, <4>2 DEF Step
    <3> QED BY <3>1, <3>2
  <2>4. h = [i \in 0..m |-> Step(list, e, h, i)]
    <3>1. h = [i \in 0..m |-> h[i]]
      OBVIOUS
    <3> HIDE DEF h
    <3> QED BY <3>1, <2>3
  <2> QED BY <1>1, <2>4
<1> QED BY <1>2, <1>3

(* Filtered(g, list, e, m): what has been kept of the first m.              *)
Filtered(kept, list, e, m) ==
  /\ kept \in Seq(Elements)
  /\ \A j \in 1..Len(kept) : \E i \in 1..m : list[i] # e /\ kept[j] = list[i]
  /\ \A i \in 1..m : list[i] # e => \E j \in 1..Len(kept) : kept[j] = list[i]
  /\ (\A i, j \in 1..m : list[i] = list[j] => i = j) =>
        \A i, j \in 1..Len(kept) : kept[i] = kept[j] => i = j

LEMMA FilterFacts ==
  ASSUME NEW list \in Seq(Elements), NEW e, NEW g,
         g = [i \in 0..Len(list) |-> Step(list, e, g, i)]
  PROVE  \A m \in 0..Len(list) : Filtered(g[m], list, e, m)
<1> DEFINE Bad == {m \in 0..Len(list) : ~ Filtered(g[m], list, e, m)}
<1> SUFFICES ASSUME Bad # {} PROVE FALSE
  OBVIOUS
<1>0. Len(list) \in Nat
  OBVIOUS
<1>1. PICK m \in Bad : \A k \in Bad : m <= k
  <2>1. Bad \subseteq Nat
    BY <1>0
  <2> HIDE DEF Bad
  <2> QED BY <2>1, LeastNat
<1>2. \A i \in 0..Len(list) : g[i] = Step(list, e, g, i)
  OBVIOUS
<1>3. CASE m = 0
  <2>1. g[0] = <<>>
    BY <1>0, <1>2 DEF Step
  <2>2. Filtered(<<>>, list, e, 0)
    BY DEF Filtered
  <2> QED BY <1>1, <1>3, <2>1, <2>2
<1>4. CASE m # 0
  <2>1. m \in 1..Len(list) /\ m - 1 \in 0..Len(list) /\ m \in Nat
    BY <1>0, <1>1, <1>4
  <2>2. Filtered(g[m - 1], list, e, m - 1)
    <3>1. ~(m <= m - 1)
      BY <2>1
    <3>2. m - 1 \notin Bad
      <4> HIDE DEF Bad
      <4> QED BY <1>1, <3>1
    <3> QED BY <2>1, <3>2
  <2>3. g[m] = IF list[m] = e THEN g[m - 1] ELSE Append(g[m - 1], list[m])
    BY <1>2, <2>1 DEF Step
  <2>4. Filtered(g[m], list, e, m)
    <3> DEFINE old == g[m - 1]
    <3>1. CASE list[m] = e
      BY <2>1, <2>2, <2>3, <3>1 DEF Filtered
    <3>2. CASE list[m] # e
      <4>0. list[m] \in Elements
        BY <2>1
      <4>1. old \in Seq(Elements)
        BY <2>2 DEF Filtered
      <4> HIDE DEF old
      <4> DEFINE new == Append(old, list[m])
      <4>2. /\ new \in Seq(Elements) /\ Len(new) = Len(old) + 1 /\ Len(old) \in Nat
            /\ \A i \in 1..Len(old) : new[i] = old[i]
            /\ new[Len(old) + 1] = list[m]
        BY <4>0, <4>1, Pushed
      <4>3. g[m] = new /\ Filtered(old, list, e, m - 1)
        BY <2>2, <2>3, <3>2 DEF old
      <4> HIDE DEF new
      <4>4. \A j \in 1..Len(new) : \E i \in 1..m : list[i] # e /\ new[j] = list[i]
        <5> SUFFICES ASSUME NEW j \in 1..Len(new)
                     PROVE  \E i \in 1..m : list[i] # e /\ new[j] = list[i]
          OBVIOUS
        <5>1. CASE j = Len(old) + 1
          BY <2>1, <4>2, <3>2, <5>1
        <5>2. CASE j # Len(old) + 1
          <6>1. j \in 1..Len(old) /\ new[j] = old[j]
            BY <4>2, <5>2
          <6>2. PICK i \in 1..(m - 1) : list[i] # e /\ old[j] = list[i]
            BY <4>3, <6>1 DEF Filtered
          <6> QED BY <2>1, <6>1, <6>2
        <5> QED BY <5>1, <5>2
      <4>5. \A i \in 1..m : list[i] # e => \E j \in 1..Len(new) : new[j] = list[i]
        <5> SUFFICES ASSUME NEW i \in 1..m, list[i] # e
                     PROVE  \E j \in 1..Len(new) : new[j] = list[i]
          OBVIOUS
        <5>1. CASE i = m
          BY <4>2, <5>1
        <5>2. CASE i # m
          <6>1. i \in 1..(m - 1)
            BY <2>1, <5>2
          <6>2. PICK j \in 1..Len(old) : old[j] = list[i]
            BY <4>3, <6>1 DEF Filtered
          <6> QED BY <4>2, <6>2
        <5> QED BY <5>1, <5>2
      <4>6. ASSUME \A i, j \in 1..m : list[i] = list[j] => i = j
            PROVE  \A i, j \in 1..Len(new) : new[i] = new[j] => i = j
        <5>1. \A i \in 1..Len(old) : old[i] # list[m]
          <6> SUFFICES ASSUME NEW i \in 1..Len(old), old[i] = list[m] PROVE FALSE
            OBVIOUS
          <6>1. PICK k \in 1..(m - 1) : old[i] = list[k]
            BY <4>3 DEF Filtered
          <6>2. k \in 1..m /\ m \in 1..m /\ k # m
            BY <2>1
          <6> QED BY <4>6, <6>1, <6>2
        <5>2. \A i, j \in 1..(m - 1) : list[i] = list[j] => i = j
          BY <2>1, <4>6
        <5>3. \A i, j \in 1..Len(old) : old[i] = old[j] => i = j
          BY <4>3, <5>2 DEF Filtered
        <5> QED BY <4>2, <5>1, <5>3
      <4> QED BY <4>2, <4>3, <4>4, <4>5, <4>6 DEF Filtered
    <3> QED BY <3>1, <3>2
  <2> QED BY <1>1, <2>4
<1> QED BY <1>3, <1>4

LEMMA WithoutFacts ==
  ASSUME NEW list \in Seq(Elements), NEW e
  PROVE  /\ Without(list, e) \in Seq(Elements)
         /\ Range(Without(list, e)) = Range(list) \ {e}
         /\ IsInjective(list) => IsInjective(Without(list, e))
<1> DEFINE kept == CHOOSE g : g = [i \in 0..Len(list) |-> Step(list, e, g, i)]
<1>1. Without(list, e) = kept[Len(list)]
  BY DEF Without, Step
<1>2. kept = [i \in 0..Len(list) |-> Step(list, e, kept, i)]
  <2>1. \E g : g = [i \in 0..Len(list) |-> Step(list, e, g, i)]
    <3>1. Len(list) \in Nat
      OBVIOUS
    <3> QED BY <3>1, FilterExists
  <2> QED BY <2>1
<1> HIDE DEF kept
<1>3. Filtered(Without(list, e), list, e, Len(list))
  BY <1>1, <1>2, FilterFacts
<1>4. DOMAIN list = 1..Len(list) /\ DOMAIN Without(list, e) = 1..Len(Without(list, e))
  BY <1>3 DEF Filtered
<1>5. Without(list, e) \in Seq(Elements)
  BY <1>3 DEF Filtered
<1>6. Range(Without(list, e)) = Range(list) \ {e}
  <2> DEFINE new == Without(list, e)
  <2>1. Range(list) = {list[i] : i \in 1..Len(list)} /\ Range(new) = {new[i] : i \in 1..Len(new)}
    BY <1>4 DEF Range
  <2>2. \A j \in 1..Len(new) : \E i \in 1..Len(list) : list[i] # e /\ new[j] = list[i]
    BY <1>3 DEF Filtered
  <2>3. \A i \in 1..Len(list) : list[i] # e => \E j \in 1..Len(new) : new[j] = list[i]
    BY <1>3 DEF Filtered
  <2> HIDE DEF new
  <2>4. Range(new) = Range(list) \ {e}
    <3>1. ASSUME NEW x \in Range(new) PROVE x \in Range(list) \ {e}
      <4>1. PICK j \in 1..Len(new) : new[j] = x
        BY <2>1
      <4> QED BY <2>1, <2>2, <4>1
    <3>2. ASSUME NEW x \in Range(list) \ {e} PROVE x \in Range(new)
      <4>1. PICK i \in 1..Len(list) : list[i] = x
        BY <2>1
      <4> QED BY <2>1, <2>3, <4>1
    <3> QED BY <3>1, <3>2
  <2> QED BY <2>4 DEF new
<1>7. IsInjective(list) => IsInjective(Without(list, e))
  BY <1>3, <1>4 DEF Filtered, IsInjective
<1> QED BY <1>5, <1>6, <1>7

-----------------------------------------------------------------------------
(* Types.                                                                   *)
Reads(e) == {First[e], Second[e]} \ {Nothing}
Value == 0..MaxValue
MaybeValue == Value \cup {Nothing}
Site == [on : BOOLEAN, value : Value, chain : Seq(Nat), sequence : Nat]

FrameType ==
  [kind : {"propagate", "report", "resolved", "captures", "remove"},
   element : Elements \cup {Nothing}, todo : Seq(Elements) \cup Seq(Names),
   at : Elements \cup {Nothing}, value : MaybeValue, deps : SUBSET Names, generation : Nat]

(* A propagation walks over elements, the one it is at with what has been   *)
(* resolved for it; the others work through an element's names.             *)
WellFormed(f) ==
  IF f.kind = "propagate"
  THEN /\ f.element = Nothing /\ f.todo \in Seq(Elements)
       /\ f.at # Nothing => f.deps \subseteq Reads(f.at)
  ELSE /\ f.element \in Elements /\ f.todo \in Seq(Names) /\ f.at = Nothing
       /\ f.kind = "resolved" => f.deps \subseteq Reads(f.element)

Frames == {f \in FrameType : WellFormed(f)}

CapturedOK == captured \in [Elements -> [Names -> Site]]

VariablesTypeOK ==
  /\ CapturedOK
  /\ consumers \in [Names -> Seq(Elements)] /\ deps \in [Elements -> SUBSET Names]
  /\ \A e \in Elements : deps[e] \subseteq Reads(e)
  /\ sequence \in Nat
  /\ frames \in Seq(Frames)
  /\ styled \subseteq {e \in Elements : Consumes(e)} /\ live \subseteq Elements
  /\ generation \in [Elements -> Nat]
  /\ value \in [Elements -> MaybeValue] /\ shown \in [Elements -> MaybeValue]
  /\ property \in [Elements -> [Names -> Value]]
  /\ position \in [Elements -> Seq(Nat)]
  /\ {capped, pumped, moved} \subseteq BOOLEAN

(* Registrations are numbered: no two captures of a name are equal.         *)
Numbered ==
  \A n \in Names, e \in Elements : captured[e][n].on =>
    /\ captured[e][n].sequence <= sequence
    /\ \A f \in Elements : captured[f][n].on /\ captured[f][n].sequence = captured[e][n].sequence
                             => e = f

LEMMA ReadsNames ==
  ASSUME NEW e \in Elements PROVE Reads(e) \subseteq Names
BY VariablesAssumption DEF Reads

LEMMA FrameWellFormed ==
  /\ \A list \in Seq(Elements) : Frame("propagate", Nothing, list) \in Frames
  /\ \A e \in Elements : Frame("report", e, <<>>) \in Frames
  /\ \A e \in Elements, list \in Seq(Names) : Frame("remove", e, list) \in Frames
BY EmptySeq DEF Frame, Frames, FrameType, WellFormed, MaybeValue, Value

-----------------------------------------------------------------------------
(* The index of consumers.                                                  *)

(* RegisterConsumer keeps the index, and says for which element it speaks.  *)
LEMMA RegistersKeepsIndex ==
  ASSUME VariablesTypeOK, ConsumersIndexed,
         NEW e \in Elements, NEW names, names \subseteq Reads(e), Registers(e, names)
  PROVE  /\ consumers' \in [Names -> Seq(Elements)] /\ deps' \in [Elements -> SUBSET Names]
         /\ \A g \in Elements : deps'[g] \subseteq Reads(g)
         /\ ConsumersIndexed'
         /\ \A g \in Elements : deps'[g] = IF g = e THEN names ELSE deps[g]
<1>1. names \subseteq Names
  BY ReadsNames
<1>2. \A g \in Elements : deps'[g] = IF g = e THEN names ELSE deps[g]
  BY DEF VariablesTypeOK, Registers
<1>3. deps' \in [Elements -> SUBSET Names] /\ \A g \in Elements : deps'[g] \subseteq Reads(g)
  BY <1>1, <1>2 DEF VariablesTypeOK, Registers
<1>4. ASSUME NEW n \in Names
      PROVE  /\ consumers'[n] \in Seq(Elements)
             /\ IsInjective(consumers'[n])
             /\ Range(consumers'[n]) = {g \in Elements : n \in deps'[g]}
  <2> DEFINE rest == Without(consumers[n], e)
  <2>0. consumers[n] \in Seq(Elements)
    BY DEF VariablesTypeOK
  <2>1. /\ rest \in Seq(Elements)
        /\ Range(rest) = Range(consumers[n]) \ {e}
        /\ IsInjective(rest)
    BY <2>0, WithoutFacts DEF ConsumersIndexed
  <2>2. Range(consumers[n]) = {g \in Elements : n \in deps[g]}
    BY DEF ConsumersIndexed
  <2>3. consumers'[n] = IF n \in names THEN Append(rest, e) ELSE rest
    BY DEF Registers
  <2> HIDE DEF rest
  <2>4. CASE n \notin names
    <3>1. Range(rest) = {g \in Elements : n \in deps'[g]}
      BY <1>2, <2>1, <2>2, <2>4
    <3> QED BY <2>1, <2>3, <2>4, <3>1
  <2>5. CASE n \in names
    <3> DEFINE new == Append(rest, e)
    <3>1. /\ new \in Seq(Elements) /\ Len(new) = Len(rest) + 1 /\ Len(rest) \in Nat
          /\ \A i \in 1..Len(rest) : new[i] = rest[i]
          /\ new[Len(rest) + 1] = e
      BY <2>1, Pushed
    <3>2. DOMAIN new = 1..Len(rest) + 1 /\ DOMAIN rest = 1..Len(rest)
      BY <2>1, <3>1
    <3> HIDE DEF new
    <3>3. \A i \in 1..Len(rest) : rest[i] \in Range(rest)
      BY <3>2 DEF Range
    <3>4. IsInjective(new)
      <4>1. \A i, j \in 1..Len(rest) : rest[i] = rest[j] => i = j
        BY <2>1, <3>2 DEF IsInjective
      <4>2. \A i \in 1..Len(rest) : rest[i] # e
        BY <2>1, <3>3
      <4> QED BY <3>1, <3>2, <4>1, <4>2 DEF IsInjective
    <3>5. Range(new) = Range(rest) \cup {e}
      <4>1. Range(new) = {new[i] : i \in 1..Len(rest) + 1} /\ Range(rest) = {rest[i] : i \in 1..Len(rest)}
        BY <3>2 DEF Range
      <4>2. ASSUME NEW x \in Range(new) PROVE x \in Range(rest) \cup {e}
        BY <3>1, <3>3, <4>1
      <4>3. ASSUME NEW x \in Range(rest) \cup {e} PROVE x \in Range(new)
        <5>1. CASE x = e
          BY <3>1, <4>1, <5>1
        <5>2. CASE x \in Range(rest)
          <6>1. PICK i \in 1..Len(rest) : rest[i] = x
            BY <4>1, <5>2
          <6>2. i \in 1..Len(rest) + 1 /\ new[i] = x
            BY <3>1, <6>1
          <6> QED BY <4>1, <6>2
        <5> QED BY <5>1, <5>2
      <4> QED BY <4>2, <4>3
    <3>6. Range(new) = {g \in Elements : n \in deps'[g]}
      BY <1>2, <2>1, <2>2, <2>5, <3>5
    <3> QED BY <2>3, <2>5, <3>1, <3>4, <3>6 DEF new
  <2> QED BY <2>4, <2>5
<1>5. consumers' \in [Names -> Seq(Elements)]
  <2>1. consumers' = [n \in Names |-> consumers'[n]]
    BY DEF Registers
  <2> QED BY <1>4, <2>1
<1>6. ConsumersIndexed'
  BY <1>4 DEF ConsumersIndexed
<1> QED BY <1>2, <1>3, <1>5, <1>6

-----------------------------------------------------------------------------
(* Looking up, and expanding.                                               *)

LEMMA SharedBound ==
  ASSUME NEW c \in Seq(Nat), NEW d \in Seq(Nat)
  PROVE  Shared(c, d) \in Nat /\ Shared(c, d) <= Len(d)
<1> DEFINE T == {i \in 1..Len(c) : i <= Len(d) /\ \A j \in 1..i : c[j] = d[j]}
<1>1. Len(c) \in Nat /\ Len(d) \in Nat
  OBVIOUS
<1>2. IsFiniteSet(1..Len(d)) /\ Cardinality(1..Len(d)) = Len(d)
  <2> DEFINE n == Len(d)
  <2>1. n \in Nat /\ n \in Int /\ 1 \in Int
    BY <1>1
  <2> HIDE DEF n
  <2>2. IsFiniteSet(1..n) /\ Cardinality(1..n) = IF 1 > n THEN 0 ELSE n - 1 + 1
    BY <2>1, FS_Interval
  <2>3. Cardinality(1..n) = n
    BY <2>1, <2>2
  <2> QED BY <2>2, <2>3 DEF n
<1>3. T \subseteq 1..Len(d)
  BY <1>1
<1> HIDE DEF T
<1>4. IsFiniteSet(T) /\ Cardinality(T) <= Len(d)
  BY <1>2, <1>3, FS_Subset
<1>5. Cardinality(T) \in Nat
  BY <1>4, FS_CardinalityType
<1> QED BY <1>4, <1>5 DEF Shared, T

(* There is a closest capture: depths are bounded, and among those of the   *)
(* greatest depth the sequence decides.                                     *)
LEMMA ClosestExists ==
  ASSUME VariablesTypeOK, Numbered, NEW n \in Names, NEW branch \in Seq(Nat),
         Sites(n, branch) # {}
  PROVE  Closest(Sites(n, branch)) \in Sites(n, branch)
<1> DEFINE sites == Sites(n, branch)
           Site0(e) == [depth |-> Shared(captured[e][n].chain, branch),
                        sequence |-> captured[e][n].sequence, value |-> captured[e][n].value]
           Here == {f \in live : captured[f][n].on}
<1>1. sites = {Site0(e) : e \in Here}
  BY DEF Sites
<1>2. \A e \in Here : e \in Elements /\ captured[e][n] \in Site
  BY DEF VariablesTypeOK, CapturedOK
<1>3. \A e \in Here : /\ Site0(e).depth \in Nat /\ Site0(e).depth <= Len(branch)
                      /\ Site0(e).sequence \in Nat /\ Site0(e).sequence <= sequence
                      /\ Site0(e).sequence = captured[e][n].sequence
  BY <1>2, SharedBound DEF Site, Numbered
<1>4. \A s \in sites : /\ s.depth \in Nat /\ s.depth <= Len(branch)
                       /\ s.sequence \in Nat /\ s.sequence <= sequence
  BY <1>1, <1>3
<1>5. \A s, t \in sites : s.sequence = t.sequence => s = t
  <2> SUFFICES ASSUME NEW e \in Here, NEW f \in Here, Site0(e).sequence = Site0(f).sequence
               PROVE  e = f
    BY <1>1
  <2>1. captured[e][n].on /\ captured[f][n].on /\ captured[e][n].sequence = captured[f][n].sequence
    BY <1>3
  <2> QED BY <1>2, <2>1 DEF Numbered
<1>6. Len(branch) \in Nat /\ sequence \in Nat
  BY DEF VariablesTypeOK
<1> HIDE DEF sites
<1>7. PICK a \in sites : \A s \in sites : s.depth <= a.depth
  <2> DEFINE T == {Len(branch) - s.depth : s \in sites}
  <2>1. T \subseteq Nat /\ T # {}
    BY <1>4, <1>6 DEF sites
  <2> HIDE DEF T
  <2>2. PICK m \in T : \A k \in T : m <= k
    BY <2>1, LeastNat
  <2>3. PICK a \in sites : m = Len(branch) - a.depth
    BY DEF T
  <2>4. ASSUME NEW s \in sites PROVE s.depth <= a.depth
    <3>1. m <= Len(branch) - s.depth
      BY <2>2 DEF T
    <3> QED BY <1>4, <1>6, <2>3, <3>1
  <2> QED BY <2>4
<1> DEFINE Deep == {s \in sites : s.depth = a.depth}
<1>8. PICK b \in Deep : \A s \in Deep : s.sequence <= b.sequence
  <2> DEFINE T == {sequence - s.sequence : s \in Deep}
  <2>1. T \subseteq Nat /\ T # {}
    <3>1. a \in Deep
      BY <1>7
    <3>2. \A s \in Deep : sequence - s.sequence \in Nat
      BY <1>4, <1>6
    <3> HIDE DEF Deep
    <3> QED BY <3>1, <3>2
  <2> HIDE DEF T, Deep
  <2>2. PICK m \in T : \A k \in T : m <= k
    BY <2>1, LeastNat
  <2>3. PICK b \in Deep : m = sequence - b.sequence
    BY DEF T
  <2>4. ASSUME NEW s \in Deep PROVE s.sequence <= b.sequence
    <3>1. m <= sequence - s.sequence
      BY <2>2 DEF T
    <3>2. s \in sites /\ b \in sites
      BY DEF Deep
    <3> QED BY <1>4, <1>6, <2>3, <3>1, <3>2
  <2> QED BY <2>4
<1>9. b \in sites /\ \A s \in sites \ {b} :
         b.depth > s.depth \/ (b.depth = s.depth /\ b.sequence > s.sequence)
  <2> SUFFICES ASSUME NEW s \in sites, s # b
               PROVE  b.depth > s.depth \/ (b.depth = s.depth /\ b.sequence > s.sequence)
    BY <1>8
  <2>1. b.depth = a.depth /\ b \in sites /\ s.sequence # b.sequence
    BY <1>5, <1>8
  <2>2. CASE s.depth = a.depth
    <3>1. s.sequence <= b.sequence
      BY <1>8, <2>2
    <3> QED BY <1>4, <2>1, <2>2, <3>1
  <2>3. CASE s.depth # a.depth
    BY <1>4, <1>7, <2>1, <2>3
  <2> QED BY <2>2, <2>3
<1>10. Closest(sites) \in sites
  BY <1>9 DEF Closest
<1> QED BY <1>10 DEF sites

LEMMA LookupTyped ==
  ASSUME VariablesTypeOK, Numbered, NEW n \in Names, NEW branch \in Seq(Nat)
  PROVE  Lookup(n, branch) \in MaybeValue
<1>1. CASE Sites(n, branch) = {}
  BY <1>1 DEF Lookup, MaybeValue
<1>2. CASE Sites(n, branch) # {}
  <2>1. Closest(Sites(n, branch)) \in Sites(n, branch)
    BY <1>2, ClosestExists
  <2>2. \A site \in Sites(n, branch) : \E e \in live : site.value = captured[e][n].value
    BY DEF Sites
  <2>3. \A e \in live : captured[e][n].value \in Value
    BY DEF VariablesTypeOK, CapturedOK, Site
  <2>4. \A site \in Sites(n, branch) : site.value \in Value
    BY <2>2, <2>3
  <2>5. Closest(Sites(n, branch)).value \in Value
    BY <2>1, <2>4
  <2> QED BY <1>2, <2>5 DEF Lookup, MaybeValue
<1> QED BY <1>1, <1>2

LEMMA ExpandedTyped ==
  ASSUME VariablesTypeOK, Numbered, NEW e \in Elements, Consumes(e)
  PROVE  Expanded(e).value \in MaybeValue /\ Expanded(e).deps \subseteq Reads(e)
<1> DEFINE v1 == Lookup(First[e], position[e])
           reads == v1 # Nothing /\ v1 # 0 /\ Second[e] # Nothing
           v2 == IF reads THEN Lookup(Second[e], position[e]) ELSE v1
<1>1. First[e] \in Names /\ (Second[e] # Nothing => Second[e] \in Names) /\ position[e] \in Seq(Nat)
  BY VariablesAssumption DEF Consumes, VariablesTypeOK
<1>2. v1 \in MaybeValue /\ v2 \in MaybeValue
  BY <1>1, LookupTyped
<1>3. /\ Expanded(e).value = IF v1 = Nothing \/ v2 = Nothing THEN Nothing
                             ELSE (v2 + Offset[e]) % (MaxValue + 1)
      /\ Expanded(e).deps = IF reads THEN {First[e], Second[e]} ELSE {First[e]}
  BY DEF Expanded
<1> HIDE DEF v1, v2
<1>4. Expanded(e).value \in MaybeValue
  <2>1. CASE v1 = Nothing \/ v2 = Nothing
    BY <1>3, <2>1 DEF MaybeValue
  <2>2. CASE ~(v1 = Nothing \/ v2 = Nothing)
    <3>1. v2 \in Nat /\ Offset[e] \in Nat /\ MaxValue \in Nat
      BY <1>2, <2>2, VariablesAssumption DEF MaybeValue, Value
    <3>2. (v2 + Offset[e]) % (MaxValue + 1) \in 0..MaxValue
      BY <3>1
    <3> QED BY <1>3, <2>2, <3>2 DEF MaybeValue, Value
  <2> QED BY <2>1, <2>2
<1>5. Expanded(e).deps \subseteq Reads(e)
  BY <1>1, <1>3, VariablesAssumption DEF Reads
<1> QED BY <1>4, <1>5

(* An expansion depends on the captures of the names it has read, by live   *)
(* elements, and on where the element is.                                   *)
Unaffected(m) ==
  \A f \in Elements :
    /\ (f \in live' /\ captured'[f][m].on) <=> (f \in live /\ captured[f][m].on)
    /\ f \in live /\ captured[f][m].on => captured'[f][m] = captured[f][m]

LEMMA ExpansionIsLocal ==
  ASSUME live \subseteq Elements, live' \subseteq Elements, NEW e \in Elements, position'[e] = position[e],
         \A m \in Expanded(e).deps : Unaffected(m)
  PROVE  Expanded(e)' = Expanded(e)
<1>1. ASSUME NEW m \in Expanded(e).deps PROVE Lookup(m, position[e])' = Lookup(m, position[e])
  <2>1. Unaffected(m)
    OBVIOUS
  <2>2. {f \in live' : captured'[f][m].on} = {f \in live : captured[f][m].on}
    BY <2>1 DEF Unaffected
  <2>3. \A f \in {f \in live : captured[f][m].on} : captured'[f][m] = captured[f][m]
    BY <2>1 DEF Unaffected
  <2>4. Sites(m, position[e])' = Sites(m, position[e])
    BY <2>2, <2>3 DEF Sites
  <2> QED BY <2>4 DEF Lookup
<1> DEFINE v1 == Lookup(First[e], position[e])
           reads == v1 # Nothing /\ v1 # 0 /\ Second[e] # Nothing
           v2 == IF reads THEN Lookup(Second[e], position[e]) ELSE v1
           result == [value |-> IF v1 = Nothing \/ v2 = Nothing THEN Nothing
                                ELSE (v2 + Offset[e]) % (MaxValue + 1),
                      deps |-> IF reads THEN {First[e], Second[e]} ELSE {First[e]}]
<1>2. Expanded(e) = result
  BY DEF Expanded
<1>3. First[e] \in Expanded(e).deps /\ (reads => Second[e] \in Expanded(e).deps)
  BY <1>2
<1>4. v1' = v1
  BY <1>1, <1>3
<1>5. v2' = v2
  BY <1>1, <1>3, <1>4
<1>6. Expanded(e)' = result'
  BY DEF Expanded
<1>7. result' = result
  BY <1>4, <1>5
<1> QED BY <1>2, <1>6, <1>7


-----------------------------------------------------------------------------
(* What a step does to the stack: the calls below the top stay, the top     *)
(* goes on, returns or stays, and at most propagations are called.          *)
Extension(s, t) ==
  /\ Len(s) <= Len(t) /\ \A i \in 1..Len(s) : t[i] = s[i]
  /\ \A i \in 1..Len(t) : i > Len(s) => t[i].kind = "propagate" /\ t[i].at = Nothing

(* What will still bring the element's property up to date.                 *)
Covers(f, g, read) ==
  \/ f.kind = "propagate" /\ (f.at = g \/ g \in Range(f.todo))
  \/ f.kind \in {"report", "resolved"} /\ f.element = g
  \/ f.kind = "remove" /\ (f.element = g \/ read \cap Range(f.todo) # {})
Pending(stack, g, read) == \E i \in 1..Len(stack) : Covers(stack[i], g, read)

(* The element is being reported or removed.                                *)
Handled(stack, g) == \E i \in 1..Len(stack) : stack[i].kind # "propagate" /\ stack[i].element = g

(* A report that registers captures is of a styled element, unless the      *)
(* element's style has no variables, and is not overtaken by a removal.     *)
Exclusive(stack, has) ==
  /\ \A i \in 1..Len(stack) :
       stack[i].kind = "captures" /\ Consumes(stack[i].element) => stack[i].element \in has
  /\ \A i, j \in 1..Len(stack) :
       stack[i].kind = "captures" /\ stack[j].kind = "remove"
         => stack[i].element # stack[j].element \/ j < i

(* Nothing is being resolved, and nothing but propagations runs inside.     *)
Idle(f) == f.at = Nothing /\ f.kind # "resolved"
Settled(stack) ==
  \A i \in 1..Len(stack) :
    /\ Idle(stack[i]) /\ (i > 1 => stack[i].kind = "propagate")
    /\ stack[i].kind \in {"report", "captures"} => stack[i].element \in live

(* Every consumer of the name is going to be re-applied.                    *)
Announced(n) ==
  \A g \in Range(consumers'[n]) :
    \E i \in 1..Len(frames') : frames'[i].kind = "propagate" /\ g \in Range(frames'[i].todo)

LEMMA Reflexive ==
  ASSUME NEW s \in Seq(Frames) PROVE Extension(s, s)
BY DEF Extension

LEMMA Extended ==
  ASSUME NEW s \in Seq(Frames), NEW t \in Seq(Frames), Extension(s, t)
  PROVE  /\ \A g, read : Pending(s, g, read) => Pending(t, g, read)
         /\ \A g : Handled(s, g) => Handled(t, g)
         /\ \A has : Exclusive(s, has) => Exclusive(t, has)
         /\ Settled(s) => Settled(t)
<1>1. /\ Len(s) \in Nat /\ Len(t) \in Nat /\ Len(s) <= Len(t)
      /\ \A i \in 1..Len(s) : i \in 1..Len(t) /\ t[i] = s[i]
      /\ \A i \in 1..Len(t) : i \notin 1..Len(s) =>
           t[i].kind = "propagate" /\ t[i].at = Nothing
  BY DEF Extension
<1>2. \A g, read : Pending(s, g, read) => Pending(t, g, read)
  BY <1>1 DEF Pending
<1>3. \A g : Handled(s, g) => Handled(t, g)
  BY <1>1 DEF Handled
<1>4. ASSUME NEW has, Exclusive(s, has) PROVE Exclusive(t, has)
  <2>1. ASSUME NEW i \in 1..Len(t), t[i].kind = "captures" \/ t[i].kind = "remove"
        PROVE  i \in 1..Len(s) /\ t[i] = s[i]
    BY <1>1, <2>1
  <2> QED BY <1>4, <2>1 DEF Exclusive
<1>5. ASSUME Settled(s) PROVE Settled(t)
  <2> SUFFICES ASSUME NEW i \in 1..Len(t)
               PROVE  /\ Idle(t[i]) /\ (i > 1 => t[i].kind = "propagate")
                      /\ t[i].kind \in {"report", "captures"} => t[i].element \in live
    BY DEF Settled
  <2>1. CASE i \in 1..Len(s)
    BY <1>1, <1>5, <2>1 DEF Settled
  <2>2. CASE i \notin 1..Len(s)
    BY <1>1, <2>2 DEF Idle
  <2> QED BY <2>1, <2>2
<1> QED BY <1>2, <1>3, <1>4, <1>5

LEMMA Returned ==
  ASSUME frames \in Seq(Frames), frames # <<>>
  PROVE  /\ Under \in Seq(Frames) /\ Top \in Frames
         /\ Len(frames) \in Nat /\ Len(frames) > 0 /\ Len(Under) = Len(frames) - 1
         /\ \A i \in 1..Len(Under) : Under[i] = frames[i]
         /\ \A g, read : Pending(frames, g, read) => Covers(Top, g, read) \/ Pending(Under, g, read)
         /\ \A g : Handled(frames, g) => (Top.kind # "propagate" /\ Top.element = g) \/ Handled(Under, g)
         /\ \A has : Exclusive(frames, has) => Exclusive(Under, has)
<1>1. /\ Under \in Seq(Frames) /\ Len(Under) = Len(frames) - 1 /\ Len(frames) \in Nat /\ Len(frames) > 0
      /\ \A i \in 1..Len(Under) : Under[i] = frames[i]
  BY Popped DEF Under
<1>2. Top \in Frames /\ Top = frames[Len(frames)]
  BY <1>1 DEF Top
<1>3. \A i \in 1..Len(frames) : i = Len(frames) \/ (i \in 1..Len(Under) /\ Under[i] = frames[i])
  BY <1>1
<1>4. \A i \in 1..Len(Under) : i \in 1..Len(frames) /\ Under[i] = frames[i]
  BY <1>1
<1>5. \A g, read : Pending(frames, g, read) => Covers(Top, g, read) \/ Pending(Under, g, read)
  BY <1>2, <1>3 DEF Pending
<1>6. \A g : Handled(frames, g) => (Top.kind # "propagate" /\ Top.element = g) \/ Handled(Under, g)
  BY <1>2, <1>3 DEF Handled
<1>7. \A has : Exclusive(frames, has) => Exclusive(Under, has)
  BY <1>4 DEF Exclusive
<1> QED BY <1>1, <1>2, <1>5, <1>6, <1>7

LEMMA Replaced ==
  ASSUME frames \in Seq(Frames), frames # <<>>, NEW f \in Frames, NEW s, s = Append(Under, f)
  PROVE  /\ s \in Seq(Frames) /\ Len(s) = Len(frames) /\ Len(s) \in Nat /\ Len(s) > 0
         /\ \A i \in 1..Len(s) : s[i] = IF i = Len(s) THEN f ELSE frames[i]
         /\ \A g, read : Pending(frames, g, read) => Covers(Top, g, read) \/ Pending(s, g, read)
         /\ \A g, read : Covers(f, g, read) => Pending(s, g, read)
         /\ \A g : Handled(frames, g) => (Top.kind # "propagate" /\ Top.element = g) \/ Handled(s, g)
         /\ \A g : f.kind # "propagate" /\ f.element = g => Handled(s, g)
         /\ \A has : Exclusive(frames, has) /\ f.element = Top.element
              /\ (f.kind = "remove" => Top.kind = "remove")
              /\ (f.kind = "captures" /\ Consumes(f.element) => f.element \in has)
              => Exclusive(s, has)
<1>1. /\ s \in Seq(Frames) /\ Len(s) = Len(frames) /\ Len(s) \in Nat /\ Len(s) > 0
      /\ \A i \in 1..Len(s) : s[i] = IF i = Len(s) THEN f ELSE frames[i]
  BY Swapped DEF Under
<1>2. Top = frames[Len(frames)]
  BY DEF Top
<1>3. \A i \in 1..Len(frames) : i \in 1..Len(s) /\ (i # Len(s) => s[i] = frames[i])
  BY <1>1
<1>4. Len(s) \in 1..Len(s) /\ s[Len(s)] = f
  BY <1>1
<1>5. \A g, read : Pending(frames, g, read) => Covers(Top, g, read) \/ Pending(s, g, read)
  BY <1>1, <1>2, <1>3 DEF Pending
<1>6. \A g, read : Covers(f, g, read) => Pending(s, g, read)
  BY <1>4 DEF Pending
<1>7. \A g : Handled(frames, g) => (Top.kind # "propagate" /\ Top.element = g) \/ Handled(s, g)
  BY <1>1, <1>2, <1>3 DEF Handled
<1>8. \A g : f.kind # "propagate" /\ f.element = g => Handled(s, g)
  BY <1>4 DEF Handled
<1>9. ASSUME NEW has, Exclusive(frames, has), f.element = Top.element,
             f.kind = "remove" => Top.kind = "remove",
             f.kind = "captures" /\ Consumes(f.element) => f.element \in has
      PROVE  Exclusive(s, has)
  <2>1. \A i \in 1..Len(s) : s[i].kind = "captures" /\ Consumes(s[i].element) => s[i].element \in has
    BY <1>1, <1>9 DEF Exclusive
  <2>2. ASSUME NEW i \in 1..Len(s), NEW j \in 1..Len(s),
               s[i].kind = "captures", s[j].kind = "remove", s[i].element = s[j].element
        PROVE  j < i
    <3>1. CASE i = Len(s)
      <4>1. j # Len(s)
        BY <1>1, <2>2, <3>1
      <4> QED BY <1>1, <3>1, <4>1
    <3>2. CASE i # Len(s)
      <4>1. s[i] = frames[i] /\ i \in 1..Len(frames)
        BY <1>1, <3>2
      <4>2. frames[j].kind = "remove" /\ frames[j].element = s[j].element /\ j \in 1..Len(frames)
        BY <1>1, <1>2, <1>9, <2>2
      <4> QED BY <1>9, <2>2, <4>1, <4>2 DEF Exclusive
    <3> QED BY <3>1, <3>2
  <2> QED BY <2>1, <2>2 DEF Exclusive
<1> QED BY <1>1, <1>5, <1>6, <1>7, <1>8, <1>9

LEMMA Called ==
  ASSUME frames \in Seq(Frames), NEW f \in Frames, NEW s, s = Append(frames, f)
  PROVE  /\ s \in Seq(Frames) /\ Len(s) = Len(frames) + 1 /\ Len(frames) \in Nat
         /\ \A i \in 1..Len(s) : s[i] = IF i = Len(s) THEN f ELSE frames[i]
         /\ \A g, read : Covers(f, g, read) => Pending(s, g, read)
         /\ \A g, read : Pending(frames, g, read) => Pending(s, g, read)
         /\ \A g : f.kind # "propagate" /\ f.element = g => Handled(s, g)
         /\ \A has : Exclusive(frames, has) /\ f.kind # "captures"
              /\ (f.kind = "remove" => ~Capturing(f.element)) => Exclusive(s, has)
<1>1. /\ s \in Seq(Frames) /\ Len(s) = Len(frames) + 1 /\ Len(frames) \in Nat
      /\ \A i \in 1..Len(frames) : s[i] = frames[i]
      /\ s[Len(frames) + 1] = f
  BY Pushed
<1>2. \A i \in 1..Len(s) : s[i] = IF i = Len(s) THEN f ELSE frames[i]
  BY <1>1
<1>3. Len(s) \in 1..Len(s) /\ s[Len(s)] = f
  BY <1>1
<1>4. \A i \in 1..Len(frames) : i \in 1..Len(s) /\ s[i] = frames[i]
  BY <1>1
<1>5. \A g, read : Covers(f, g, read) => Pending(s, g, read)
  BY <1>3 DEF Pending
<1>6. \A g, read : Pending(frames, g, read) => Pending(s, g, read)
  BY <1>4 DEF Pending
<1>7. \A g : f.kind # "propagate" /\ f.element = g => Handled(s, g)
  BY <1>3 DEF Handled
<1>8. ASSUME NEW has, Exclusive(frames, has), f.kind # "captures",
             f.kind = "remove" => ~Capturing(f.element)
      PROVE  Exclusive(s, has)
  <2>1. \A i \in 1..Len(s) : s[i].kind = "captures" => i \in 1..Len(frames) /\ s[i] = frames[i]
    BY <1>1, <1>2, <1>8
  <2>2. ASSUME NEW i \in 1..Len(s), NEW j \in 1..Len(s),
               s[i].kind = "captures", s[j].kind = "remove", s[i].element = s[j].element
        PROVE  j < i
    <3>1. i \in 1..Len(frames) /\ s[i] = frames[i]
      BY <2>1, <2>2
    <3>2. CASE j = Len(s)
      BY <1>2, <1>8, <2>2, <3>1, <3>2 DEF Capturing
    <3>3. CASE j # Len(s)
      <4>1. j \in 1..Len(frames) /\ s[j] = frames[j]
        BY <1>1, <3>3
      <4> QED BY <1>8, <2>2, <3>1, <4>1 DEF Exclusive
    <3> QED BY <3>2, <3>3
  <2> QED BY <1>8, <2>1, <2>2 DEF Exclusive
<1> QED BY <1>1, <1>2, <1>5, <1>6, <1>7, <1>8

LEMMA Propagation ==
  ASSUME NEW s \in Seq(Frames), NEW n \in Names, Propagate(s, n),
         consumers' \in [Names -> Seq(Elements)], capped \in BOOLEAN
  PROVE  /\ frames' \in Seq(Frames) /\ Extension(s, frames')
         /\ capped' \in BOOLEAN /\ (capped => capped')
         /\ ~capped' => Announced(n)
<1> DEFINE list == consumers'[n]
           f == Frame("propagate", Nothing, list)
<1>0. list \in Seq(Elements)
  OBVIOUS
<1>1. f \in Frames /\ f.kind = "propagate" /\ f.at = Nothing /\ f.todo = list
  BY <1>0, FrameWellFormed DEF Frame
<1>2. CASE frames' = s /\ capped' = TRUE
  BY <1>2, Reflexive
<1>3. CASE list = <<>> /\ frames' = s /\ UNCHANGED capped
  <2>1. Range(list) = {}
    BY <1>3 DEF Range
  <2> QED BY <1>3, <2>1, Reflexive DEF Announced
<1>4. CASE frames' = Append(s, f) /\ UNCHANGED capped
  <2> HIDE DEF f
  <2>1. /\ frames' \in Seq(Frames) /\ Len(frames') = Len(s) + 1 /\ Len(s) \in Nat
        /\ \A i \in 1..Len(s) : frames'[i] = s[i]
        /\ frames'[Len(s) + 1] = f
    BY <1>1, <1>4, Pushed
  <2>2. Extension(s, frames')
    BY <1>1, <2>1 DEF Extension
  <2>3. Announced(n)
    <3>1. Len(s) + 1 \in 1..Len(frames')
      BY <2>1
    <3> QED BY <1>1, <2>1, <3>1 DEF Announced
  <2> QED BY <1>4, <2>1, <2>2, <2>3
<1> QED BY <1>2, <1>3, <1>4 DEF Propagate

(* What setting a captured property does: the capture of one name, of one   *)
(* element, may take another value, and then its consumers are told.        *)
Touched(s, n) ==
  /\ CapturedOK' /\ property' \in [Elements -> [Names -> Value]]
  /\ frames' \in Seq(Frames) /\ Extension(s, frames')
  /\ capped' \in BOOLEAN /\ (capped => capped')
  /\ \A f \in Elements, m \in Names :
       /\ m # n => captured'[f][m] = captured[f][m]
       /\ captured'[f][m].on = captured[f][m].on
       /\ captured'[f][m].sequence = captured[f][m].sequence
       /\ captured'[f][m].chain \in {captured[f][m].chain, position'[f]}
  /\ ~capped' => captured' = captured \/ Announced(n)

LEMMA SetsPropertyTouches ==
  ASSUME VariablesTypeOK, NEW s \in Seq(Frames), consumers' \in [Names -> Seq(Elements)],
         position' \in [Elements -> Seq(Nat)],
         NEW e \in Elements, NEW n \in Names, NEW v \in Value, SetsProperty(s, e, n, v)
  PROVE  Touched(s, n)
<1>1. property' \in [Elements -> [Names -> Value]]
  BY DEF VariablesTypeOK, SetsProperty
<1>2. CASE frames' = s /\ UNCHANGED <<captured, capped>>
  BY <1>1, <1>2, Reflexive DEF Touched, VariablesTypeOK, CapturedOK
<1>3. CASE /\ captured' = [captured EXCEPT ![e][n].value = v, ![e][n].chain = position'[e]]
           /\ Propagate(s, n)
  <2>0. captured \in [Elements -> [Names -> Site]] /\ captured[e][n] \in Site
    BY DEF VariablesTypeOK, CapturedOK
  <2> DEFINE new == [captured[e][n] EXCEPT !.value = v, !.chain = position'[e]]
  <2>1. /\ new \in Site /\ new.on = captured[e][n].on /\ new.sequence = captured[e][n].sequence
        /\ new.chain = position'[e]
    BY <2>0 DEF Site
  <2>2. captured' = [captured EXCEPT ![e] = [captured[e] EXCEPT ![n] = new]]
    BY <1>3, <2>0
  <2> HIDE DEF new
  <2>3. captured' \in [Elements -> [Names -> Site]]
    BY <2>0, <2>1, <2>2
  <2>4. \A f \in Elements, m \in Names :
          captured'[f][m] = IF f = e /\ m = n THEN new ELSE captured[f][m]
    BY <2>0, <2>2
  <2>5. /\ frames' \in Seq(Frames) /\ Extension(s, frames')
        /\ capped' \in BOOLEAN /\ (capped => capped')
        /\ ~capped' => Announced(n)
    <3>1. capped \in BOOLEAN
      BY DEF VariablesTypeOK
    <3> QED BY <1>3, <3>1, Propagation
  <2>6. \A f \in Elements, m \in Names :
       /\ m # n => captured'[f][m] = captured[f][m]
       /\ captured'[f][m].on = captured[f][m].on
       /\ captured'[f][m].sequence = captured[f][m].sequence
       /\ captured'[f][m].chain \in {captured[f][m].chain, position'[f]}
    BY <2>1, <2>4
  <2> QED BY <1>1, <2>3, <2>5, <2>6 DEF Touched, CapturedOK
<1> QED BY <1>2, <1>3 DEF SetsProperty

LEMMA AppliesTouches ==
  ASSUME VariablesTypeOK, NEW s \in Seq(Frames), consumers' \in [Names -> Seq(Elements)],
         position' \in [Elements -> Seq(Nat)],
         NEW e \in Elements, NEW v \in MaybeValue, Applies(s, e, v)
  PROVE  /\ Touched(s, Feeds[e])
         /\ shown' \in [Elements -> MaybeValue]
         /\ \A g \in Elements : shown'[g] = IF g = e THEN v ELSE shown[g]
<1>1. /\ shown' \in [Elements -> MaybeValue]
      /\ \A g \in Elements : shown'[g] = IF g = e THEN v ELSE shown[g]
  BY DEF VariablesTypeOK, Applies
<1>2. CASE Feeds[e] = Nothing
  <2>1. frames' = s /\ UNCHANGED <<property, captured, capped>>
    BY <1>2 DEF Applies
  <2>2. Touched(s, Feeds[e])
    BY <2>1, Reflexive DEF Touched, VariablesTypeOK, CapturedOK
  <2> QED BY <1>1, <2>2
<1>3. CASE Feeds[e] # Nothing
  <2>1. Feeds[e] \in Names /\ MaxValue \in Nat
    BY <1>3, VariablesAssumption
  <2> DEFINE u == IF v = Nothing THEN 0 ELSE v
  <2>2. u \in Value
    BY <2>1 DEF MaybeValue, Value
  <2>3. SetsProperty(s, e, Feeds[e], u)
    BY <1>3 DEF Applies
  <2> HIDE DEF u
  <2> QED BY <1>1, <2>1, <2>2, <2>3, SetsPropertyTouches
<1> QED BY <1>2, <1>3

-----------------------------------------------------------------------------
(* The safety of the index and of the removed elements, step by step.       *)
Bare == \A e \in Elements : e \notin styled => shown[e] = Nothing

StoreInv ==
  VariablesTypeOK /\ ConsumersIndexed /\ Numbered /\ Exclusive(frames, styled) /\ Bare

LEMMA HeadTail ==
  ASSUME NEW S, NEW q \in Seq(S), q # <<>>
  PROVE  /\ Head(q) \in S /\ Tail(q) \in Seq(S)
         /\ Range(q) = {Head(q)} \cup Range(Tail(q))
<1>1. Head(q) \in S /\ Tail(q) \in Seq(S)
  BY HeadTailProperties
<1>2. /\ Len(q) \in Nat /\ Len(q) > 0 /\ Len(Tail(q)) = Len(q) - 1
      /\ Head(q) = q[1] /\ \A i \in 1..Len(Tail(q)) : Tail(q)[i] = q[i + 1]
  BY HeadTailProperties, EmptySeq
<1>3. DOMAIN q = 1..Len(q) /\ DOMAIN Tail(q) = 1..Len(Tail(q))
  BY <1>1
<1>4. Range(q) = {q[i] : i \in 1..Len(q)} /\ Range(Tail(q)) = {Tail(q)[i] : i \in 1..Len(Tail(q))}
  BY <1>3 DEF Range
<1>5. ASSUME NEW x \in Range(q) PROVE x \in {Head(q)} \cup Range(Tail(q))
  <2>1. PICK i \in 1..Len(q) : q[i] = x
    BY <1>4
  <2>2. CASE i = 1
    BY <1>2, <2>1, <2>2
  <2>3. CASE i # 1
    <3>1. i - 1 \in 1..Len(Tail(q)) /\ Tail(q)[i - 1] = q[i]
      BY <1>2, <2>3
    <3> QED BY <1>4, <2>1, <3>1
  <2> QED BY <2>2, <2>3
<1>6. ASSUME NEW x \in {Head(q)} \cup Range(Tail(q)) PROVE x \in Range(q)
  <2>1. CASE x = Head(q)
    BY <1>2, <1>4, <2>1
  <2>2. CASE x \in Range(Tail(q))
    <3>1. PICK i \in 1..Len(Tail(q)) : Tail(q)[i] = x
      BY <1>4, <2>2
    <3>2. i + 1 \in 1..Len(q) /\ q[i + 1] = x
      BY <1>2, <3>1
    <3> QED BY <1>4, <3>2
  <2> QED BY <1>6, <2>1, <2>2
<1> QED BY <1>1, <1>5, <1>6

(* A call that has taken the first of what it has to do.                    *)
LEMMA Worked ==
  ASSUME NEW f \in Frames, f.todo # <<>>, NEW g, g = [f EXCEPT !.todo = Tail(@)]
  PROVE  /\ g \in Frames /\ g.kind = f.kind /\ g.element = f.element /\ g.todo = Tail(f.todo)
         /\ g.at = f.at /\ g.value = f.value /\ g.deps = f.deps /\ g.generation = f.generation
         /\ f.kind = "propagate" => Head(f.todo) \in Elements
         /\ f.kind # "propagate" => Head(f.todo) \in Names
         /\ Range(f.todo) = {Head(f.todo)} \cup Range(g.todo)
<1>1. f \in FrameType /\ WellFormed(f)
  BY DEF Frames
<1>2. /\ g.kind = f.kind /\ g.element = f.element /\ g.todo = Tail(f.todo)
      /\ g.at = f.at /\ g.value = f.value /\ g.deps = f.deps /\ g.generation = f.generation
  BY <1>1 DEF FrameType
<1>3. CASE f.kind = "propagate"
  <2>1. f.todo \in Seq(Elements)
    BY <1>1, <1>3 DEF WellFormed
  <2>2. Head(f.todo) \in Elements /\ Tail(f.todo) \in Seq(Elements)
        /\ Range(f.todo) = {Head(f.todo)} \cup Range(Tail(f.todo))
    BY <2>1, HeadTail
  <2>3. g \in FrameType
    BY <1>1, <2>2 DEF FrameType
  <2>4. WellFormed(g)
    BY <1>1, <1>2, <1>3, <2>2 DEF WellFormed
  <2> QED BY <1>2, <1>3, <2>2, <2>3, <2>4 DEF Frames
<1>4. CASE f.kind # "propagate"
  <2>1. f.todo \in Seq(Names)
    BY <1>1, <1>4 DEF WellFormed
  <2>2. Head(f.todo) \in Names /\ Tail(f.todo) \in Seq(Names)
        /\ Range(f.todo) = {Head(f.todo)} \cup Range(Tail(f.todo))
    BY <2>1, HeadTail
  <2>3. g \in FrameType
    BY <1>1, <2>2 DEF FrameType
  <2>4. WellFormed(g)
    BY <1>1, <1>2, <1>4, <2>2 DEF WellFormed
  <2> QED BY <1>2, <1>4, <2>2, <2>3, <2>4 DEF Frames
<1> QED BY <1>3, <1>4

(* A propagation that stands at an element, and one that has done with it.  *)
At(f, e) == [f EXCEPT !.at = e, !.value = Expanded(e).value, !.deps = Expanded(e).deps,
                      !.generation = generation[e]]

LEMMA Resolved ==
  ASSUME VariablesTypeOK, Numbered, NEW f \in Frames, f.kind = "propagate",
         NEW e \in Elements, Consumes(e), NEW g, g = At(f, e)
  PROVE  /\ g \in Frames /\ g.kind = f.kind /\ g.element = f.element /\ g.todo = f.todo
         /\ g.at = e /\ g.value = Expanded(e).value /\ g.deps = Expanded(e).deps
         /\ g.generation = generation[e]
<1>1. f \in FrameType /\ WellFormed(f)
  BY DEF Frames
<1>2. /\ g.kind = f.kind /\ g.element = f.element /\ g.todo = f.todo
      /\ g.at = e /\ g.value = Expanded(e).value /\ g.deps = Expanded(e).deps
      /\ g.generation = generation[e]
  BY <1>1 DEF FrameType, At
<1>3. Expanded(e).value \in MaybeValue /\ Expanded(e).deps \subseteq Reads(e) /\ Reads(e) \subseteq Names
  BY ExpandedTyped, ReadsNames
<1>4. g \in FrameType
  BY <1>1, <1>3 DEF FrameType, VariablesTypeOK, At
<1>5. WellFormed(g)
  BY <1>1, <1>2, <1>3 DEF WellFormed
<1> QED BY <1>2, <1>4, <1>5 DEF Frames

LEMMA Dropped ==
  ASSUME NEW f \in Frames, f.kind = "propagate", NEW g,
         g = [f EXCEPT !.at = Nothing, !.value = Nothing, !.deps = {}, !.generation = 0]
  PROVE  /\ g \in Frames /\ g.kind = f.kind /\ g.element = f.element /\ g.todo = f.todo
         /\ g.at = Nothing
<1>1. f \in FrameType /\ WellFormed(f)
  BY DEF Frames
<1>2. /\ g.kind = f.kind /\ g.element = f.element /\ g.todo = f.todo
      /\ g.at = Nothing /\ g \in FrameType
  BY <1>1 DEF FrameType, MaybeValue
<1> QED BY <1>1, <1>2 DEF Frames, WellFormed

LEMMA TouchedKeeps ==
  ASSUME StoreInv, NEW s \in Seq(Frames), NEW n, Touched(s, n), sequence' = sequence
  PROVE  /\ Numbered'
         /\ \A has : Exclusive(s, has) => Exclusive(frames', has)
<1>1. Numbered'
  <2>1. \A f \in Elements, m \in Names :
          /\ captured'[f][m].on = captured[f][m].on
          /\ captured'[f][m].sequence = captured[f][m].sequence
    BY DEF Touched
  <2> QED BY <2>1 DEF StoreInv, Numbered
<1>2. frames' \in Seq(Frames) /\ Extension(s, frames')
  BY DEF Touched
<1> QED BY <1>1, <1>2, Extended

LEMMA ResolvesKeepsStore ==
  ASSUME StoreInv, Resolves PROVE StoreInv'
<1> DEFINE e == Head(Top.todo)
           next == [Top EXCEPT !.todo = Tail(@)]
           f == IF e \in styled \cap live
                THEN [next EXCEPT !.at = e, !.value = Expanded(e).value, !.deps = Expanded(e).deps,
                                  !.generation = generation[e]]
                ELSE next
<1>1. /\ frames # <<>> /\ Top.kind = "propagate" /\ Top.todo # <<>> /\ frames' = Append(Under, f)
      /\ UNCHANGED <<storeVars, engineVars, worldVars, historyVars>>
  BY DEF Resolves
<1>2. frames \in Seq(Frames) /\ Top \in Frames
  BY <1>1, Returned DEF StoreInv, VariablesTypeOK
<1>3. next \in Frames /\ next.kind = "propagate" /\ next.element = Top.element /\ e \in Elements
  BY <1>1, <1>2, Worked
<1> HIDE DEF next, e
<1>4. f \in Frames /\ f.kind = "propagate" /\ f.element = Top.element
  <2>1. CASE e \in styled \cap live
    <3>1. Consumes(e) /\ VariablesTypeOK /\ Numbered
      BY <2>1 DEF StoreInv, VariablesTypeOK
    <3>2. f = At(next, e)
      BY <2>1 DEF At
    <3> HIDE DEF f
    <3>3. f \in Frames /\ f.kind = next.kind /\ f.element = next.element
      BY <1>3, <3>1, <3>2, Resolved
    <3> QED BY <1>3, <3>3
  <2>2. CASE e \notin styled \cap live
    BY <1>3, <2>2
  <2> QED BY <2>1, <2>2
<1> HIDE DEF f
<1>5. frames' \in Seq(Frames) /\ \A has : Exclusive(frames, has) => Exclusive(frames', has)
  BY <1>1, <1>2, <1>4, Replaced
<1>6. Exclusive(frames, styled)'
  BY <1>1, <1>5 DEF StoreInv, engineVars
<1>7. VariablesTypeOK'
  BY <1>1, <1>5 DEF StoreInv, VariablesTypeOK, CapturedOK, Reads, Consumes,
                    storeVars, engineVars, worldVars, historyVars
<1>8. ConsumersIndexed' /\ Numbered' /\ Bare'
  BY <1>1 DEF StoreInv, ConsumersIndexed, Numbered, Bare, storeVars, engineVars
<1> QED BY <1>6, <1>7, <1>8 DEF StoreInv

Freed(f) == [f EXCEPT !.at = Nothing, !.value = Nothing, !.deps = {}, !.generation = 0]

(* A re-application that is not dropped: the element is registered for what *)
(* was read, has the value, and shows it.                                   *)
LEMMA ReappliesEffect ==
  ASSUME StoreInv, Reapplies, NEW e, e = Top.at,
         e \in styled \cap live, generation[e] = Top.generation,
         NEW s, s = Append(Under, Freed(Top))
  PROVE  /\ e \in Elements /\ UNCHANGED position
         /\ s \in Seq(Frames) /\ Touched(s, Feeds[e])
         /\ shown' \in [Elements -> MaybeValue] /\ value' \in [Elements -> MaybeValue]
         /\ \A g \in Elements : /\ shown'[g] = IF g = e THEN Top.value ELSE shown[g]
                                /\ value'[g] = IF g = e THEN Top.value ELSE value[g]
                                /\ deps'[g] = IF g = e THEN Top.deps ELSE deps[g]
         /\ consumers' \in [Names -> Seq(Elements)] /\ deps' \in [Elements -> SUBSET Names]
         /\ \A g \in Elements : deps'[g] \subseteq Reads(g)
         /\ ConsumersIndexed'
<1>1. /\ frames # <<>> /\ Top.kind = "propagate" /\ e # Nothing
      /\ UNCHANGED position /\ Registers(e, Top.deps)
      /\ value' = [value EXCEPT ![e] = Top.value] /\ Applies(s, e, Top.value)
  BY DEF Reapplies, Freed
<1>2. frames \in Seq(Frames) /\ Top \in Frames /\ VariablesTypeOK /\ ConsumersIndexed
  BY <1>1, Returned DEF StoreInv, VariablesTypeOK
<1>3. e \in Elements /\ Top.value \in MaybeValue /\ Top.deps \subseteq Reads(e)
  BY <1>1, <1>2 DEF Frames, FrameType, WellFormed
<1>4. s \in Seq(Frames)
  <2>1. Freed(Top) \in Frames
    BY <1>1, <1>2, Dropped DEF Freed
  <2> QED BY <1>1, <1>2, <2>1, Replaced
<1>5. /\ consumers' \in [Names -> Seq(Elements)] /\ deps' \in [Elements -> SUBSET Names]
      /\ \A g \in Elements : deps'[g] \subseteq Reads(g)
      /\ ConsumersIndexed'
      /\ \A g \in Elements : deps'[g] = IF g = e THEN Top.deps ELSE deps[g]
  BY <1>1, <1>2, <1>3, RegistersKeepsIndex
<1>6. position' \in [Elements -> Seq(Nat)]
  BY <1>1, <1>2 DEF VariablesTypeOK
<1>7. /\ Touched(s, Feeds[e])
      /\ shown' \in [Elements -> MaybeValue]
      /\ \A g \in Elements : shown'[g] = IF g = e THEN Top.value ELSE shown[g]
  <2> DEFINE v == Top.value
  <2>1. /\ Applies(s, e, v) /\ v \in MaybeValue /\ e \in Elements /\ s \in Seq(Frames)
        /\ VariablesTypeOK /\ consumers' \in [Names -> Seq(Elements)]
    BY <1>1, <1>2, <1>3, <1>4, <1>5
  <2> HIDE DEF v
  <2>2. Touched(s, Feeds[e])
    BY <1>6, <2>1, AppliesTouches
  <2>3. shown' \in [Elements -> MaybeValue]
    BY <1>6, <2>1, AppliesTouches
  <2>4. \A g \in Elements : shown'[g] = IF g = e THEN v ELSE shown[g]
    BY <2>1 DEF Applies, VariablesTypeOK
  <2> QED BY <2>2, <2>3, <2>4 DEF v
<1>8. value' \in [Elements -> MaybeValue]
      /\ \A g \in Elements : value'[g] = IF g = e THEN Top.value ELSE value[g]
  BY <1>1, <1>2, <1>3 DEF VariablesTypeOK
<1> QED BY <1>1, <1>3, <1>4, <1>5, <1>7, <1>8

LEMMA ReappliesKeepsStore ==
  ASSUME StoreInv, Reapplies PROVE StoreInv'
<1> DEFINE e == Top.at
           f == Freed(Top)
           s == Append(Under, f)
           Same == e \in styled \cap live /\ generation[e] = Top.generation
<1>1. /\ frames # <<>> /\ Top.kind = "propagate" /\ e # Nothing
      /\ UNCHANGED <<sequence, styled, generation, live, events, pumped, moved>>
      /\ ~Same => /\ frames' = s
                  /\ UNCHANGED <<captured, consumers, deps, value, shown, property, position, capped>>
  BY DEF Reapplies, Freed
<1>2. frames \in Seq(Frames) /\ Top \in Frames /\ VariablesTypeOK
  BY <1>1, Returned DEF StoreInv, VariablesTypeOK
<1>3. f \in Frames /\ f.kind = "propagate" /\ f.element = Top.element
  BY <1>1, <1>2, Dropped DEF Freed
<1> HIDE DEF f
<1>4. s \in Seq(Frames) /\ \A has : Exclusive(frames, has) => Exclusive(s, has)
  BY <1>1, <1>2, <1>3, Replaced
<1> HIDE DEF s
<1>5. CASE Same
  <2>1. /\ e \in Elements /\ UNCHANGED position /\ Touched(s, Feeds[e])
        /\ shown' \in [Elements -> MaybeValue] /\ value' \in [Elements -> MaybeValue]
        /\ \A g \in Elements : shown'[g] = IF g = e THEN Top.value ELSE shown[g]
        /\ consumers' \in [Names -> Seq(Elements)] /\ deps' \in [Elements -> SUBSET Names]
        /\ \A g \in Elements : deps'[g] \subseteq Reads(g)
        /\ ConsumersIndexed'
    BY <1>5, ReappliesEffect DEF s, f
  <2>2. Numbered' /\ \A has : Exclusive(s, has) => Exclusive(frames', has)
    BY <1>1, <1>4, <2>1, TouchedKeeps
  <2>3. VariablesTypeOK'
    BY <1>1, <1>2, <2>1 DEF VariablesTypeOK, Touched, Reads, Consumes
  <2>4. Bare'
    BY <1>1, <1>5, <2>1 DEF StoreInv, Bare
  <2>5. Exclusive(frames, styled)'
    BY <1>1, <1>4, <2>2 DEF StoreInv
  <2> QED BY <2>1, <2>2, <2>3, <2>4, <2>5 DEF StoreInv
<1>6. CASE ~Same
  <2>1. VariablesTypeOK'
    BY <1>1, <1>2, <1>4, <1>6 DEF VariablesTypeOK, CapturedOK, Reads, Consumes
  <2>2. ConsumersIndexed' /\ Numbered' /\ Bare'
    BY <1>1, <1>6 DEF StoreInv, ConsumersIndexed, Numbered, Bare
  <2>3. Exclusive(frames, styled)'
    BY <1>1, <1>4, <1>6 DEF StoreInv
  <2> QED BY <2>1, <2>2, <2>3 DEF StoreInv
<1> QED BY <1>5, <1>6

LEMMA PropagationEndsKeepsStore ==
  ASSUME StoreInv, PropagationEnds PROVE StoreInv'
<1>1. /\ frames # <<>> /\ frames' = Under
      /\ UNCHANGED <<storeVars, engineVars, worldVars, historyVars>>
  BY DEF PropagationEnds
<1>2. Under \in Seq(Frames) /\ \A has : Exclusive(frames, has) => Exclusive(Under, has)
  BY <1>1, Returned DEF StoreInv, VariablesTypeOK
<1>3. Exclusive(frames, styled)'
  BY <1>1, <1>2 DEF StoreInv, engineVars
<1>4. VariablesTypeOK'
  BY <1>1, <1>2 DEF StoreInv, VariablesTypeOK, CapturedOK, Reads, Consumes,
                    storeVars, engineVars, worldVars, historyVars
<1>5. ConsumersIndexed' /\ Numbered' /\ Bare'
  BY <1>1 DEF StoreInv, ConsumersIndexed, Numbered, Bare, storeVars, engineVars
<1> QED BY <1>3, <1>4, <1>5 DEF StoreInv

LEMMA Untouched ==
  ASSUME VariablesTypeOK, NEW s \in Seq(Frames), frames' = s, UNCHANGED <<property, captured, capped>>
  PROVE  \A n : Touched(s, n)
BY Reflexive DEF Touched, VariablesTypeOK, CapturedOK

LEMMA ReportedTouches ==
  ASSUME VariablesTypeOK, NEW e \in Elements, NEW p \in Positions[e], Reported(e, p),
         NEW s, s = Append(frames, Frame("report", e, <<>>))
  PROVE  /\ s \in Seq(Frames) /\ Touched(s, Feeds[e])
         /\ shown' \in [Elements -> MaybeValue]
         /\ \A g \in Elements : shown'[g] = IF g = e /\ e \in styled THEN Nothing ELSE shown[g]
         /\ position' \in [Elements -> Seq(Nat)]
         /\ \A g \in Elements : position'[g] = IF g = e THEN p ELSE position[g]
<1>1. frames \in Seq(Frames) /\ Frame("report", e, <<>>) \in Frames
  BY FrameWellFormed DEF VariablesTypeOK
<1>2. s \in Seq(Frames)
  BY <1>1, Pushed
<1>3. p \in Seq(Nat) /\ position' = [position EXCEPT ![e] = p]
  BY VariablesAssumption DEF Reported
<1>4. position' \in [Elements -> Seq(Nat)] /\ \A g \in Elements : position'[g] = IF g = e THEN p ELSE position[g]
  BY <1>3 DEF VariablesTypeOK
<1>5. CASE e \in styled
  <2>1. Applies(s, e, Nothing) /\ UNCHANGED consumers
    BY <1>5 DEF Reported, Applies
  <2>2. consumers' \in [Names -> Seq(Elements)] /\ Nothing \in MaybeValue
    BY <2>1 DEF VariablesTypeOK, MaybeValue
  <2>3. /\ Touched(s, Feeds[e]) /\ shown' \in [Elements -> MaybeValue]
        /\ \A g \in Elements : shown'[g] = IF g = e THEN Nothing ELSE shown[g]
    BY <1>2, <1>4, <2>1, <2>2, AppliesTouches
  <2> QED BY <1>2, <1>4, <1>5, <2>3
<1>6. CASE e \notin styled
  <2>1. frames' = s /\ UNCHANGED <<shown, property, captured, capped>>
    BY <1>6 DEF Reported
  <2> QED BY <1>2, <1>4, <1>6, <2>1, Untouched DEF VariablesTypeOK
<1> QED BY <1>5, <1>6

LEMMA ReportedKeepsStore ==
  ASSUME StoreInv, NEW e \in Elements, NEW p \in Positions[e], Reported(e, p) PROVE StoreInv'
<1> DEFINE f == Frame("report", e, <<>>)
           s == Append(frames, f)
<1>0. VariablesTypeOK
  BY DEF StoreInv
<1>1. /\ s \in Seq(Frames) /\ Touched(s, Feeds[e])
      /\ shown' \in [Elements -> MaybeValue]
      /\ \A g \in Elements : shown'[g] = IF g = e /\ e \in styled THEN Nothing ELSE shown[g]
      /\ position' \in [Elements -> Seq(Nat)]
  BY <1>0, ReportedTouches
<1>2. /\ UNCHANGED <<consumers, deps, sequence, styled, generation, value, live>>
      /\ moved' = (moved \/ (p # position[e] /\ Captures(e)))
      /\ pumped' = (pumped \/ frames # <<>>)
  BY DEF Reported, Event
<1>3. f \in Frames /\ f.kind = "report" /\ frames \in Seq(Frames)
  BY <1>0, FrameWellFormed DEF Frame, VariablesTypeOK
<1> HIDE DEF f
<1>4. Exclusive(frames, styled) => Exclusive(s, styled)
  BY <1>3, Called
<1> HIDE DEF s
<1>5. Numbered' /\ \A has : Exclusive(s, has) => Exclusive(frames', has)
  BY <1>1, <1>2, TouchedKeeps
<1>6. Exclusive(frames, styled)'
  BY <1>2, <1>4, <1>5 DEF StoreInv
<1>7. VariablesTypeOK'
  <2>1. moved' \in BOOLEAN /\ pumped' \in BOOLEAN
    BY <1>0, <1>2 DEF VariablesTypeOK
  <2> QED BY <1>0, <1>1, <1>2, <2>1 DEF VariablesTypeOK, Touched, Reads, Consumes
<1>8. ConsumersIndexed' /\ Bare'
  BY <1>1, <1>2 DEF StoreInv, ConsumersIndexed, Bare
<1> QED BY <1>5, <1>6, <1>7, <1>8 DEF StoreInv

(* A report goes on: as a resolved one, then with its captures.             *)
ToResolved(f, e) ==
  [f EXCEPT !.kind = "resolved", !.value = Expanded(e).value, !.deps = Expanded(e).deps,
            !.generation = generation[e] + 1]
Plain(f, e) ==
  [f EXCEPT !.kind = "captures", !.todo = CapturesOf[e], !.generation = generation[e] + 1]
Registered(f, e) ==
  [f EXCEPT !.kind = "captures", !.todo = CapturesOf[e], !.value = Nothing, !.deps = {}]

LEMMA GoesOn ==
  ASSUME VariablesTypeOK, Numbered, NEW f \in Frames, f.kind = "report" \/ f.kind = "resolved"
  PROVE  LET e == f.element IN
         /\ e \in Elements
         /\ Consumes(e) =>
              /\ ToResolved(f, e) \in Frames /\ ToResolved(f, e).element = e
              /\ ToResolved(f, e).kind = "resolved" /\ ToResolved(f, e).at = Nothing
              /\ ToResolved(f, e).value = Expanded(e).value /\ ToResolved(f, e).deps = Expanded(e).deps
              /\ ToResolved(f, e).generation = generation[e] + 1
         /\ \A g \in {Plain(f, e), Registered(f, e)} :
              g \in Frames /\ g.element = e /\ g.kind = "captures" /\ g.at = Nothing
<1> DEFINE e == f.element
<1>1. f \in FrameType /\ WellFormed(f)
  BY DEF Frames
<1>2. e \in Elements /\ f.at = Nothing /\ f.todo \in Seq(Names) /\ CapturesOf[e] \in Seq(Names)
  BY <1>1, VariablesAssumption DEF WellFormed
<1> DEFINE next == generation[e] + 1
<1>3. next \in Nat
  BY <1>2 DEF VariablesTypeOK
<1>4. ASSUME Consumes(e)
      PROVE  /\ ToResolved(f, e) \in Frames /\ ToResolved(f, e).element = e
             /\ ToResolved(f, e).kind = "resolved" /\ ToResolved(f, e).at = Nothing
             /\ ToResolved(f, e).value = Expanded(e).value /\ ToResolved(f, e).deps = Expanded(e).deps
             /\ ToResolved(f, e).generation = generation[e] + 1
  <2> DEFINE g == ToResolved(f, e)
  <2>1. Expanded(e).value \in MaybeValue /\ Expanded(e).deps \subseteq Reads(e) /\ Reads(e) \subseteq Names
    BY <1>2, <1>4, ExpandedTyped, ReadsNames
  <2>2. /\ g.element = e /\ g.kind = "resolved" /\ g.at = Nothing /\ g.todo = f.todo
        /\ g.value = Expanded(e).value /\ g.deps = Expanded(e).deps /\ g.generation = generation[e] + 1
    BY <1>1, <1>2 DEF FrameType, ToResolved
  <2>3. g \in FrameType
    <3>1. g = [f EXCEPT !.kind = "resolved", !.value = Expanded(e).value, !.deps = Expanded(e).deps,
                        !.generation = next]
      BY DEF ToResolved
    <3> HIDE DEF g, next
    <3> QED BY <1>1, <1>3, <2>1, <3>1 DEF FrameType
  <2> HIDE DEF g
  <2>4. WellFormed(g)
    BY <1>2, <2>1, <2>2 DEF WellFormed
  <2> QED BY <2>2, <2>3, <2>4 DEF Frames, g
<1>5. ASSUME NEW g, g = Plain(f, e)
      PROVE  g \in Frames /\ g.element = e /\ g.kind = "captures" /\ g.at = Nothing
  <2>1. g \in FrameType /\ g.element = e /\ g.kind = "captures" /\ g.at = Nothing /\ g.todo = CapturesOf[e]
    <3>1. g = [f EXCEPT !.kind = "captures", !.todo = CapturesOf[e], !.generation = next]
      BY <1>5 DEF Plain
    <3> HIDE DEF next
    <3> QED BY <1>1, <1>2, <1>3, <3>1 DEF FrameType
  <2> QED BY <1>2, <2>1 DEF Frames, WellFormed
<1>6. ASSUME NEW g, g = Registered(f, e)
      PROVE  g \in Frames /\ g.element = e /\ g.kind = "captures" /\ g.at = Nothing
  <2>1. g \in FrameType /\ g.element = e /\ g.kind = "captures" /\ g.at = Nothing /\ g.todo = CapturesOf[e]
    BY <1>1, <1>2, <1>6 DEF FrameType, MaybeValue, Registered
  <2> QED BY <1>2, <2>1 DEF Frames, WellFormed
<1> QED BY <1>2, <1>4, <1>5, <1>6

LEMMA ReportResolvesKeepsStore ==
  ASSUME StoreInv, ReportResolves PROVE StoreInv'
<1> DEFINE e == Top.element
           f == IF Consumes(e) THEN ToResolved(Top, e) ELSE Plain(Top, e)
<1>0. VariablesTypeOK /\ Numbered
  BY DEF StoreInv
<1>1. /\ frames # <<>> /\ Top.kind = "report" /\ frames' = Append(Under, f)
      /\ generation' = [generation EXCEPT ![e] = @ + 1]
      /\ styled' = IF Consumes(e) THEN styled \cup {e} ELSE styled
      /\ UNCHANGED <<storeVars, value, shown, worldVars, historyVars>>
  BY DEF ReportResolves, ToResolved, Plain
<1>2. frames \in Seq(Frames) /\ Top \in Frames
  BY <1>0, <1>1, Returned DEF VariablesTypeOK
<1>3. /\ e \in Elements /\ f \in Frames /\ f.element = Top.element
      /\ f.kind = IF Consumes(e) THEN "resolved" ELSE "captures"
  BY <1>0, <1>1, <1>2, GoesOn
<1> HIDE DEF f
<1>4. /\ frames' \in Seq(Frames)
      /\ Exclusive(frames, styled') => Exclusive(frames', styled')
  BY <1>1, <1>2, <1>3, Replaced
<1>5. Exclusive(frames, styled')
  BY <1>1 DEF StoreInv, Exclusive
<1>6. VariablesTypeOK'
  BY <1>0, <1>1, <1>3, <1>4 DEF VariablesTypeOK, CapturedOK, Reads, Consumes,
                    storeVars, worldVars, historyVars
<1>7. ConsumersIndexed' /\ Numbered' /\ Bare'
  BY <1>1 DEF StoreInv, ConsumersIndexed, Numbered, Bare, storeVars
<1> QED BY <1>4, <1>5, <1>6, <1>7 DEF StoreInv

LEMMA ReportRegistersKeepsStore ==
  ASSUME StoreInv, ReportRegisters PROVE StoreInv'
<1> DEFINE e == Top.element
           f == Registered(Top, e)
           Same == e \in styled /\ generation[e] = Top.generation
<1>0. VariablesTypeOK /\ Numbered
  BY DEF StoreInv
<1>1. /\ frames # <<>> /\ Top.kind = "resolved"
      /\ Same => /\ value' = [value EXCEPT ![e] = Top.value] /\ Registers(e, Top.deps)
                 /\ frames' = Append(Under, f)
      /\ ~Same => frames' = Under /\ UNCHANGED <<value, consumers, deps>>
      /\ UNCHANGED <<captured, sequence, styled, generation, shown, worldVars, historyVars>>
  BY DEF ReportRegisters, Registered
<1>2. frames \in Seq(Frames) /\ Top \in Frames
  BY <1>0, <1>1, Returned DEF VariablesTypeOK
<1>3. e \in Elements /\ f \in Frames /\ f.element = Top.element /\ f.kind = "captures"
  BY <1>0, <1>1, <1>2, GoesOn
<1> HIDE DEF f
<1>4. CASE Same
  <2>1. Top.value \in MaybeValue /\ Top.deps \subseteq Reads(e)
    BY <1>1, <1>2 DEF Frames, FrameType, WellFormed
  <2>2. /\ consumers' \in [Names -> Seq(Elements)] /\ deps' \in [Elements -> SUBSET Names]
        /\ \A g \in Elements : deps'[g] \subseteq Reads(g)
        /\ ConsumersIndexed'
    BY <1>0, <1>1, <1>3, <1>4, <2>1, RegistersKeepsIndex DEF StoreInv
  <2>3. /\ frames' \in Seq(Frames)
        /\ Exclusive(frames, styled) => Exclusive(frames', styled)
    BY <1>1, <1>2, <1>3, <1>4, Replaced
  <2>4. VariablesTypeOK'
    BY <1>0, <1>1, <1>4, <2>1, <2>2, <2>3 DEF VariablesTypeOK, CapturedOK, Reads, Consumes,
                    worldVars, historyVars
  <2>5. Numbered' /\ Bare' /\ Exclusive(frames, styled)'
    BY <1>1, <2>3 DEF StoreInv, Numbered, Bare
  <2> QED BY <2>2, <2>4, <2>5 DEF StoreInv
<1>5. CASE ~Same
  <2>1. Under \in Seq(Frames) /\ \A has : Exclusive(frames, has) => Exclusive(Under, has)
    BY <1>1, <1>2, Returned
  <2>2. VariablesTypeOK'
    BY <1>0, <1>1, <1>5, <2>1 DEF VariablesTypeOK, CapturedOK, Reads, Consumes,
                    worldVars, historyVars
  <2>3. ConsumersIndexed' /\ Numbered' /\ Bare' /\ Exclusive(frames, styled)'
    BY <1>1, <1>5, <2>1 DEF StoreInv, ConsumersIndexed, Numbered, Bare
  <2> QED BY <2>2, <2>3 DEF StoreInv
<1> QED BY <1>4, <1>5

Advanced(f) == [f EXCEPT !.todo = Tail(@)]

(* Registering a capture: it stands where the element is; a new one has the *)
(* latest number and is told to the consumers of its name.                  *)
LEMMA CapturesEffect ==
  ASSUME VariablesTypeOK, ReportCaptures,
         NEW e, e = Top.element, NEW n, n = Head(Top.todo),
         NEW f, f = Advanced(Top)
  PROVE  /\ e \in Elements /\ n \in Names /\ f \in Frames /\ f.element = e /\ f.kind = "captures"
         /\ f.at = Nothing
         /\ Append(Under, f) \in Seq(Frames) /\ frames' \in Seq(Frames) /\ Extension(Append(Under, f), frames')
         /\ CapturedOK' /\ sequence' \in Nat /\ capped' \in BOOLEAN /\ (capped => capped')
         /\ \A g \in Elements, m \in Names : g # e \/ m # n => captured'[g][m] = captured[g][m]
         /\ captured'[e][n].on /\ captured'[e][n].chain = position[e]
         /\ captured[e][n].on =>
              /\ captured' = [captured EXCEPT ![e][n].chain = position[e]]
              /\ captured'[e][n].sequence = captured[e][n].sequence /\ sequence' = sequence
         /\ ~captured[e][n].on =>
              /\ captured'[e][n].sequence = sequence + 1 /\ sequence' = sequence + 1
              /\ ~capped' => Announced(n)
<1> DEFINE s == Append(Under, f)
<1>1. frames # <<>> /\ Top.kind = "captures" /\ Top.todo # <<>> /\ UNCHANGED consumers
  BY DEF ReportCaptures
<1>2. frames \in Seq(Frames) /\ Top \in Frames
  BY <1>1, Returned DEF VariablesTypeOK
<1>3. n \in Names /\ f \in Frames /\ f.element = e /\ f.kind = "captures" /\ f.at = Top.at
  BY <1>1, <1>2, Worked DEF Advanced
<1>4. e \in Elements /\ Top.at = Nothing
  BY <1>1, <1>2 DEF Frames, WellFormed
<1>5. s \in Seq(Frames)
  BY <1>1, <1>2, <1>3, Replaced
<1>6. /\ captured \in [Elements -> [Names -> Site]] /\ captured[e][n] \in Site
      /\ position[e] \in Seq(Nat) /\ property[e][n] \in Value /\ sequence \in Nat /\ sequence + 1 \in Nat
      /\ capped \in BOOLEAN
  BY <1>3, <1>4 DEF VariablesTypeOK, CapturedOK
<1> HIDE DEF s
<1>7. CASE captured[e][n].on
  <2>1. captured' = [captured EXCEPT ![e][n].chain = position[e]] /\ frames' = s /\ UNCHANGED <<sequence, capped>>
    BY <1>7 DEF ReportCaptures, s, Advanced
  <2> DEFINE new == [captured[e][n] EXCEPT !.chain = position[e]]
  <2>2. new \in Site /\ new.on /\ new.chain = position[e] /\ new.sequence = captured[e][n].sequence
    BY <1>6, <1>7 DEF Site
  <2>3. captured' = [captured EXCEPT ![e] = [captured[e] EXCEPT ![n] = new]]
    BY <1>3, <1>4, <1>6, <2>1
  <2> HIDE DEF new
  <2>4. captured' \in [Elements -> [Names -> Site]]
        /\ \A g \in Elements, m \in Names :
             captured'[g][m] = IF g = e /\ m = n THEN new ELSE captured[g][m]
    BY <1>3, <1>4, <1>6, <2>2, <2>3
  <2>5. Extension(s, frames')
    BY <1>5, <2>1, Reflexive
  <2> QED BY <1>3, <1>4, <1>5, <1>6, <1>7, <2>1, <2>2, <2>4, <2>5 DEF s, CapturedOK
<1>8. CASE ~captured[e][n].on
  <2> DEFINE new == [on |-> TRUE, value |-> property[e][n], chain |-> position[e], sequence |-> sequence + 1]
  <2>1. captured' = [captured EXCEPT ![e][n] = new] /\ sequence' = sequence + 1 /\ Propagate(s, n)
    BY <1>8 DEF ReportCaptures, s, Advanced
  <2>2. new \in Site /\ new.on /\ new.chain = position[e] /\ new.sequence = sequence + 1
    BY <1>6 DEF Site
  <2> HIDE DEF new
  <2>3. captured' \in [Elements -> [Names -> Site]]
        /\ \A g \in Elements, m \in Names :
             captured'[g][m] = IF g = e /\ m = n THEN new ELSE captured[g][m]
    BY <1>3, <1>4, <1>6, <2>1, <2>2
  <2>4. /\ frames' \in Seq(Frames) /\ Extension(s, frames')
        /\ capped' \in BOOLEAN /\ (capped => capped')
        /\ ~capped' => Announced(n)
    <3>1. consumers' \in [Names -> Seq(Elements)]
      BY <1>1 DEF VariablesTypeOK
    <3> QED BY <1>3, <1>5, <1>6, <2>1, <3>1, Propagation
  <2> QED BY <1>3, <1>4, <1>5, <1>6, <1>8, <2>1, <2>2, <2>3, <2>4 DEF s, CapturedOK
<1> QED BY <1>7, <1>8

LEMMA ReportCapturesKeepsStore ==
  ASSUME StoreInv, ReportCaptures PROVE StoreInv'
<1> DEFINE e == Top.element
           n == Head(Top.todo)
           f == Advanced(Top)
           s == Append(Under, f)
<1>0. VariablesTypeOK
  BY DEF StoreInv
<1>1. /\ frames # <<>> /\ Top.kind = "captures" /\ UNCHANGED <<consumers, deps>>
      /\ UNCHANGED <<engineVars, worldVars, pumped, moved>>
  BY DEF ReportCaptures
<1>2. /\ e \in Elements /\ n \in Names /\ f \in Frames /\ f.element = e /\ f.kind = "captures"
      /\ s \in Seq(Frames) /\ frames' \in Seq(Frames) /\ Extension(s, frames')
      /\ CapturedOK' /\ sequence' \in Nat /\ capped' \in BOOLEAN
      /\ \A g \in Elements, m \in Names : g # e \/ m # n => captured'[g][m] = captured[g][m]
      /\ captured[e][n].on =>
           captured'[e][n].sequence = captured[e][n].sequence /\ sequence' = sequence
      /\ ~captured[e][n].on =>
           captured'[e][n].sequence = sequence + 1 /\ sequence' = sequence + 1
  BY <1>0, CapturesEffect
<1>3. Top \in Frames /\ frames \in Seq(Frames) /\ e = Top.element /\ Len(frames) \in Nat /\ Len(frames) > 0
  BY <1>0, <1>1, Returned DEF VariablesTypeOK
<1> HIDE DEF f
<1>4. Exclusive(frames, styled)
  BY DEF StoreInv
<1>5. Consumes(e) => e \in styled
  <2>1. Len(frames) \in 1..Len(frames) /\ Top = frames[Len(frames)]
    BY <1>3 DEF Top
  <2> QED BY <1>1, <1>4, <2>1 DEF Exclusive
<1>6. Exclusive(s, styled)
  BY <1>1, <1>2, <1>3, <1>4, <1>5, Replaced
<1> HIDE DEF s, e, n
<1>7. Exclusive(frames, styled)'
  <2>1. Exclusive(frames', styled)
    BY <1>2, <1>6, Extended
  <2> QED BY <1>1, <2>1 DEF engineVars
<1>8. Numbered'
  <2>1. ASSUME NEW m \in Names, NEW g \in Elements, captured'[g][m].on
        PROVE  /\ captured'[g][m].sequence <= sequence'
               /\ \A h \in Elements : captured'[h][m].on /\ captured'[h][m].sequence = captured'[g][m].sequence
                                        => g = h
    <3>1. CASE captured[e][n].on
      <4>1. \A h \in Elements : captured'[h][m].on => captured[h][m].on
        BY <1>2, <3>1
      <4>2. \A h \in Elements : captured'[h][m].sequence = captured[h][m].sequence
        BY <1>2, <3>1
      <4> QED BY <1>2, <2>1, <3>1, <4>1, <4>2 DEF StoreInv, Numbered
    <3>2. CASE ~captured[e][n].on
      <4>1. \A h \in Elements : h # e \/ m # n => captured'[h][m] = captured[h][m]
        BY <1>2
      <4>2. sequence \in Nat /\ sequence' = sequence + 1 /\ captured'[e][n].sequence = sequence + 1
        BY <1>0, <1>2, <3>2 DEF VariablesTypeOK
      <4>3. \A h \in Elements : captured[h][m].on =>
              captured[h][m].sequence <= sequence /\ captured[h][m].sequence \in Nat
        BY <1>0 DEF StoreInv, Numbered, VariablesTypeOK, CapturedOK, Site
      <4>4. CASE m = n /\ g = e
        <5>1. \A h \in Elements : h # e /\ captured'[h][m].on => captured'[h][m].sequence <= sequence
              /\ captured'[h][m].sequence \in Nat
          BY <4>1, <4>3
        <5> QED BY <4>2, <4>4, <5>1
      <4>5. CASE ~(m = n /\ g = e)
        <5>1. captured'[g][m] = captured[g][m]
          BY <4>1, <4>5
        <5>2. captured[g][m].sequence <= sequence /\ captured[g][m].sequence \in Nat
          BY <2>1, <4>3, <5>1
        <5>3. ASSUME NEW h \in Elements, captured'[h][m].on,
                     captured'[h][m].sequence = captured'[g][m].sequence
              PROVE  g = h
          <6>1. ~(h = e /\ m = n)
            BY <4>2, <5>1, <5>2, <5>3
          <6> QED BY <2>1, <4>1, <5>1, <5>3, <6>1 DEF StoreInv, Numbered
        <5> QED BY <4>2, <5>1, <5>2, <5>3
      <4> QED BY <4>4, <4>5
    <3> QED BY <3>1, <3>2
  <2> QED BY <2>1 DEF Numbered
<1>9. VariablesTypeOK'
  BY <1>0, <1>1, <1>2 DEF VariablesTypeOK, Reads, Consumes, engineVars, worldVars
<1>10. ConsumersIndexed' /\ Bare'
  BY <1>1 DEF StoreInv, ConsumersIndexed, Bare, engineVars
<1> QED BY <1>7, <1>8, <1>9, <1>10 DEF StoreInv

LEMMA ReportAppliesTouches ==
  ASSUME VariablesTypeOK, ReportApplies, NEW e, e = Top.element
  PROVE  /\ e \in Elements /\ Under \in Seq(Frames) /\ Touched(Under, Feeds[e])
         /\ shown' \in [Elements -> MaybeValue]
         /\ \A g \in Elements : shown'[g] = IF g = e /\ Consumes(e) THEN value[e] ELSE shown[g]
<1>1. /\ frames # <<>> /\ Top.kind = "captures" /\ UNCHANGED <<consumers, position>>
      /\ IF Consumes(e) THEN Applies(Under, e, value[e])
         ELSE frames' = Under /\ UNCHANGED <<shown, property, captured, capped>>
  BY DEF ReportApplies
<1>2. Under \in Seq(Frames) /\ Top \in Frames
  BY <1>1, Returned DEF VariablesTypeOK
<1>3. e \in Elements
  BY <1>1, <1>2 DEF Frames, WellFormed
<1>4. CASE Consumes(e)
  <2> DEFINE v == value[e]
  <2>1. /\ v \in MaybeValue /\ consumers' \in [Names -> Seq(Elements)]
        /\ position' \in [Elements -> Seq(Nat)] /\ Applies(Under, e, v)
    BY <1>1, <1>3, <1>4 DEF VariablesTypeOK
  <2> HIDE DEF v
  <2>2. /\ Touched(Under, Feeds[e]) /\ shown' \in [Elements -> MaybeValue]
        /\ \A g \in Elements : shown'[g] = IF g = e THEN v ELSE shown[g]
    BY <1>2, <1>3, <2>1, AppliesTouches
  <2> QED BY <1>2, <1>3, <1>4, <2>2 DEF v
<1>5. CASE ~Consumes(e)
  <2>1. frames' = Under /\ UNCHANGED <<shown, property, captured, capped>>
    BY <1>1, <1>5
  <2> QED BY <1>2, <1>3, <1>5, <2>1, Untouched DEF VariablesTypeOK
<1> QED BY <1>4, <1>5

LEMMA ReportAppliesKeepsStore ==
  ASSUME StoreInv, ReportApplies PROVE StoreInv'
<1> DEFINE e == Top.element
<1>0. VariablesTypeOK
  BY DEF StoreInv
<1>1. /\ frames # <<>> /\ Top.kind = "captures" /\ UNCHANGED <<consumers, position>>
      /\ UNCHANGED <<deps, sequence, styled, generation, value, live, events, pumped, moved>>
  BY DEF ReportApplies
<1>2. /\ e \in Elements /\ Under \in Seq(Frames) /\ Touched(Under, Feeds[e])
      /\ shown' \in [Elements -> MaybeValue]
      /\ \A g \in Elements : shown'[g] = IF g = e /\ Consumes(e) THEN value[e] ELSE shown[g]
  BY <1>0, ReportAppliesTouches
<1>3. Numbered' /\ \A has : Exclusive(Under, has) => Exclusive(frames', has)
  BY <1>1, <1>2, TouchedKeeps
<1>4. Exclusive(frames, styled) /\ Exclusive(Under, styled)
  BY <1>0, <1>1, Returned DEF StoreInv, VariablesTypeOK
<1>5. Exclusive(frames, styled)'
  BY <1>1, <1>3, <1>4
<1>6. Consumes(e) => e \in styled
  <2>1. Len(frames) \in 1..Len(frames) /\ Top = frames[Len(frames)]
    BY <1>0, <1>1, Returned DEF Top, VariablesTypeOK
  <2> QED BY <1>1, <1>4, <2>1 DEF Exclusive
<1>7. Bare'
  BY <1>1, <1>2, <1>6 DEF StoreInv, Bare
<1>8. VariablesTypeOK'
  BY <1>0, <1>1, <1>2 DEF VariablesTypeOK, Touched, Reads, Consumes
<1>9. ConsumersIndexed'
  BY <1>1 DEF StoreInv, ConsumersIndexed
<1> QED BY <1>3, <1>5, <1>7, <1>8, <1>9 DEF StoreInv

LEMMA PropertyChangesKeepsStore ==
  ASSUME StoreInv, NEW e \in Elements, NEW n \in Names, NEW v \in 0..MaxValue, PropertyChanges(e, n, v)
  PROVE  StoreInv' /\ Touched(frames, n)
<1>0. VariablesTypeOK
  BY DEF StoreInv
<1>1. /\ UNCHANGED <<consumers, position>> /\ SetsProperty(frames, e, n, v)
      /\ UNCHANGED <<deps, sequence, engineVars, live, moved>>
      /\ pumped' = (pumped \/ frames # <<>>)
  BY DEF PropertyChanges, Event
<1>2. Touched(frames, n)
  <2>1. /\ frames \in Seq(Frames) /\ consumers' \in [Names -> Seq(Elements)]
        /\ position' \in [Elements -> Seq(Nat)] /\ v \in Value
    BY <1>0, <1>1 DEF VariablesTypeOK, Value
  <2> QED BY <1>0, <1>1, <2>1, SetsPropertyTouches
<1>3. Numbered' /\ \A has : Exclusive(frames, has) => Exclusive(frames', has)
  BY <1>0, <1>1, <1>2, TouchedKeeps DEF VariablesTypeOK
<1>4. Exclusive(frames, styled)'
  BY <1>1, <1>3 DEF StoreInv, engineVars
<1>5. VariablesTypeOK'
  BY <1>0, <1>1, <1>2 DEF VariablesTypeOK, Touched, Reads, Consumes, engineVars
<1>6. ConsumersIndexed' /\ Bare'
  BY <1>1 DEF StoreInv, ConsumersIndexed, Bare, engineVars
<1> QED BY <1>2, <1>3, <1>4, <1>5, <1>6 DEF StoreInv

(* A removal takes all captures of its element, and works through their     *)
(* names in some order.                                                     *)
LEMMA RemovedEffect ==
  ASSUME VariablesTypeOK, NEW e \in Elements, Removed(e)
  PROVE  \E names \in Seq(Names) :
         /\ Range(names) = {n \in Names : captured[e][n].on}
         /\ Frame("remove", e, names) \in Frames
         /\ frames' = Append(frames, Frame("remove", e, names)) /\ frames' \in Seq(Frames)
         /\ CapturedOK'
         /\ \A f \in Elements, n \in Names :
              captured'[f][n] = IF f = e THEN NoSite ELSE captured[f][n]
<1> DEFINE On == {n \in Names : captured[e][n].on}
<1>1. PICK names \in Orders(On) : frames' = Append(frames, Frame("remove", e, names))
  BY DEF Removed
<1>2. Cardinality(On) \in Nat
  <2>1. IsFiniteSet(On)
    BY VariablesAssumption, FS_Subset
  <2> QED BY <2>1, FS_CardinalityType
<1>3. names \in [1..Cardinality(On) -> On] /\ Range(names) = On
  BY DEF Orders
<1> HIDE DEF On
<1>4. On \subseteq Names
  BY DEF On
<1>5. names \in Seq(Names)
  <2>1. names \in [1..Cardinality(On) -> Names]
    BY <1>3, <1>4
  <2> QED BY <1>2, <2>1, SeqDef
<1>6. Frame("remove", e, names) \in Frames
  BY <1>5, FrameWellFormed
<1>7. frames' \in Seq(Frames)
  <2>1. frames \in Seq(Frames)
    BY DEF VariablesTypeOK
  <2> QED BY <1>1, <1>6, <2>1, Pushed
<1>8. captured' = [captured EXCEPT ![e] = [n \in Names |-> NoSite]]
  BY DEF Removed
<1>9. NoSite \in Site
  BY VariablesAssumption, EmptySeq DEF NoSite, Site, Value
<1>10. captured' \in [Elements -> [Names -> Site]]
      /\ \A f \in Elements, n \in Names : captured'[f][n] = IF f = e THEN NoSite ELSE captured[f][n]
  BY <1>8, <1>9 DEF VariablesTypeOK, CapturedOK
<1> QED BY <1>1, <1>3, <1>5, <1>6, <1>7, <1>10 DEF CapturedOK, On

LEMMA RemovedKeepsStore ==
  ASSUME StoreInv, NEW e \in Elements, Removed(e) PROVE StoreInv'
<1>0. VariablesTypeOK
  BY DEF StoreInv
<1>1. /\ ~Capturing(e) /\ pumped' = (pumped \/ frames # <<>>)
      /\ UNCHANGED <<consumers, deps, sequence, engineVars, property, position, live, capped, moved>>
  BY DEF Removed, Event
<1>2. PICK names \in Seq(Names) :
         /\ Frame("remove", e, names) \in Frames
         /\ frames' = Append(frames, Frame("remove", e, names)) /\ frames' \in Seq(Frames)
         /\ CapturedOK'
         /\ \A f \in Elements, n \in Names :
              captured'[f][n] = IF f = e THEN NoSite ELSE captured[f][n]
  BY <1>0, RemovedEffect
<1> DEFINE f == Frame("remove", e, names)
<1>3. f \in Frames /\ f.kind = "remove" /\ f.element = e /\ frames \in Seq(Frames)
  BY <1>0, <1>2 DEF Frame, VariablesTypeOK
<1> HIDE DEF f
<1>4. Exclusive(frames, styled)'
  <2>1. frames' = Append(frames, f)
    BY <1>2 DEF f
  <2>2. Exclusive(frames, styled) => Exclusive(frames', styled)
    BY <1>1, <1>3, <2>1, Called
  <2> QED BY <1>1, <2>2 DEF StoreInv, engineVars
<1>5. Numbered'
  <2>1. \A g \in Elements, n \in Names : captured'[g][n].on =>
          captured'[g][n] = captured[g][n]
    BY <1>2 DEF NoSite
  <2> QED BY <1>1, <2>1 DEF StoreInv, Numbered
<1>6. VariablesTypeOK'
  BY <1>0, <1>1, <1>2 DEF VariablesTypeOK, Reads, Consumes, engineVars
<1>7. ConsumersIndexed' /\ Bare'
  BY <1>1 DEF StoreInv, ConsumersIndexed, Bare, engineVars
<1> QED BY <1>4, <1>5, <1>6, <1>7 DEF StoreInv

LEMMA RemovalPropagatesEffect ==
  ASSUME VariablesTypeOK, RemovalPropagates,
         NEW n, n = Head(Top.todo), NEW f, f = Advanced(Top)
  PROVE  /\ Top.element \in Elements /\ n \in Names
         /\ f \in Frames /\ f.element = Top.element /\ f.kind = "remove" /\ f.at = Nothing
         /\ Range(Top.todo) = {n} \cup Range(f.todo)
         /\ Append(Under, f) \in Seq(Frames) /\ frames' \in Seq(Frames) /\ Extension(Append(Under, f), frames')
         /\ capped' \in BOOLEAN /\ (capped => capped')
         /\ ~capped' => Announced(n)
<1>1. /\ frames # <<>> /\ Top.kind = "remove" /\ Top.todo # <<>> /\ UNCHANGED consumers
      /\ Propagate(Append(Under, f), n)
  BY DEF RemovalPropagates, Advanced
<1>2. frames \in Seq(Frames) /\ Top \in Frames
  BY <1>1, Returned DEF VariablesTypeOK
<1>3. n \in Names /\ f \in Frames /\ f.element = Top.element /\ f.kind = "remove" /\ f.at = Top.at
      /\ Range(Top.todo) = {n} \cup Range(f.todo)
  BY <1>1, <1>2, Worked DEF Advanced
<1>4. Top.element \in Elements /\ Top.at = Nothing
  BY <1>1, <1>2 DEF Frames, WellFormed
<1> DEFINE s == Append(Under, f)
<1>5. s \in Seq(Frames)
  BY <1>1, <1>2, <1>3, Replaced
<1>6. consumers' \in [Names -> Seq(Elements)] /\ capped \in BOOLEAN /\ Propagate(s, n)
  BY <1>1 DEF VariablesTypeOK
<1> HIDE DEF s
<1>7. /\ frames' \in Seq(Frames) /\ Extension(s, frames')
      /\ capped' \in BOOLEAN /\ (capped => capped')
      /\ ~capped' => Announced(n)
  BY <1>3, <1>5, <1>6, Propagation
<1> QED BY <1>3, <1>4, <1>5, <1>7 DEF s

LEMMA RemovalPropagatesKeepsStore ==
  ASSUME StoreInv, RemovalPropagates PROVE StoreInv'
<1> DEFINE n == Head(Top.todo)
           f == Advanced(Top)
           s == Append(Under, f)
<1>0. VariablesTypeOK
  BY DEF StoreInv
<1>1. /\ frames # <<>> /\ Top.kind = "remove" /\ UNCHANGED consumers
      /\ UNCHANGED <<captured, deps, sequence, engineVars, worldVars, pumped, moved>>
  BY DEF RemovalPropagates
<1>2. /\ f \in Frames /\ f.element = Top.element /\ f.kind = "remove"
      /\ s \in Seq(Frames) /\ frames' \in Seq(Frames) /\ Extension(s, frames') /\ capped' \in BOOLEAN
  BY <1>0, RemovalPropagatesEffect
<1> HIDE DEF f
<1>3. Exclusive(frames, styled) => Exclusive(s, styled)
  <2>1. frames \in Seq(Frames)
    BY <1>0 DEF VariablesTypeOK
  <2> QED BY <1>1, <1>2, <2>1, Replaced
<1> HIDE DEF s
<1>4. Exclusive(frames, styled)'
  BY <1>1, <1>2, <1>3, Extended DEF StoreInv, engineVars
<1>5. VariablesTypeOK'
  BY <1>0, <1>1, <1>2 DEF VariablesTypeOK, CapturedOK, Reads, Consumes, engineVars, worldVars
<1>6. ConsumersIndexed' /\ Numbered' /\ Bare'
  BY <1>1 DEF StoreInv, ConsumersIndexed, Numbered, Bare, engineVars
<1> QED BY <1>4, <1>5, <1>6 DEF StoreInv

LEMMA RemovalEndsEffect ==
  ASSUME StoreInv, RemovalEnds, NEW e, e = Top.element
  PROVE  /\ e \in Elements /\ Under \in Seq(Frames) /\ Touched(Under, Feeds[e])
         /\ shown' \in [Elements -> MaybeValue] /\ value' \in [Elements -> MaybeValue]
         /\ \A g \in Elements : /\ shown'[g] = IF g = e THEN Nothing ELSE shown[g]
                                /\ value'[g] = IF g = e THEN Nothing ELSE value[g]
                                /\ deps'[g] = IF g = e THEN {} ELSE deps[g]
         /\ consumers' \in [Names -> Seq(Elements)] /\ deps' \in [Elements -> SUBSET Names]
         /\ \A g \in Elements : deps'[g] \subseteq Reads(g)
         /\ ConsumersIndexed'
<1>0. VariablesTypeOK /\ ConsumersIndexed
  BY DEF StoreInv
<1>1. /\ frames # <<>> /\ Top.kind = "remove" /\ UNCHANGED position
      /\ Registers(e, {}) /\ value' = [value EXCEPT ![e] = Nothing] /\ Applies(Under, e, Nothing)
  BY DEF RemovalEnds
<1>2. Under \in Seq(Frames) /\ Top \in Frames
  BY <1>0, <1>1, Returned DEF VariablesTypeOK
<1>3. e \in Elements
  BY <1>1, <1>2 DEF Frames, WellFormed
<1>4. /\ consumers' \in [Names -> Seq(Elements)] /\ deps' \in [Elements -> SUBSET Names]
      /\ \A g \in Elements : deps'[g] \subseteq Reads(g)
      /\ ConsumersIndexed'
      /\ \A g \in Elements : deps'[g] = IF g = e THEN {} ELSE deps[g]
  BY <1>0, <1>1, <1>3, RegistersKeepsIndex
<1>5. Nothing \in MaybeValue /\ position' \in [Elements -> Seq(Nat)]
  BY <1>0, <1>1 DEF VariablesTypeOK, MaybeValue
<1>6. /\ Touched(Under, Feeds[e]) /\ shown' \in [Elements -> MaybeValue]
      /\ \A g \in Elements : shown'[g] = IF g = e THEN Nothing ELSE shown[g]
  <2> DEFINE s == Under
  <2>1. /\ s \in Seq(Frames) /\ Applies(s, e, Nothing) /\ consumers' \in [Names -> Seq(Elements)]
        /\ VariablesTypeOK
    BY <1>0, <1>1, <1>2, <1>4
  <2> HIDE DEF s
  <2>2. /\ Touched(s, Feeds[e]) /\ shown' \in [Elements -> MaybeValue]
        /\ \A g \in Elements : shown'[g] = IF g = e THEN Nothing ELSE shown[g]
    BY <1>3, <1>5, <2>1, AppliesTouches
  <2> QED BY <2>2 DEF s
<1>7. value' \in [Elements -> MaybeValue]
      /\ \A g \in Elements : value'[g] = IF g = e THEN Nothing ELSE value[g]
  BY <1>0, <1>1, <1>3, <1>5 DEF VariablesTypeOK
<1> QED BY <1>2, <1>3, <1>4, <1>6, <1>7

LEMMA RemovalEndsKeepsStore ==
  ASSUME StoreInv, RemovalEnds PROVE StoreInv'
<1> DEFINE e == Top.element
<1>0. VariablesTypeOK /\ Exclusive(frames, styled)
  BY DEF StoreInv
<1>1. /\ frames # <<>> /\ Top.kind = "remove" /\ UNCHANGED position /\ styled' = styled \ {e}
      /\ UNCHANGED <<sequence, generation, live, events, pumped, moved>>
  BY DEF RemovalEnds
<1>2. /\ e \in Elements /\ Under \in Seq(Frames) /\ Touched(Under, Feeds[e])
      /\ shown' \in [Elements -> MaybeValue] /\ value' \in [Elements -> MaybeValue]
      /\ \A g \in Elements : shown'[g] = IF g = e THEN Nothing ELSE shown[g]
      /\ consumers' \in [Names -> Seq(Elements)] /\ deps' \in [Elements -> SUBSET Names]
      /\ \A g \in Elements : deps'[g] \subseteq Reads(g)
      /\ ConsumersIndexed'
  BY RemovalEndsEffect
<1>3. Numbered' /\ \A has : Exclusive(Under, has) => Exclusive(frames', has)
  BY <1>1, <1>2, TouchedKeeps
<1>4. Exclusive(Under, styled \ {e})
  <2>1. /\ Exclusive(Under, styled) /\ Len(frames) \in Nat /\ Len(frames) > 0
        /\ Len(Under) = Len(frames) - 1 /\ \A i \in 1..Len(Under) : Under[i] = frames[i]
    BY <1>0, <1>1, Returned DEF VariablesTypeOK
  <2>2. ASSUME NEW i \in 1..Len(Under), Under[i].kind = "captures"
        PROVE  Under[i].element # e
    <3>1. /\ i \in 1..Len(frames) /\ Len(frames) \in 1..Len(frames) /\ ~(Len(frames) < i)
          /\ frames[i].kind = "captures" /\ frames[Len(frames)].kind = "remove"
          /\ frames[Len(frames)].element = e /\ Under[i] = frames[i]
      BY <1>1, <2>1, <2>2 DEF Top
    <3> QED BY <1>0, <3>1 DEF Exclusive
  <2> QED BY <2>1, <2>2 DEF Exclusive
<1>5. Exclusive(frames, styled)'
  BY <1>1, <1>3, <1>4
<1>6. Bare'
  BY <1>1, <1>2 DEF StoreInv, Bare
<1>7. VariablesTypeOK'
  BY <1>0, <1>1, <1>2 DEF VariablesTypeOK, Touched, Reads, Consumes
<1> QED BY <1>2, <1>3, <1>5, <1>6, <1>7 DEF StoreInv

LEMMA RestoreAllKeepsStore ==
  ASSUME StoreInv, RestoreAll PROVE StoreInv'
<1>0. VariablesTypeOK
  BY DEF StoreInv
<1>1. /\ \A e \in Elements : ~Capturing(e)
      /\ captured' = [e \in Elements |-> [n \in Names |-> NoSite]]
      /\ consumers' = [n \in Names |-> <<>>] /\ deps' = [e \in Elements |-> {}]
      /\ styled' = {} /\ value' = [e \in Elements |-> Nothing] /\ shown' = [e \in Elements |-> Nothing]
      /\ property' = [e \in Elements |-> [n \in Names |-> IF n = Feeds[e] THEN 0 ELSE property[e][n]]]
      /\ UNCHANGED <<sequence, frames, generation, position, live, capped, moved>>
      /\ pumped' = (pumped \/ frames # <<>>)
  BY DEF RestoreAll, Event
<1>2. NoSite \in Site /\ 0 \in Value
  BY VariablesAssumption, EmptySeq DEF NoSite, Site, Value
<1>3. VariablesTypeOK'
  <2>1. CapturedOK' /\ property' \in [Elements -> [Names -> Value]]
    BY <1>0, <1>1, <1>2 DEF CapturedOK, VariablesTypeOK
  <2>2. consumers' \in [Names -> Seq(Elements)]
    BY <1>1, EmptySeq
  <2> QED BY <1>0, <1>1, <2>1, <2>2 DEF VariablesTypeOK, MaybeValue, Reads
<1>4. ConsumersIndexed'
  <2>1. Range(<<>>) = {} /\ IsInjective(<<>>)
    BY DEF Range, IsInjective
  <2> QED BY <1>1, <2>1 DEF ConsumersIndexed
<1>5. Numbered' /\ Bare'
  BY <1>1 DEF Numbered, Bare, NoSite
<1>6. Exclusive(frames, styled)'
  <2>1. \A i \in 1..Len(frames) : frames[i] \in Frames
    BY <1>0 DEF VariablesTypeOK
  <2>2. \A i \in 1..Len(frames) : frames[i].kind # "captures"
    BY <1>1, <2>1 DEF Capturing, Frames, WellFormed
  <2> QED BY <1>1, <2>2 DEF Exclusive
<1> QED BY <1>3, <1>4, <1>5, <1>6 DEF StoreInv

LEMMA DiesKeepsStore ==
  ASSUME StoreInv, NEW e \in Elements, Dies(e) PROVE StoreInv'
<1>1. /\ live' = live \ {e} /\ UNCHANGED <<storeVars, frames, engineVars, property, position, capped, moved>>
      /\ pumped' = (pumped \/ frames # <<>>)
  BY DEF Dies, Event
<1>2. VariablesTypeOK'
  BY <1>1 DEF StoreInv, VariablesTypeOK, CapturedOK, Reads, Consumes, storeVars, engineVars
<1>3. ConsumersIndexed' /\ Numbered' /\ Bare' /\ Exclusive(frames, styled)'
  BY <1>1 DEF StoreInv, ConsumersIndexed, Numbered, Bare, storeVars, engineVars
<1> QED BY <1>2, <1>3 DEF StoreInv

LEMMA InitStore == Init => StoreInv
<1> SUFFICES ASSUME Init PROVE StoreInv
  OBVIOUS
<1>1. NoSite \in Site /\ 0 \in Value
  BY VariablesAssumption, EmptySeq DEF NoSite, Site, Value
<1>2. VariablesTypeOK
  <2>1. CapturedOK /\ property \in [Elements -> [Names -> Value]]
    BY <1>1 DEF Init, CapturedOK
  <2>2. consumers \in [Names -> Seq(Elements)] /\ frames \in Seq(Frames)
    BY EmptySeq DEF Init
  <2>3. position \in [Elements -> Seq(Nat)]
    <3>1. position \in [Elements -> UNION {Positions[e] : e \in Elements}]
          /\ \A e \in Elements : position[e] \in Positions[e]
      BY DEF Init
    <3>2. \A e \in Elements : position[e] \in Seq(Nat)
      BY <3>1, VariablesAssumption
    <3> QED BY <3>1, <3>2
  <2> QED BY <2>1, <2>2, <2>3 DEF Init, VariablesTypeOK, MaybeValue, Reads
<1>3. ConsumersIndexed
  <2>1. Range(<<>>) = {} /\ IsInjective(<<>>)
    BY DEF Range, IsInjective
  <2> QED BY <2>1 DEF Init, ConsumersIndexed
<1>4. Numbered /\ Bare /\ Exclusive(frames, styled)
  BY DEF Init, Numbered, Bare, Exclusive, NoSite
<1> QED BY <1>2, <1>3, <1>4 DEF StoreInv

LEMMA StoreInvariant == StoreInv /\ [Next]_vars => StoreInv'
<1> SUFFICES ASSUME StoreInv, [Next]_vars PROVE StoreInv'
  OBVIOUS
<1>1. CASE UNCHANGED vars
  BY <1>1 DEF StoreInv, VariablesTypeOK, CapturedOK, ConsumersIndexed, Numbered, Bare, Reads, Consumes,
              vars, storeVars, engineVars, worldVars, historyVars
<1>2. CASE Next
  <2>1. CASE Resolves
    BY <2>1, ResolvesKeepsStore
  <2>2. CASE Reapplies
    BY <2>2, ReappliesKeepsStore
  <2>3. CASE PropagationEnds
    BY <2>3, PropagationEndsKeepsStore
  <2>4. CASE \E e \in Elements : \E p \in Positions[e] : Reported(e, p)
    BY <2>4, ReportedKeepsStore
  <2>5. CASE ReportResolves
    BY <2>5, ReportResolvesKeepsStore
  <2>6. CASE ReportRegisters
    BY <2>6, ReportRegistersKeepsStore
  <2>7. CASE ReportCaptures
    BY <2>7, ReportCapturesKeepsStore
  <2>8. CASE ReportApplies
    BY <2>8, ReportAppliesKeepsStore
  <2>9. CASE \E e \in Elements, n \in Names, v \in 0..MaxValue : PropertyChanges(e, n, v)
    BY <2>9, PropertyChangesKeepsStore
  <2>10. CASE \E e \in Elements : Removed(e) \/ Dies(e)
    BY <2>10, RemovedKeepsStore, DiesKeepsStore
  <2>11. CASE RemovalPropagates
    BY <2>11, RemovalPropagatesKeepsStore
  <2>12. CASE RemovalEnds
    BY <2>12, RemovalEndsKeepsStore
  <2>13. CASE RestoreAll
    BY <2>13, RestoreAllKeepsStore
  <2> QED BY <1>2, <2>1, <2>2, <2>3, <2>4, <2>5, <2>6, <2>7, <2>8, <2>9, <2>10, <2>11, <2>12, <2>13 DEF Next
<1> QED BY <1>1, <1>2

-----------------------------------------------------------------------------
(* Convergence.  While no propagation was capped, no event ran inside a     *)
(* resolution and no captured element moved, every styled element has the   *)
(* value and the dependencies its expression has now, or a call on the      *)
(* stack will see to it.                                                    *)
Calm == ~capped /\ ~pumped /\ ~moved

Sound(g) == value[g] = Expanded(g).value /\ deps[g] = Expanded(g).deps
Orphaned(g) == \E f \in Elements \ live, n \in deps[g] : captured[f][n].on

(* What a call holds for an element is what would be resolved now.          *)
Current(f, g) ==
  /\ g \in styled \cap live /\ generation[g] = f.generation
  /\ f.value = Expanded(g).value /\ f.deps = Expanded(g).deps

(* One event at a time, and below the innermost call nothing is resolved.   *)
Standing ==
  \A i \in 1..Len(frames) :
    /\ i > 1 => frames[i].kind = "propagate"
    /\ i < Len(frames) => Idle(frames[i])
    /\ frames[i].at # Nothing => Current(frames[i], frames[i].at)
    /\ frames[i].kind = "resolved" => Current(frames[i], frames[i].element)
    /\ frames[i].kind \in {"report", "captures"} => frames[i].element \in live

Placed == \A e \in Elements, n \in Names : captured[e][n].on => captured[e][n].chain = position[e]
Followed ==
  \A g \in styled \cap live : Sound(g) \/ Pending(frames, g, deps[g]) \/ Orphaned(g)
Displayed ==
  \A g \in styled \cap live : shown[g] = value[g] \/ Handled(frames, g)

Consistent == Standing /\ Placed /\ Followed /\ Displayed
VariablesInv == StoreInv /\ (Calm => Consistent)

LEMMA SettledStands ==
  ASSUME Settled(frames'), live' = live PROVE Standing'
BY DEF Settled, Standing, Idle

LEMMA SettledUnder ==
  ASSUME frames \in Seq(Frames), frames # <<>>, Standing PROVE Settled(Under)
<1>1. /\ Len(frames) \in Nat /\ Len(Under) = Len(frames) - 1
      /\ \A i \in 1..Len(Under) : Under[i] = frames[i]
  BY Returned
<1>2. \A i \in 1..Len(Under) : i \in 1..Len(frames) /\ i < Len(frames) /\ Under[i] = frames[i]
  BY <1>1
<1> QED BY <1>2 DEF Settled, Standing

LEMMA SettledReplaced ==
  ASSUME frames \in Seq(Frames), frames # <<>>, Standing, NEW f \in Frames, Idle(f),
         Top.kind = "propagate" => f.kind = "propagate",
         f.kind \in {"report", "captures"} => f.element \in live
  PROVE  Settled(Append(Under, f))
<1> DEFINE s == Append(Under, f)
<1>1. /\ Len(s) = Len(frames) /\ Len(s) \in Nat /\ Len(s) > 0
      /\ \A i \in 1..Len(s) : s[i] = IF i = Len(s) THEN f ELSE frames[i]
  BY Replaced
<1> HIDE DEF s
<1>2. ASSUME NEW i \in 1..Len(s)
      PROVE  /\ Idle(s[i]) /\ (i > 1 => s[i].kind = "propagate")
             /\ s[i].kind \in {"report", "captures"} => s[i].element \in live
  <2>1. CASE i = Len(s)
    <3>1. i > 1 => Top.kind = "propagate"
      BY <1>1, <2>1 DEF Standing, Top
    <3> QED BY <1>1, <2>1, <3>1
  <2>2. CASE i # Len(s)
    BY <1>1, <2>2 DEF Standing
  <2> QED BY <2>1, <2>2
<1> QED BY <1>2 DEF Settled, s

LEMMA SameExpansion ==
  ASSUME UNCHANGED <<captured, live, position>>
  PROVE  \A g : Expanded(g)' = Expanded(g)
BY DEF Expanded, Lookup, Sites

(* An element that has been resolved stays sound, or is told.               *)
LEMMA StaysSound ==
  ASSUME StoreInv, StoreInv', live' = live, NEW g \in Elements, Consumes(g),
         position'[g] = position[g],
         value'[g] = Expanded(g).value, deps'[g] = Expanded(g).deps,
         NEW n, \A f \in Elements, m \in Names : m # n => captured'[f][m] = captured[f][m],
         captured' = captured \/ Announced(n)
  PROVE  Sound(g)' \/ Pending(frames', g, deps'[g])
<1>1. Expanded(g).deps \subseteq Names
  BY ExpandedTyped, ReadsNames DEF StoreInv
<1>2. CASE n \in Expanded(g).deps /\ Announced(n)
  <2>1. g \in Range(consumers'[n])
    BY <1>1, <1>2 DEF StoreInv, ConsumersIndexed
  <2>2. PICK i \in 1..Len(frames') : frames'[i].kind = "propagate" /\ g \in Range(frames'[i].todo)
    BY <1>2, <2>1 DEF Announced
  <2> QED BY <2>2 DEF Pending, Covers
<1>3. CASE ~(n \in Expanded(g).deps /\ Announced(n))
  <2>1. \A m \in Expanded(g).deps : \A f \in Elements : captured'[f][m] = captured[f][m]
    BY <1>1, <1>3
  <2>2. \A m \in Expanded(g).deps : Unaffected(m)
    BY <2>1 DEF Unaffected
  <2>3. live \subseteq Elements /\ live' \subseteq Elements
    BY DEF StoreInv, VariablesTypeOK
  <2>4. Expanded(g)' = Expanded(g)
    BY <2>2, <2>3, ExpansionIsLocal
  <2> QED BY <2>4 DEF Sound
<1> QED BY <1>2, <1>3

LEMMA StaysFollowed ==
  ASSUME StoreInv, StoreInv', Followed, live' = live, NEW g \in styled \cap live,
         position'[g] = position[g], value'[g] = value[g], deps'[g] = deps[g],
         NEW n, \A f \in Elements, m \in Names : m # n => captured'[f][m] = captured[f][m],
         captured' = captured \/ Announced(n),
         \A f \in Elements, m \in Names : captured[f][m].on => captured'[f][m].on,
         Pending(frames, g, deps[g]) => Pending(frames', g, deps[g])
  PROVE  Sound(g)' \/ Pending(frames', g, deps'[g]) \/ Orphaned(g)'
<1>1. g \in Elements /\ Consumes(g) /\ deps[g] \subseteq Names
  BY DEF StoreInv, VariablesTypeOK
<1>2. CASE Sound(g)
  BY <1>1, <1>2, StaysSound DEF Sound
<1>3. CASE Pending(frames, g, deps[g])
  BY <1>3
<1>4. CASE Orphaned(g)
  BY <1>1, <1>4 DEF Orphaned
<1> QED BY <1>2, <1>3, <1>4 DEF Followed

LEMMA ResolvesEffect ==
  ASSUME StoreInv, Resolves
  PROVE  \E e \in Elements, f \in Frames :
         /\ Range(Top.todo) = {e} \cup Range(f.todo)
         /\ frames' = Append(Under, f)
         /\ f.kind = "propagate"
         /\ e \in styled \cap live =>
              f.at = e /\ f.value = Expanded(e).value /\ f.deps = Expanded(e).deps
              /\ f.generation = generation[e]
         /\ e \notin styled \cap live => f.at = Nothing
<1> DEFINE e == Head(Top.todo)
           next == [Top EXCEPT !.todo = Tail(@)]
           f == IF e \in styled \cap live THEN At(next, e) ELSE next
<1>1. /\ frames # <<>> /\ Top.kind = "propagate" /\ Top.at = Nothing /\ Top.todo # <<>>
      /\ frames' = Append(Under, f)
  BY DEF Resolves, At
<1>2. Top \in Frames /\ VariablesTypeOK /\ Numbered
  BY <1>1, Returned DEF StoreInv, VariablesTypeOK
<1>3. /\ next \in Frames /\ next.kind = "propagate" /\ next.element = Top.element /\ e \in Elements
      /\ next.at = Nothing /\ Range(Top.todo) = {e} \cup Range(next.todo)
  BY <1>1, <1>2, Worked
<1> HIDE DEF next, e
<1>4. CASE e \in styled \cap live
  <2>1. Consumes(e) /\ f = At(next, e)
    BY <1>4, <1>2 DEF VariablesTypeOK
  <2> HIDE DEF f
  <2>2. /\ f \in Frames /\ f.kind = next.kind /\ f.todo = next.todo
        /\ f.at = e /\ f.value = Expanded(e).value /\ f.deps = Expanded(e).deps /\ f.generation = generation[e]
    BY <1>2, <1>3, <2>1, Resolved
  <2> QED BY <1>1, <1>3, <1>4, <2>2
<1>5. CASE e \notin styled \cap live
  BY <1>1, <1>3, <1>5
<1> QED BY <1>4, <1>5

LEMMA ResolvesConsistent ==
  ASSUME StoreInv, StoreInv', Consistent, Resolves PROVE Consistent'
<1>1. /\ frames # <<>> /\ Top.kind = "propagate" /\ Top.at = Nothing
      /\ UNCHANGED <<storeVars, engineVars, worldVars, historyVars>>
  BY DEF Resolves
<1>2. frames \in Seq(Frames) /\ styled \subseteq Elements
  BY DEF StoreInv, VariablesTypeOK
<1>3. PICK e \in Elements, f \in Frames :
         /\ Range(Top.todo) = {e} \cup Range(f.todo)
         /\ frames' = Append(Under, f)
         /\ f.kind = "propagate"
         /\ e \in styled \cap live =>
              f.at = e /\ f.value = Expanded(e).value /\ f.deps = Expanded(e).deps
              /\ f.generation = generation[e]
         /\ e \notin styled \cap live => f.at = Nothing
  BY ResolvesEffect
<1>4. /\ Len(frames') = Len(frames) /\ Len(frames) \in Nat /\ Len(frames) > 0
      /\ \A i \in 1..Len(frames) : frames'[i] = IF i = Len(frames) THEN f ELSE frames[i]
      /\ \A g, read : Pending(frames, g, read) => Covers(Top, g, read) \/ Pending(frames', g, read)
      /\ \A g, read : Covers(f, g, read) => Pending(frames', g, read)
      /\ \A g : Handled(frames, g) => (Top.kind # "propagate" /\ Top.element = g) \/ Handled(frames', g)
  <2> DEFINE s == frames'
  <2>1. s = Append(Under, f)
    BY <1>3
  <2> HIDE DEF s
  <2>2. Len(s) = Len(frames) /\ Len(frames) \in Nat /\ Len(frames) > 0
        /\ \A i \in 1..Len(s) : s[i] = IF i = Len(s) THEN f ELSE frames[i]
    BY <1>1, <1>2, <2>1, Replaced
  <2>3. \A g, read : Pending(frames, g, read) => Covers(Top, g, read) \/ Pending(s, g, read)
    BY <1>1, <1>2, <2>1, Replaced
  <2>4. \A g, read : Covers(f, g, read) => Pending(s, g, read)
    BY <1>1, <1>2, <2>1, Replaced
  <2>5. \A g : Handled(frames, g) => (Top.kind # "propagate" /\ Top.element = g) \/ Handled(s, g)
    BY <1>1, <1>2, <2>1, Replaced
  <2> QED BY <2>2, <2>3, <2>4, <2>5 DEF s
<1>5. \A g : Expanded(g)' = Expanded(g)
  BY <1>1, SameExpansion DEF storeVars, worldVars
<1>6. Standing'
  <2>1. ASSUME NEW i \in 1..Len(frames'), i # Len(frames)
        PROVE  /\ i > 1 => frames'[i].kind = "propagate"
               /\ Idle(frames'[i])
               /\ frames'[i].kind \in {"report", "captures"} => frames'[i].element \in live'
    BY <1>1, <1>4, <2>1 DEF Consistent, Standing, worldVars
  <2>2. f.at # Nothing => Current(f, f.at)'
    <3>1. f.at # Nothing => /\ f.at \in styled \cap live /\ generation[f.at] = f.generation
                            /\ f.value = Expanded(f.at).value /\ f.deps = Expanded(f.at).deps
      BY <1>3
    <3> QED BY <1>1, <1>5, <3>1 DEF Current, engineVars, worldVars
  <2>3. frames'[Len(frames)] = f
    BY <1>4
  <2> QED BY <1>3, <1>4, <2>1, <2>2, <2>3 DEF Standing, Idle
<1>7. Placed'
  BY <1>1 DEF Consistent, Placed, storeVars, worldVars
<1>8. Followed'
  <2> SUFFICES ASSUME NEW g \in styled \cap live
               PROVE  Sound(g)' \/ Pending(frames', g, deps'[g]) \/ Orphaned(g)'
    BY <1>1 DEF Followed, engineVars, worldVars
  <2>1. Covers(Top, g, deps[g]) => Covers(f, g, deps[g])
    BY <1>1, <1>2, <1>3, VariablesAssumption DEF Covers
  <2>2. Sound(g) => Sound(g)'
    BY <1>1, <1>5 DEF Sound, storeVars, engineVars
  <2>3. Orphaned(g) => Orphaned(g)'
    BY <1>1 DEF Orphaned, storeVars, worldVars
  <2>4. deps' = deps
    BY <1>1 DEF storeVars
  <2> QED BY <1>4, <2>1, <2>2, <2>3, <2>4 DEF Consistent, Followed
<1>9. Displayed'
  BY <1>1, <1>4 DEF Consistent, Displayed, engineVars, worldVars
<1> QED BY <1>6, <1>7, <1>8, <1>9 DEF Consistent

LEMMA ThroughReplaced ==
  ASSUME frames \in Seq(Frames), frames # <<>>, NEW f \in Frames, NEW t \in Seq(Frames),
         Extension(Append(Under, f), t)
  PROVE  /\ \A g, read : Pending(frames, g, read) => Covers(Top, g, read) \/ Pending(t, g, read)
         /\ \A g, read : Covers(f, g, read) => Pending(t, g, read)
         /\ \A g : Handled(frames, g) => (Top.kind # "propagate" /\ Top.element = g) \/ Handled(t, g)
         /\ \A g : f.kind # "propagate" /\ f.element = g => Handled(t, g)
         /\ Standing /\ Idle(f) /\ (Top.kind = "propagate" => f.kind = "propagate")
              /\ (f.kind \in {"report", "captures"} => f.element \in live)
              => Settled(t)
<1> DEFINE s == Append(Under, f)
<1>1. /\ s \in Seq(Frames)
      /\ \A g, read : Pending(frames, g, read) => Covers(Top, g, read) \/ Pending(s, g, read)
      /\ \A g, read : Covers(f, g, read) => Pending(s, g, read)
  BY Replaced
<1>2. /\ \A g : Handled(frames, g) => (Top.kind # "propagate" /\ Top.element = g) \/ Handled(s, g)
      /\ \A g : f.kind # "propagate" /\ f.element = g => Handled(s, g)
  BY Replaced
<1>3. Standing /\ Idle(f) /\ (Top.kind = "propagate" => f.kind = "propagate")
        /\ (f.kind \in {"report", "captures"} => f.element \in live) => Settled(s)
  BY SettledReplaced
<1>4. Extension(s, t)
  OBVIOUS
<1> HIDE DEF s
<1>5. /\ \A g, read : Pending(s, g, read) => Pending(t, g, read)
      /\ \A g : Handled(s, g) => Handled(t, g)
      /\ Settled(s) => Settled(t)
  BY <1>1, <1>4, Extended
<1> QED BY <1>1, <1>2, <1>3, <1>5

LEMMA ThroughUnder ==
  ASSUME frames \in Seq(Frames), frames # <<>>, NEW t \in Seq(Frames), Extension(Under, t)
  PROVE  /\ \A g, read : Pending(frames, g, read) => Covers(Top, g, read) \/ Pending(t, g, read)
         /\ \A g : Handled(frames, g) => (Top.kind # "propagate" /\ Top.element = g) \/ Handled(t, g)
         /\ Standing => Settled(t)
<1> DEFINE s == Under
<1>1. /\ s \in Seq(Frames)
      /\ \A g, read : Pending(frames, g, read) => Covers(Top, g, read) \/ Pending(s, g, read)
      /\ \A g : Handled(frames, g) => (Top.kind # "propagate" /\ Top.element = g) \/ Handled(s, g)
      /\ Standing => Settled(s)
      /\ Extension(s, t)
  BY Returned, SettledUnder
<1> HIDE DEF s
<1>2. /\ \A g, read : Pending(s, g, read) => Pending(t, g, read)
      /\ \A g : Handled(s, g) => Handled(t, g)
      /\ Settled(s) => Settled(t)
  BY <1>1, Extended
<1> QED BY <1>1, <1>2

LEMMA ReappliesConsistent ==
  ASSUME StoreInv, StoreInv', Consistent, ~capped', Reapplies PROVE Consistent'
<1>1. PICK e, f : e = Top.at /\ f = Freed(Top)
  OBVIOUS
<1>2. /\ frames # <<>> /\ Top.kind = "propagate" /\ e # Nothing
      /\ UNCHANGED <<sequence, styled, generation, live, events, pumped, moved>>
  BY <1>1 DEF Reapplies
<1>3. /\ frames \in Seq(Frames) /\ Top \in Frames /\ frames' \in Seq(Frames)
      /\ styled \subseteq Elements /\ \A g \in styled : Consumes(g)
      /\ Len(frames) \in Nat /\ Len(frames) > 0
  BY <1>2, Returned DEF StoreInv, VariablesTypeOK
<1>4. /\ e \in styled \cap live /\ generation[e] = Top.generation
      /\ Top.value = Expanded(e).value /\ Top.deps = Expanded(e).deps
  BY <1>1, <1>2, <1>3 DEF Consistent, Standing, Current, Top
<1>5. /\ f \in Frames /\ f.kind = "propagate" /\ f.todo = Top.todo /\ f.at = Nothing
  BY <1>1, <1>2, <1>3, Dropped DEF Freed
<1>6. /\ e \in Elements /\ UNCHANGED position /\ Touched(Append(Under, f), Feeds[e])
      /\ \A g \in Elements : /\ shown'[g] = IF g = e THEN Top.value ELSE shown[g]
                             /\ value'[g] = IF g = e THEN Top.value ELSE value[g]
                             /\ deps'[g] = IF g = e THEN Top.deps ELSE deps[g]
  BY <1>1, <1>4, ReappliesEffect
<1>7. /\ \A h \in Elements, m \in Names : m # Feeds[e] => captured'[h][m] = captured[h][m]
      /\ \A h \in Elements, m \in Names : captured'[h][m].on = captured[h][m].on
      /\ \A h \in Elements, m \in Names : captured'[h][m].chain \in {captured[h][m].chain, position[h]}
      /\ captured' = captured \/ Announced(Feeds[e])
      /\ Extension(Append(Under, f), frames')
  BY <1>6 DEF Touched
<1>8. /\ \A g, read : Pending(frames, g, read) => Covers(Top, g, read) \/ Pending(frames', g, read)
      /\ \A g, read : Covers(f, g, read) => Pending(frames', g, read)
      /\ \A g : Handled(frames, g) => Handled(frames', g)
      /\ Settled(frames')
  <2>1. Standing /\ Idle(f)
    BY <1>5 DEF Consistent, Idle
  <2> QED BY <1>2, <1>3, <1>5, <1>7, <2>1, ThroughReplaced
<1>9. Standing'
  BY <1>2, <1>8, SettledStands
<1>10. Placed'
  BY <1>6, <1>7 DEF Consistent, Placed
<1>11. ASSUME NEW g \in styled \cap live
       PROVE  Sound(g)' \/ Pending(frames', g, deps'[g]) \/ Orphaned(g)'
  <2>0. g \in Elements /\ Consumes(g) /\ position'[g] = position[g]
    BY <1>3, <1>6
  <2>1. CASE g = e
    <3>1. value'[g] = Expanded(g).value /\ deps'[g] = Expanded(g).deps
      BY <1>4, <1>6, <2>1
    <3> QED BY <1>2, <1>7, <2>0, <3>1, StaysSound
  <2>2. CASE g # e
    <3>1. value'[g] = value[g] /\ deps'[g] = deps[g]
      BY <1>6, <2>0, <2>2
    <3>2. Covers(Top, g, deps[g]) => Covers(f, g, deps[g])
      BY <1>1, <1>2, <1>5, <2>2 DEF Covers
    <3> QED BY <1>2, <1>7, <1>8, <2>0, <3>1, <3>2, StaysFollowed DEF Consistent
  <2> QED BY <2>1, <2>2
<1>12. Followed'
  BY <1>2, <1>11 DEF Followed
<1>13. Displayed'
  BY <1>2, <1>3, <1>6, <1>8 DEF Consistent, Displayed
<1> QED BY <1>9, <1>10, <1>12, <1>13 DEF Consistent

LEMMA PropagationEndsConsistent ==
  ASSUME StoreInv, StoreInv', Consistent, PropagationEnds PROVE Consistent'
<1>1. /\ frames # <<>> /\ Top.kind = "propagate" /\ Top.at = Nothing /\ Top.todo = <<>> /\ frames' = Under
      /\ UNCHANGED <<storeVars, engineVars, worldVars, historyVars>>
  BY DEF PropagationEnds
<1>2. frames \in Seq(Frames) /\ frames' \in Seq(Frames) /\ styled \subseteq Elements
  BY DEF StoreInv, VariablesTypeOK
<1>3. /\ \A g, read : Pending(frames, g, read) => Covers(Top, g, read) \/ Pending(frames', g, read)
      /\ \A g : Handled(frames, g) => Handled(frames', g)
      /\ Settled(frames')
  BY <1>1, <1>2, Reflexive, ThroughUnder DEF Consistent
<1>4. \A g : Expanded(g)' = Expanded(g)
  BY <1>1, SameExpansion DEF storeVars, worldVars
<1>5. Standing'
  BY <1>1, <1>3, SettledStands DEF worldVars
<1>6. Placed'
  BY <1>1 DEF Consistent, Placed, storeVars, worldVars
<1>7. Followed'
  <2> SUFFICES ASSUME NEW g \in styled \cap live
               PROVE  Sound(g)' \/ Pending(frames', g, deps'[g]) \/ Orphaned(g)'
    BY <1>1 DEF Followed, engineVars, worldVars
  <2>1. ~Covers(Top, g, deps[g])
    <3>1. Range(Top.todo) = {}
      BY <1>1 DEF Range
    <3> QED BY <1>1, <1>2, <3>1, VariablesAssumption DEF Covers
  <2>2. Sound(g) => Sound(g)'
    BY <1>1, <1>4 DEF Sound, storeVars, engineVars
  <2>3. Orphaned(g) => Orphaned(g)'
    BY <1>1 DEF Orphaned, storeVars, worldVars
  <2>4. deps' = deps
    BY <1>1 DEF storeVars
  <2> QED BY <1>3, <2>1, <2>2, <2>3, <2>4 DEF Consistent, Followed
<1>8. Displayed'
  BY <1>1, <1>3 DEF Consistent, Displayed, engineVars, worldVars
<1> QED BY <1>5, <1>6, <1>7, <1>8 DEF Consistent

LEMMA NoFrames ==
  ASSUME frames = <<>>
  PROVE  /\ \A g, read : ~Pending(frames, g, read)
         /\ \A g : ~Handled(frames, g)
         /\ Len(frames) = 0 /\ frames \in Seq(Frames) /\ Settled(frames)
BY EmptySeq DEF Pending, Handled, Settled

LEMMA ReportedConsistent ==
  ASSUME StoreInv, StoreInv', Consistent, ~capped', ~pumped', ~moved',
         NEW e \in Elements, NEW p \in Positions[e], Reported(e, p)
  PROVE  Consistent'
<1>1. /\ UNCHANGED <<consumers, deps, sequence, styled, generation, value, live>>
      /\ moved' = (moved \/ (p # position[e] /\ Captures(e)))
      /\ pumped' = (pumped \/ frames # <<>>) /\ e \in live
  BY DEF Reported, Event
<1>2. frames = <<>>
  BY <1>1
<1>3. VariablesTypeOK /\ frames' \in Seq(Frames) /\ styled \subseteq Elements
  BY DEF StoreInv, VariablesTypeOK
<1>4. PICK f, s : f = Frame("report", e, <<>>) /\ s = Append(frames, f)
  OBVIOUS
<1>5. f \in Frames /\ f.kind = "report" /\ f.at = Nothing /\ f.element = e
  BY <1>4, FrameWellFormed DEF Frame
<1>6. /\ s \in Seq(Frames) /\ Touched(s, Feeds[e])
      /\ \A g \in Elements : shown'[g] = IF g = e /\ e \in styled THEN Nothing ELSE shown[g]
      /\ \A g \in Elements : position'[g] = IF g = e THEN p ELSE position[g]
  BY <1>3, <1>4, ReportedTouches
<1>7. /\ \A h \in Elements, m \in Names : m # Feeds[e] => captured'[h][m] = captured[h][m]
      /\ \A h \in Elements, m \in Names : captured'[h][m].on = captured[h][m].on
      /\ \A h \in Elements, m \in Names : captured'[h][m].chain \in {captured[h][m].chain, position'[h]}
      /\ captured' = captured \/ Announced(Feeds[e])
      /\ Extension(s, frames')
  BY <1>6 DEF Touched
<1>8. /\ Len(s) = 1 /\ \A i \in 1..1 : s[i] = f
      /\ \A read : Pending(s, e, read)
      /\ Handled(s, e)
  <2>1. frames \in Seq(Frames) /\ Len(frames) = 0
    BY <1>2, NoFrames
  <2>2. /\ Len(s) = Len(frames) + 1 /\ \A i \in 1..Len(s) : s[i] = IF i = Len(s) THEN f ELSE frames[i]
        /\ \A g, read : Covers(f, g, read) => Pending(s, g, read)
        /\ \A g : f.kind # "propagate" /\ f.element = g => Handled(s, g)
    BY <1>4, <1>5, <2>1, Called
  <2>3. \A read : Covers(f, e, read)
    BY <1>5 DEF Covers
  <2> QED BY <1>5, <2>1, <2>2, <2>3
<1>9. Settled(s)
  BY <1>1, <1>5, <1>8 DEF Settled, Idle
<1>10. /\ Settled(frames') /\ Handled(frames', e)
       /\ \A read : Pending(frames', e, read)
  BY <1>3, <1>6, <1>7, <1>8, <1>9, Extended
<1>11. Standing'
  BY <1>1, <1>10, SettledStands
<1>12. Placed'
  <2>1. ASSUME NEW h \in Elements, NEW m \in Names, captured'[h][m].on
        PROVE  captured'[h][m].chain = position'[h]
    <3>1. captured[h][m].on /\ captured[h][m].chain = position[h]
      BY <1>7, <2>1 DEF Consistent, Placed
    <3>2. position'[h] = position[h]
      <4>1. h = e => p = position[e]
        BY <1>1, <3>1 DEF Captures
      <4> QED BY <1>6, <4>1
    <3> QED BY <1>7, <3>1, <3>2
  <2> QED BY <2>1 DEF Placed
<1>13. ASSUME NEW g \in styled \cap live
       PROVE  Sound(g)' \/ Pending(frames', g, deps'[g]) \/ Orphaned(g)'
  <2>1. CASE g = e
    BY <1>10, <2>1
  <2>2. CASE g # e
    <3>1. position'[g] = position[g] /\ value'[g] = value[g] /\ deps'[g] = deps[g]
      BY <1>1, <1>3, <1>6, <2>2
    <3>2. ~Pending(frames, g, deps[g])
      BY <1>2, NoFrames
    <3> QED BY <1>1, <1>7, <3>1, <3>2, StaysFollowed DEF Consistent
  <2> QED BY <2>1, <2>2
<1>14. Followed'
  BY <1>1, <1>13 DEF Followed
<1>15. Displayed'
  <2>1. \A g : ~Handled(frames, g)
    BY <1>2, NoFrames
  <2> QED BY <1>1, <1>3, <1>6, <1>10, <2>1 DEF Consistent, Displayed
<1> QED BY <1>11, <1>12, <1>14, <1>15 DEF Consistent

LEMMA ReportResolvesEffect ==
  ASSUME StoreInv, ReportResolves, NEW e, e = Top.element
  PROVE  \E f \in Frames :
         /\ e \in Elements /\ f.element = e /\ f.at = Nothing /\ frames' = Append(Under, f)
         /\ Consumes(e) => /\ f.kind = "resolved" /\ f.value = Expanded(e).value
                           /\ f.deps = Expanded(e).deps /\ f.generation = generation[e] + 1
         /\ ~Consumes(e) => f.kind = "captures"
<1> DEFINE f == IF Consumes(e) THEN ToResolved(Top, e) ELSE Plain(Top, e)
<1>1. /\ frames # <<>> /\ Top.kind = "report" /\ frames' = Append(Under, f)
  BY DEF ReportResolves, ToResolved, Plain
<1>2. VariablesTypeOK /\ Numbered /\ Top \in Frames
  BY <1>1, Returned DEF StoreInv, VariablesTypeOK
<1>3. e \in Elements
  BY <1>1, <1>2, GoesOn
<1>4. CASE Consumes(e)
  <2>1. /\ f \in Frames /\ f.element = e /\ f.at = Nothing
        /\ f.kind = "resolved" /\ f.value = Expanded(e).value
        /\ f.deps = Expanded(e).deps /\ f.generation = generation[e] + 1
    BY <1>1, <1>2, <1>4, GoesOn
  <2> HIDE DEF f
  <2> QED BY <1>1, <1>3, <1>4, <2>1
<1>5. CASE ~Consumes(e)
  <2>1. f \in Frames /\ f.element = e /\ f.at = Nothing /\ f.kind = "captures"
    BY <1>1, <1>2, <1>5, GoesOn
  <2> HIDE DEF f
  <2> QED BY <1>1, <1>3, <1>5, <2>1
<1> QED BY <1>4, <1>5

LEMMA ReportResolvesConsistent ==
  ASSUME StoreInv, StoreInv', Consistent, ReportResolves PROVE Consistent'
<1>1. PICK e : e = Top.element
  OBVIOUS
<1>2. PICK f \in Frames :
         /\ e \in Elements /\ f.element = e /\ f.at = Nothing /\ frames' = Append(Under, f)
         /\ Consumes(e) => /\ f.kind = "resolved" /\ f.value = Expanded(e).value
                           /\ f.deps = Expanded(e).deps /\ f.generation = generation[e] + 1
         /\ ~Consumes(e) => f.kind = "captures"
  BY <1>1, ReportResolvesEffect
<1>3. /\ frames # <<>> /\ Top.kind = "report"
      /\ generation' = [generation EXCEPT ![e] = @ + 1]
      /\ styled' = IF Consumes(e) THEN styled \cup {e} ELSE styled
      /\ UNCHANGED <<storeVars, value, shown, worldVars, historyVars>>
  BY <1>1 DEF ReportResolves
<1>4. /\ frames \in Seq(Frames) /\ frames' \in Seq(Frames)
      /\ generation \in [Elements -> Nat] /\ styled' \subseteq {g \in Elements : Consumes(g)}
      /\ Len(frames) \in Nat /\ Len(frames) > 0
  BY <1>3, Returned DEF StoreInv, VariablesTypeOK, Consumes
<1>5. e \in live /\ Len(frames) = 1
  <2>1. Len(frames) \in 1..Len(frames) /\ Top = frames[Len(frames)]
    BY <1>4 DEF Top
  <2>2. Top.element \in live /\ (Len(frames) > 1 => Top.kind = "propagate")
    BY <1>3, <2>1 DEF Consistent, Standing
  <2>3. ~(Len(frames) > 1)
    <3>1. Top.kind = "report"
      BY <1>3
    <3> QED BY <2>2, <3>1
  <2>4. Len(frames) = 1
    <3> DEFINE k == Len(frames)
    <3>1. k \in Nat /\ k > 0 /\ ~(k > 1)
      BY <1>4, <2>3
    <3> HIDE DEF k
    <3>2. k = 1
      BY <3>1
    <3> QED BY <3>2 DEF k
  <2>5. e \in live
    BY <1>1, <2>2
  <2> QED BY <2>4, <2>5
<1>6. /\ Len(frames') = 1 /\ frames'[1] = f
      /\ \A g, read : Pending(frames, g, read) => Covers(Top, g, read) \/ Pending(frames', g, read)
      /\ \A g : Handled(frames, g) => (Top.kind # "propagate" /\ Top.element = g) \/ Handled(frames', g)
      /\ Handled(frames', e)
      /\ \A g, read : Covers(f, g, read) => Pending(frames', g, read)
  <2> DEFINE s == frames'
  <2>1. s = Append(Under, f) /\ f.kind # "propagate" /\ f.element = e /\ frames # <<>> /\ frames \in Seq(Frames)
    BY <1>2, <1>3, <1>4
  <2> HIDE DEF s
  <2>2. Len(s) = Len(frames) /\ Len(frames) \in Nat /\ Len(frames) > 0
        /\ \A i \in 1..Len(s) : s[i] = IF i = Len(s) THEN f ELSE frames[i]
    BY <2>1, Replaced
  <2>3. \A g, read : Pending(frames, g, read) => Covers(Top, g, read) \/ Pending(s, g, read)
    BY <2>1, Replaced
  <2>4. \A g, read : Covers(f, g, read) => Pending(s, g, read)
    BY <2>1, Replaced
  <2>5. \A g : Handled(frames, g) => (Top.kind # "propagate" /\ Top.element = g) \/ Handled(s, g)
    BY <2>1, Replaced
  <2>6. Handled(s, e)
    BY <2>1, Replaced
  <2> QED BY <1>5, <2>2, <2>3, <2>4, <2>5, <2>6 DEF s
<1>7. \A g : Expanded(g)' = Expanded(g)
  BY <1>3, SameExpansion DEF storeVars, worldVars
<1>8. Standing'
  <2>1. Consumes(e) => Current(f, e)'
    <3>1. Consumes(e) => e \in styled' \cap live' /\ generation'[e] = generation[e] + 1
      BY <1>2, <1>3, <1>4, <1>5 DEF worldVars
    <3> QED BY <1>2, <1>7, <3>1 DEF Current
  <2>2. f.kind \in {"resolved", "captures"} /\ live' = live
        /\ (f.kind = "resolved" => Consumes(e))
    BY <1>2, <1>3 DEF worldVars
  <2> QED BY <1>2, <1>5, <1>6, <2>1, <2>2 DEF Standing
<1>9. Placed'
  BY <1>3 DEF Consistent, Placed, storeVars, worldVars
<1>10. ASSUME NEW g \in styled' \cap live'
       PROVE  Sound(g)' \/ Pending(frames', g, deps'[g]) \/ Orphaned(g)'
  <2>0. g \in Elements /\ Consumes(g) /\ deps' = deps /\ value' = value /\ live' = live /\ captured' = captured
    BY <1>3, <1>4 DEF storeVars, worldVars
  <2>1. CASE g = e
    <3>1. \A read : Covers(f, g, read)
      BY <1>2, <2>0, <2>1 DEF Covers
    <3> QED BY <1>6, <3>1
  <2>2. CASE g # e
    <3>1. g \in styled \cap live
      BY <1>3, <2>0, <2>2
    <3>2. ~Covers(Top, g, deps[g])
      BY <1>1, <1>3, <2>2 DEF Covers
    <3>3. Sound(g) => Sound(g)'
      BY <1>7, <2>0 DEF Sound
    <3>4. Orphaned(g) => Orphaned(g)'
      BY <2>0 DEF Orphaned
    <3> QED BY <1>6, <2>0, <3>1, <3>2, <3>3, <3>4 DEF Consistent, Followed
  <2> QED BY <2>1, <2>2
<1>11. Followed'
  BY <1>10 DEF Followed
<1>12. Displayed'
  <2>1. live' = live /\ shown' = shown /\ value' = value
    BY <1>3 DEF worldVars
  <2>2. ASSUME NEW g \in styled' \cap live' PROVE shown[g] = value[g] \/ Handled(frames', g)
    <3>1. CASE g = e
      BY <1>6, <3>1
    <3>2. CASE g # e
      BY <1>1, <1>3, <1>6, <2>1, <2>2, <3>2 DEF Consistent, Displayed
    <3> QED BY <3>1, <3>2
  <2> QED BY <2>1, <2>2 DEF Displayed
<1> QED BY <1>8, <1>9, <1>11, <1>12 DEF Consistent

LEMMA ReportRegistersConsistent ==
  ASSUME StoreInv, StoreInv', Consistent, ReportRegisters PROVE Consistent'
<1>1. PICK e, f : e = Top.element /\ f = Registered(Top, e)
  OBVIOUS
<1>2. /\ frames # <<>> /\ Top.kind = "resolved"
      /\ e \in styled /\ generation[e] = Top.generation =>
           /\ value' = [value EXCEPT ![e] = Top.value] /\ Registers(e, Top.deps)
           /\ frames' = Append(Under, f)
      /\ UNCHANGED <<captured, sequence, styled, generation, shown, worldVars, historyVars>>
  BY <1>1 DEF ReportRegisters, Registered
<1>3. /\ frames \in Seq(Frames) /\ Top \in Frames /\ frames' \in Seq(Frames) /\ VariablesTypeOK /\ Numbered
      /\ Len(frames) \in Nat /\ Len(frames) > 0
  BY <1>2, Returned DEF StoreInv, VariablesTypeOK
<1>4. /\ e \in styled \cap live /\ generation[e] = Top.generation
      /\ Top.value = Expanded(e).value /\ Top.deps = Expanded(e).deps
  BY <1>1, <1>2, <1>3 DEF Consistent, Standing, Current, Top
<1>5. f \in Frames /\ f.element = e /\ f.kind = "captures" /\ f.at = Nothing /\ e \in Elements
  BY <1>1, <1>2, <1>3, GoesOn
<1>6. /\ \A g \in Elements : value'[g] = IF g = e THEN Top.value ELSE value[g]
      /\ \A g \in Elements : deps'[g] = IF g = e THEN Top.deps ELSE deps[g]
      /\ frames' = Append(Under, f)
  BY <1>2, <1>3, <1>4, <1>5 DEF Registers, VariablesTypeOK
<1>7. /\ \A g, read : Pending(frames, g, read) => Covers(Top, g, read) \/ Pending(frames', g, read)
      /\ \A g : Handled(frames, g) => g = e \/ Handled(frames', g)
      /\ Handled(frames', e)
      /\ Settled(frames')
  <2> DEFINE s == Append(Under, f)
  <2>1. s \in Seq(Frames) /\ frames' = s
    BY <1>3, <1>6
  <2>2. Extension(s, frames')
    BY <2>1, Reflexive
  <2>3. Standing /\ Idle(f) /\ (f.kind \in {"report", "captures"} => f.element \in live)
        /\ Top.kind # "propagate"
    BY <1>2, <1>4, <1>5 DEF Consistent, Idle
  <2> QED BY <1>1, <1>2, <1>3, <1>5, <2>2, <2>3, ThroughReplaced
<1>8. \A g : Expanded(g)' = Expanded(g)
  BY <1>2, SameExpansion DEF worldVars
<1>9. Standing'
  BY <1>2, <1>7, SettledStands DEF worldVars
<1>10. Placed'
  BY <1>2 DEF Consistent, Placed, worldVars
<1>11. ASSUME NEW g \in styled \cap live
       PROVE  Sound(g)' \/ Pending(frames', g, deps'[g]) \/ Orphaned(g)'
  <2>0. g \in Elements /\ live' = live /\ captured' = captured
    BY <1>2, <1>3 DEF VariablesTypeOK, worldVars
  <2>1. CASE g = e
    BY <1>4, <1>6, <1>8, <2>0, <2>1 DEF Sound
  <2>2. CASE g # e
    <3>1. value'[g] = value[g] /\ deps'[g] = deps[g]
      BY <1>6, <2>0, <2>2
    <3>2. ~Covers(Top, g, deps[g])
      BY <1>1, <1>2, <2>2 DEF Covers
    <3>3. Sound(g) => Sound(g)'
      BY <1>8, <3>1 DEF Sound
    <3>4. Orphaned(g) => Orphaned(g)'
      BY <2>0, <3>1 DEF Orphaned
    <3> QED BY <1>7, <3>1, <3>2, <3>3, <3>4 DEF Consistent, Followed
  <2> QED BY <2>1, <2>2
<1>12. Followed'
  BY <1>2, <1>11 DEF Followed, worldVars
<1>13. Displayed'
  <2>1. live' = live /\ shown' = shown /\ styled' = styled
    BY <1>2 DEF worldVars
  <2>2. ASSUME NEW g \in styled \cap live PROVE shown[g] = value'[g] \/ Handled(frames', g)
    <3>1. CASE g = e
      BY <1>7, <3>1
    <3>2. CASE g # e
      <4>1. value'[g] = value[g]
        BY <1>3, <1>6, <3>2 DEF VariablesTypeOK
      <4> QED BY <1>7, <3>2, <4>1 DEF Consistent, Displayed
    <3> QED BY <3>1, <3>2
  <2> QED BY <2>1, <2>2 DEF Displayed
<1> QED BY <1>9, <1>10, <1>12, <1>13 DEF Consistent

LEMMA ReportCapturesConsistent ==
  ASSUME StoreInv, StoreInv', Consistent, ~capped', ReportCaptures PROVE Consistent'
<1>1. PICK e, n, f : e = Top.element /\ n = Head(Top.todo) /\ f = Advanced(Top)
  OBVIOUS
<1>2. /\ frames # <<>> /\ Top.kind = "captures" /\ UNCHANGED <<consumers, deps>>
      /\ UNCHANGED <<engineVars, worldVars, pumped, moved>>
  BY DEF ReportCaptures
<1>3. VariablesTypeOK /\ frames \in Seq(Frames) /\ frames' \in Seq(Frames) /\ styled \subseteq Elements
      /\ Len(frames) \in Nat /\ Len(frames) > 0
  BY <1>2, Returned DEF StoreInv, VariablesTypeOK
<1>4. /\ e \in Elements /\ n \in Names /\ f \in Frames /\ f.element = e /\ f.kind = "captures"
      /\ f.at = Nothing /\ Extension(Append(Under, f), frames')
      /\ \A g \in Elements, m \in Names : g # e \/ m # n => captured'[g][m] = captured[g][m]
      /\ captured'[e][n].on /\ captured'[e][n].chain = position[e]
      /\ captured[e][n].on => captured' = [captured EXCEPT ![e][n].chain = position[e]]
      /\ ~captured[e][n].on => Announced(n)
  <2>0. VariablesTypeOK
    BY <1>3
  <2>1. /\ e \in Elements /\ n \in Names /\ f \in Frames /\ f.element = e /\ f.kind = "captures"
        /\ f.at = Nothing /\ Extension(Append(Under, f), frames')
    BY <1>1, <2>0, CapturesEffect
  <2>2. /\ \A g \in Elements, m \in Names : g # e \/ m # n => captured'[g][m] = captured[g][m]
        /\ captured'[e][n].on /\ captured'[e][n].chain = position[e]
    BY <1>1, <2>0, CapturesEffect
  <2>3. captured[e][n].on => captured' = [captured EXCEPT ![e][n].chain = position[e]]
    BY <1>1 DEF ReportCaptures
  <2>4. ~captured[e][n].on => Announced(n)
    BY <1>1, <2>0, CapturesEffect
  <2> QED BY <2>1, <2>2, <2>3, <2>4
<1>5. e \in live
  <2>1. Len(frames) \in 1..Len(frames) /\ Top = frames[Len(frames)]
    BY <1>3 DEF Top
  <2> QED BY <1>1, <1>2, <2>1 DEF Consistent, Standing
<1>6. captured' = captured \/ Announced(n)
  <2> SUFFICES ASSUME captured[e][n].on PROVE captured' = captured
    BY <1>4
  <2>1. captured \in [Elements -> [Names -> Site]]
    BY <1>3 DEF VariablesTypeOK, CapturedOK
  <2> DEFINE site == captured[e][n]
  <2>2. site \in Site /\ site.chain = position[e]
    BY <1>4, <2>1 DEF Consistent, Placed
  <2>3. [site EXCEPT !.chain = position[e]] = site
    BY <2>2 DEF Site
  <2>4. captured' = [captured EXCEPT ![e] = [captured[e] EXCEPT ![n] = [site EXCEPT !.chain = position[e]]]]
    BY <1>4, <2>1
  <2>5. captured' = [captured EXCEPT ![e] = [captured[e] EXCEPT ![n] = site]]
    BY <2>3, <2>4
  <2> QED BY <1>4, <2>1, <2>5
<1>7. \A h \in Elements, m \in Names : captured[h][m].on => captured'[h][m].on
  BY <1>4
<1>8. /\ \A g, read : Pending(frames, g, read) => Covers(Top, g, read) \/ Pending(frames', g, read)
      /\ \A g : Handled(frames, g) => g = e \/ Handled(frames', g)
      /\ Handled(frames', e)
      /\ Settled(frames')
  <2>1. Standing /\ Idle(f) /\ (f.kind \in {"report", "captures"} => f.element \in live)
        /\ Top.kind # "propagate"
    BY <1>2, <1>4, <1>5 DEF Consistent, Idle
  <2> QED BY <1>1, <1>2, <1>3, <1>4, <2>1, ThroughReplaced
<1>9. Standing'
  BY <1>2, <1>8, SettledStands DEF worldVars
<1>10. Placed'
  BY <1>2, <1>4 DEF Consistent, Placed, worldVars
<1>11. ASSUME NEW g \in styled \cap live
       PROVE  Sound(g)' \/ Pending(frames', g, deps'[g]) \/ Orphaned(g)'
  <2>1. position'[g] = position[g] /\ value'[g] = value[g] /\ deps'[g] = deps[g] /\ live' = live
    BY <1>2 DEF engineVars, worldVars
  <2>2. ~Covers(Top, g, deps[g])
    BY <1>2 DEF Covers
  <2>3. \A h \in Elements, m \in Names : m # n => captured'[h][m] = captured[h][m]
    BY <1>4
  <2> QED BY <1>6, <1>7, <1>8, <2>1, <2>2, <2>3, StaysFollowed DEF Consistent
<1>12. Followed'
  BY <1>2, <1>11 DEF Followed, engineVars, worldVars
<1>13. Displayed'
  BY <1>2, <1>8 DEF Consistent, Displayed, engineVars, worldVars
<1> QED BY <1>9, <1>10, <1>12, <1>13 DEF Consistent

LEMMA ReportAppliesConsistent ==
  ASSUME StoreInv, StoreInv', Consistent, ~capped', ReportApplies PROVE Consistent'
<1>1. PICK e : e = Top.element
  OBVIOUS
<1>2. /\ frames # <<>> /\ Top.kind = "captures" /\ UNCHANGED <<consumers, position>>
      /\ UNCHANGED <<deps, sequence, styled, generation, value, live, events, pumped, moved>>
  BY DEF ReportApplies
<1>3. VariablesTypeOK /\ frames \in Seq(Frames) /\ frames' \in Seq(Frames)
      /\ styled \subseteq Elements /\ \A g \in styled : Consumes(g)
  BY DEF StoreInv, VariablesTypeOK
<1>4. /\ e \in Elements /\ Touched(Under, Feeds[e])
      /\ \A g \in Elements : shown'[g] = IF g = e /\ Consumes(e) THEN value[e] ELSE shown[g]
  BY <1>1, <1>3, ReportAppliesTouches
<1>5. /\ \A h \in Elements, m \in Names : m # Feeds[e] => captured'[h][m] = captured[h][m]
      /\ \A h \in Elements, m \in Names : captured'[h][m].on = captured[h][m].on
      /\ \A h \in Elements, m \in Names : captured'[h][m].chain \in {captured[h][m].chain, position[h]}
      /\ captured' = captured \/ Announced(Feeds[e])
      /\ Extension(Under, frames')
  BY <1>2, <1>4 DEF Touched
<1>6. /\ \A g, read : Pending(frames, g, read) => Covers(Top, g, read) \/ Pending(frames', g, read)
      /\ \A g : Handled(frames, g) => g = e \/ Handled(frames', g)
      /\ Settled(frames')
  BY <1>1, <1>2, <1>3, <1>5, ThroughUnder DEF Consistent
<1>7. Standing'
  BY <1>2, <1>6, SettledStands
<1>8. Placed'
  BY <1>2, <1>5 DEF Consistent, Placed
<1>9. ASSUME NEW g \in styled \cap live
      PROVE  Sound(g)' \/ Pending(frames', g, deps'[g]) \/ Orphaned(g)'
  <2>1. position'[g] = position[g] /\ value'[g] = value[g] /\ deps'[g] = deps[g] /\ live' = live
    BY <1>2
  <2>2. ~Covers(Top, g, deps[g])
    BY <1>2 DEF Covers
  <2> QED BY <1>5, <1>6, <2>1, <2>2, StaysFollowed DEF Consistent
<1>10. Followed'
  BY <1>2, <1>9 DEF Followed
<1>11. Displayed'
  BY <1>2, <1>3, <1>4, <1>6 DEF Consistent, Displayed
<1> QED BY <1>7, <1>8, <1>10, <1>11 DEF Consistent

LEMMA PropertyChangesConsistent ==
  ASSUME StoreInv, StoreInv', Consistent, ~capped', ~pumped',
         NEW e \in Elements, NEW n \in Names, NEW v \in 0..MaxValue, PropertyChanges(e, n, v)
  PROVE  Consistent'
<1>1. /\ UNCHANGED <<consumers, position>> /\ UNCHANGED <<deps, sequence, engineVars, live, moved>>
      /\ frames = <<>>
  BY DEF PropertyChanges, Event
<1>2. /\ \A h \in Elements, m \in Names : m # n => captured'[h][m] = captured[h][m]
      /\ \A h \in Elements, m \in Names : captured'[h][m].on = captured[h][m].on
      /\ \A h \in Elements, m \in Names : captured'[h][m].chain \in {captured[h][m].chain, position[h]}
      /\ captured' = captured \/ Announced(n)
      /\ Extension(frames, frames') /\ frames' \in Seq(Frames)
  BY <1>1, PropertyChangesKeepsStore DEF Touched
<1>3. /\ \A g, read : ~Pending(frames, g, read)
      /\ \A g : ~Handled(frames, g)
      /\ frames \in Seq(Frames) /\ Settled(frames)
  BY <1>1, NoFrames
<1>4. Settled(frames')
  BY <1>2, <1>3, Extended
<1>5. Standing'
  BY <1>1, <1>4, SettledStands
<1>6. Placed'
  BY <1>1, <1>2 DEF Consistent, Placed
<1>7. ASSUME NEW g \in styled \cap live
      PROVE  Sound(g)' \/ Pending(frames', g, deps'[g]) \/ Orphaned(g)'
  <2>1. position'[g] = position[g] /\ value'[g] = value[g] /\ deps'[g] = deps[g] /\ live' = live
    BY <1>1 DEF engineVars
  <2> QED BY <1>2, <1>3, <2>1, StaysFollowed DEF Consistent
<1>8. Followed'
  BY <1>1, <1>7 DEF Followed, engineVars
<1>9. Displayed'
  BY <1>1, <1>3 DEF Consistent, Displayed, engineVars
<1> QED BY <1>5, <1>6, <1>8, <1>9 DEF Consistent

(* A removal takes captures, and tells every element that had read them.    *)
LEMMA RemovedConsistent ==
  ASSUME StoreInv, StoreInv', Consistent, ~pumped', NEW e \in Elements, Removed(e)
  PROVE  Consistent'
<1>1. /\ frames = <<>>
      /\ UNCHANGED <<consumers, deps, sequence, engineVars, property, position, live, capped, moved>>
  BY DEF Removed, Event
<1>2. VariablesTypeOK /\ Numbered /\ frames \in Seq(Frames) /\ styled \subseteq Elements
      /\ live \subseteq Elements /\ \A g \in styled : Consumes(g)
  BY DEF StoreInv, VariablesTypeOK
<1>3. PICK names \in Seq(Names) :
         /\ Range(names) = {n \in Names : captured[e][n].on}
         /\ Frame("remove", e, names) \in Frames
         /\ frames' = Append(frames, Frame("remove", e, names)) /\ frames' \in Seq(Frames)
         /\ CapturedOK'
         /\ \A f \in Elements, n \in Names :
              captured'[f][n] = IF f = e THEN NoSite ELSE captured[f][n]
  BY <1>2, RemovedEffect
<1>4. PICK f : f = Frame("remove", e, names)
  OBVIOUS
<1>5. f \in Frames /\ f.kind = "remove" /\ f.element = e /\ f.todo = names /\ f.at = Nothing
  BY <1>3, <1>4 DEF Frame
<1>6. /\ Len(frames') = 1 /\ \A i \in 1..1 : frames'[i] = f
      /\ \A g, read : Covers(f, g, read) => Pending(frames', g, read)
      /\ Handled(frames', e)
      /\ \A g : ~Handled(frames, g) /\ \A read : ~Pending(frames, g, read)
  <2> DEFINE s == frames'
  <2>1. s = Append(frames, f) /\ Len(frames) = 0
    BY <1>1, <1>3, <1>4, NoFrames
  <2> HIDE DEF s
  <2>2. /\ Len(s) = Len(frames) + 1 /\ \A i \in 1..Len(s) : s[i] = IF i = Len(s) THEN f ELSE frames[i]
        /\ \A g, read : Covers(f, g, read) => Pending(s, g, read)
        /\ \A g : f.kind # "propagate" /\ f.element = g => Handled(s, g)
    BY <1>2, <1>5, <2>1, Called
  <2> QED BY <1>1, <1>5, <2>1, <2>2, NoFrames DEF s
<1>7. Standing'
  <2>1. Settled(frames')
    BY <1>5, <1>6 DEF Settled, Idle
  <2> QED BY <1>1, <2>1, SettledStands
<1>8. Placed'
  BY <1>1, <1>3 DEF Consistent, Placed, NoSite
<1>9. ASSUME NEW g \in styled \cap live
      PROVE  Sound(g)' \/ Pending(frames', g, deps'[g]) \/ Orphaned(g)'
  <2>0. g \in Elements /\ Consumes(g) /\ deps' = deps /\ value' = value /\ live' = live /\ position' = position
        /\ deps[g] \subseteq Names
    BY <1>1, <1>2 DEF engineVars, VariablesTypeOK
  <2>1. CASE g = e \/ deps[g] \cap Range(names) # {}
    BY <1>5, <1>6, <2>0, <2>1 DEF Covers
  <2>2. CASE deps[g] \cap Range(names) = {} /\ Sound(g)
    <3>1. \A m \in deps[g] : m \in Names /\ ~captured[e][m].on
      BY <1>3, <2>0, <2>2
    <3>2. \A m \in Expanded(g).deps : Unaffected(m)
      BY <1>3, <2>0, <2>2, <3>1 DEF Unaffected, Sound, NoSite
    <3>3. Expanded(g)' = Expanded(g)
      BY <1>2, <2>0, <3>2, ExpansionIsLocal
    <3> QED BY <2>0, <2>2, <3>3 DEF Sound
  <2>3. CASE deps[g] \cap Range(names) = {} /\ Orphaned(g)
    <3>1. PICK h \in Elements \ live, m \in deps[g] : captured[h][m].on
      BY <2>3 DEF Orphaned
    <3>2. h # e /\ captured'[h][m] = captured[h][m]
      BY <1>3, <2>0, <2>3, <3>1
    <3> QED BY <2>0, <3>1, <3>2 DEF Orphaned
  <2> QED BY <1>6, <2>1, <2>2, <2>3 DEF Consistent, Followed
<1>10. Followed'
  BY <1>1, <1>9 DEF Followed, engineVars
<1>11. Displayed'
  BY <1>1, <1>6 DEF Consistent, Displayed, engineVars
<1> QED BY <1>7, <1>8, <1>10, <1>11 DEF Consistent

LEMMA RemovalPropagatesConsistent ==
  ASSUME StoreInv, StoreInv', Consistent, ~capped', RemovalPropagates PROVE Consistent'
<1>1. PICK n, f : n = Head(Top.todo) /\ f = Advanced(Top)
  OBVIOUS
<1>2. /\ frames # <<>> /\ Top.kind = "remove" /\ UNCHANGED consumers
      /\ UNCHANGED <<captured, deps, sequence, engineVars, worldVars, pumped, moved>>
  BY DEF RemovalPropagates
<1>3. VariablesTypeOK /\ ConsumersIndexed' /\ frames \in Seq(Frames) /\ frames' \in Seq(Frames)
      /\ styled \subseteq Elements
  BY DEF StoreInv, VariablesTypeOK
<1>4. /\ n \in Names /\ f \in Frames /\ f.element = Top.element /\ f.kind = "remove" /\ f.at = Nothing
      /\ Range(Top.todo) = {n} \cup Range(f.todo)
      /\ Extension(Append(Under, f), frames') /\ Announced(n)
  BY <1>1, <1>3, RemovalPropagatesEffect
<1>5. /\ \A g, read : Pending(frames, g, read) => Covers(Top, g, read) \/ Pending(frames', g, read)
      /\ \A g, read : Covers(f, g, read) => Pending(frames', g, read)
      /\ \A g : Handled(frames, g) => Handled(frames', g)
      /\ Settled(frames')
  <2>1. Standing /\ Idle(f) /\ Top.kind # "propagate" /\ f.kind \notin {"report", "captures"}
    BY <1>2, <1>4 DEF Consistent, Idle
  <2>2. f.kind # "propagate"
    BY <1>4
  <2> QED BY <1>2, <1>3, <1>4, <2>1, <2>2, ThroughReplaced
<1>6. \A g : Expanded(g)' = Expanded(g)
  BY <1>2, SameExpansion DEF worldVars
<1>7. Standing'
  BY <1>2, <1>5, SettledStands DEF worldVars
<1>8. Placed'
  BY <1>2 DEF Consistent, Placed, worldVars
<1>9. ASSUME NEW g \in styled \cap live
      PROVE  Sound(g)' \/ Pending(frames', g, deps'[g]) \/ Orphaned(g)'
  <2>0. g \in Elements /\ deps' = deps /\ value' = value /\ live' = live /\ captured' = captured
    BY <1>2, <1>3 DEF engineVars, worldVars
  <2>1. Covers(Top, g, deps[g]) => Pending(frames', g, deps[g])
    <3>1. CASE Covers(f, g, deps[g])
      BY <1>5, <3>1
    <3>2. CASE Covers(Top, g, deps[g]) /\ ~Covers(f, g, deps[g])
      <4>1. n \in deps'[g]
        BY <1>2, <1>4, <2>0, <3>2 DEF Covers
      <4>2. g \in Range(consumers'[n])
        BY <1>3, <1>4, <2>0, <4>1 DEF ConsumersIndexed
      <4>3. PICK i \in 1..Len(frames') : frames'[i].kind = "propagate" /\ g \in Range(frames'[i].todo)
        BY <1>4, <4>2 DEF Announced
      <4> QED BY <4>3 DEF Pending, Covers
    <3> QED BY <3>1, <3>2
  <2>2. Sound(g) => Sound(g)'
    BY <1>6, <2>0 DEF Sound
  <2>3. Orphaned(g) => Orphaned(g)'
    BY <2>0 DEF Orphaned
  <2> QED BY <1>5, <2>0, <2>1, <2>2, <2>3 DEF Consistent, Followed
<1>10. Followed'
  BY <1>2, <1>9 DEF Followed, engineVars, worldVars
<1>11. Displayed'
  BY <1>2, <1>5 DEF Consistent, Displayed, engineVars, worldVars
<1> QED BY <1>7, <1>8, <1>10, <1>11 DEF Consistent

LEMMA RemovalEndsConsistent ==
  ASSUME StoreInv, StoreInv', Consistent, ~capped', RemovalEnds PROVE Consistent'
<1>1. PICK e : e = Top.element
  OBVIOUS
<1>2. /\ frames # <<>> /\ Top.kind = "remove" /\ Top.todo = <<>> /\ UNCHANGED position
      /\ styled' = styled \ {e} /\ UNCHANGED <<sequence, generation, live, events, pumped, moved>>
  BY <1>1 DEF RemovalEnds
<1>3. VariablesTypeOK /\ frames \in Seq(Frames) /\ frames' \in Seq(Frames) /\ styled \subseteq Elements
  BY DEF StoreInv, VariablesTypeOK
<1>4. /\ e \in Elements /\ Touched(Under, Feeds[e])
      /\ \A g \in Elements : /\ shown'[g] = IF g = e THEN Nothing ELSE shown[g]
                             /\ value'[g] = IF g = e THEN Nothing ELSE value[g]
                             /\ deps'[g] = IF g = e THEN {} ELSE deps[g]
  BY <1>1, RemovalEndsEffect
<1>5. /\ \A h \in Elements, m \in Names : m # Feeds[e] => captured'[h][m] = captured[h][m]
      /\ \A h \in Elements, m \in Names : captured'[h][m].on = captured[h][m].on
      /\ \A h \in Elements, m \in Names : captured'[h][m].chain \in {captured[h][m].chain, position[h]}
      /\ captured' = captured \/ Announced(Feeds[e])
      /\ Extension(Under, frames')
  BY <1>2, <1>4 DEF Touched
<1>6. /\ \A g, read : Pending(frames, g, read) => Covers(Top, g, read) \/ Pending(frames', g, read)
      /\ \A g : Handled(frames, g) => g = e \/ Handled(frames', g)
      /\ Settled(frames')
  BY <1>1, <1>2, <1>3, <1>5, ThroughUnder DEF Consistent
<1>7. Standing'
  BY <1>2, <1>6, SettledStands
<1>8. Placed'
  BY <1>2, <1>5 DEF Consistent, Placed
<1>9. ASSUME NEW g \in (styled \ {e}) \cap live
      PROVE  Sound(g)' \/ Pending(frames', g, deps'[g]) \/ Orphaned(g)'
  <2>1. g \in styled \cap live /\ g # e
    OBVIOUS
  <2>2. position'[g] = position[g] /\ value'[g] = value[g] /\ deps'[g] = deps[g] /\ live' = live
    BY <1>2, <1>3, <1>4, <2>1
  <2>3. ~Covers(Top, g, deps[g])
    <3>1. Range(Top.todo) = {}
      BY <1>2 DEF Range
    <3> QED BY <1>1, <1>2, <2>1, <3>1 DEF Covers
  <2> QED BY <1>5, <1>6, <2>1, <2>2, <2>3, StaysFollowed DEF Consistent
<1>10. Followed'
  BY <1>2, <1>9 DEF Followed
<1>11. Displayed'
  BY <1>2, <1>3, <1>4, <1>6 DEF Consistent, Displayed
<1> QED BY <1>7, <1>8, <1>10, <1>11 DEF Consistent

LEMMA RestoreAllConsistent ==
  ASSUME ~pumped', RestoreAll PROVE Consistent'
<1>1. /\ captured' = [e \in Elements |-> [n \in Names |-> NoSite]]
      /\ styled' = {} /\ UNCHANGED frames /\ frames = <<>>
  BY DEF RestoreAll, Event
<1>2. Standing'
  <2>1. Len(frames') = 0
    BY <1>1, NoFrames
  <2> QED BY <2>1 DEF Standing
<1>3. Placed' /\ Followed' /\ Displayed'
  BY <1>1 DEF Placed, Followed, Displayed, NoSite
<1> QED BY <1>2, <1>3 DEF Consistent

LEMMA DiesConsistent ==
  ASSUME StoreInv, StoreInv', Consistent, ~pumped', NEW e \in Elements, Dies(e) PROVE Consistent'
<1>1. /\ frames = <<>> /\ live' = live \ {e}
      /\ UNCHANGED <<storeVars, frames, engineVars, property, position, capped, moved>>
  BY DEF Dies, Event
<1>2. VariablesTypeOK /\ Numbered /\ styled \subseteq Elements /\ live \subseteq Elements
  BY DEF StoreInv, VariablesTypeOK
<1>3. Standing'
  <2>1. Len(frames') = 0
    BY <1>1, NoFrames
  <2> QED BY <2>1 DEF Standing
<1>4. Placed'
  BY <1>1 DEF Consistent, Placed, storeVars
<1>5. \A g : ~Handled(frames, g) /\ \A read : ~Pending(frames, g, read)
  BY <1>1, NoFrames
<1>6. ASSUME NEW g \in styled \cap live'
      PROVE  Sound(g)' \/ Orphaned(g)'
  <2>0. /\ g \in styled \cap live /\ captured' = captured /\ deps' = deps /\ value' = value
        /\ position' = position /\ deps[g] \subseteq Names
    BY <1>1, <1>2 DEF storeVars, engineVars, VariablesTypeOK
  <2>1. CASE Orphaned(g) \/ \E m \in deps[g] : captured[e][m].on
    BY <1>1, <2>0, <2>1 DEF Orphaned
  <2>2. CASE Sound(g) /\ \A m \in deps[g] : ~captured[e][m].on
    <3>1. \A m \in Expanded(g).deps : Unaffected(m)
      BY <1>1, <2>0, <2>2 DEF Unaffected, Sound
    <3>2. live' \subseteq Elements
      BY <1>1, <1>2
    <3>3. Expanded(g)' = Expanded(g)
      BY <1>2, <2>0, <3>1, <3>2, ExpansionIsLocal
    <3> QED BY <2>0, <2>2, <3>3 DEF Sound
  <2> QED BY <1>5, <2>0, <2>1, <2>2 DEF Consistent, Followed
<1>7. Followed'
  BY <1>1, <1>6 DEF Followed, engineVars
<1>8. Displayed'
  BY <1>1, <1>5 DEF Consistent, Displayed, engineVars
<1> QED BY <1>3, <1>4, <1>7, <1>8 DEF Consistent

(* What has been capped, pumped or moved stays so.                          *)
LEMMA CalmBefore ==
  ASSUME StoreInv, Next, Calm' PROVE Calm
<1> USE DEF Calm
<1>0. {capped, pumped, moved} \subseteq BOOLEAN
  BY DEF StoreInv, VariablesTypeOK
<1>1. ASSUME NEW s, NEW n, Propagate(s, n) PROVE ~capped
  BY <1>0, <1>1 DEF Propagate
<1>2. ASSUME NEW s, NEW e, NEW n, NEW v, SetsProperty(s, e, n, v) PROVE ~capped
  BY <1>0, <1>1, <1>2 DEF SetsProperty
<1>3. ASSUME NEW s, NEW e, NEW v, Applies(s, e, v) PROVE ~capped
  BY <1>0, <1>2, <1>3 DEF Applies
<1>4. CASE Resolves \/ PropagationEnds \/ ReportResolves \/ ReportRegisters
  BY <1>4 DEF Resolves, PropagationEnds, ReportResolves, ReportRegisters, historyVars
<1>5. CASE Reapplies
  BY <1>3, <1>5 DEF Reapplies
<1>6. CASE ReportCaptures
  BY <1>1, <1>6 DEF ReportCaptures
<1>7. CASE ReportApplies
  BY <1>3, <1>7 DEF ReportApplies
<1>8. CASE RemovalPropagates
  BY <1>1, <1>8 DEF RemovalPropagates
<1>9. CASE RemovalEnds
  BY <1>3, <1>9 DEF RemovalEnds
<1>10. ASSUME NEW e \in Elements, NEW p \in Positions[e], Reported(e, p) PROVE Calm
  BY <1>0, <1>2, <1>10 DEF Reported, Event
<1>11. ASSUME NEW e \in Elements, NEW n \in Names, NEW v \in 0..MaxValue, PropertyChanges(e, n, v)
       PROVE  Calm
  BY <1>0, <1>2, <1>11 DEF PropertyChanges, Event
<1>12. ASSUME NEW e \in Elements, Removed(e) \/ Dies(e) PROVE Calm
  BY <1>0, <1>12 DEF Removed, Dies, Event
<1>13. CASE RestoreAll
  BY <1>0, <1>13 DEF RestoreAll, Event
<1> QED BY <1>4, <1>5, <1>6, <1>7, <1>8, <1>9, <1>10, <1>11, <1>12, <1>13 DEF Next

LEMMA InitVariables == Init => VariablesInv
<1> SUFFICES ASSUME Init PROVE VariablesInv
  OBVIOUS
<1>1. StoreInv
  BY InitStore
<1>2. Standing /\ Placed /\ Followed /\ Displayed
  <2>1. Len(frames) = 0
    BY NoFrames DEF Init
  <2> QED BY <2>1 DEF Init, Standing, Placed, Followed, Displayed, NoSite
<1> QED BY <1>1, <1>2 DEF VariablesInv, Consistent

LEMMA VariablesInvariant == VariablesInv /\ [Next]_vars => VariablesInv'
<1> SUFFICES ASSUME VariablesInv, [Next]_vars PROVE VariablesInv'
  OBVIOUS
<1>1. StoreInv /\ StoreInv'
  BY StoreInvariant DEF VariablesInv
<1>2. CASE UNCHANGED vars
  <2>1. Calm' = Calm
    BY <1>2 DEF Calm, vars, historyVars
  <2>2. Consistent => Consistent'
    <3>1. \A g : Expanded(g)' = Expanded(g)
      BY <1>2, SameExpansion DEF vars, storeVars, worldVars
    <3>2. UNCHANGED <<captured, deps, frames, styled, generation, value, shown, position, live>>
      BY <1>2 DEF vars, storeVars, engineVars, worldVars
    <3>3. Standing => Standing'
      BY <3>1, <3>2 DEF Standing, Current
    <3>4. Placed => Placed'
      BY <3>2 DEF Placed
    <3>5. Followed => Followed'
      BY <3>1, <3>2 DEF Followed, Sound, Orphaned
    <3>6. Displayed => Displayed'
      BY <3>2 DEF Displayed
    <3> QED BY <3>3, <3>4, <3>5, <3>6 DEF Consistent
  <2> QED BY <1>1, <2>1, <2>2 DEF VariablesInv
<1>3. CASE Next
  <2> SUFFICES ASSUME Calm' PROVE Consistent'
    BY <1>1 DEF VariablesInv
  <2>0. Consistent /\ ~capped' /\ ~pumped' /\ ~moved'
    BY <1>1, <1>3, CalmBefore DEF VariablesInv, Calm
  <2>1. CASE Resolves
    BY <1>1, <2>0, <2>1, ResolvesConsistent
  <2>2. CASE Reapplies
    BY <1>1, <2>0, <2>2, ReappliesConsistent
  <2>3. CASE PropagationEnds
    BY <1>1, <2>0, <2>3, PropagationEndsConsistent
  <2>4. CASE \E e \in Elements : \E p \in Positions[e] : Reported(e, p)
    BY <1>1, <2>0, <2>4, ReportedConsistent
  <2>5. CASE ReportResolves
    BY <1>1, <2>0, <2>5, ReportResolvesConsistent
  <2>6. CASE ReportRegisters
    BY <1>1, <2>0, <2>6, ReportRegistersConsistent
  <2>7. CASE ReportCaptures
    BY <1>1, <2>0, <2>7, ReportCapturesConsistent
  <2>8. CASE ReportApplies
    BY <1>1, <2>0, <2>8, ReportAppliesConsistent
  <2>9. CASE \E e \in Elements, n \in Names, v \in 0..MaxValue : PropertyChanges(e, n, v)
    BY <1>1, <2>0, <2>9, PropertyChangesConsistent
  <2>10. CASE \E e \in Elements : Removed(e) \/ Dies(e)
    BY <1>1, <2>0, <2>10, RemovedConsistent, DiesConsistent
  <2>11. CASE RemovalPropagates
    BY <1>1, <2>0, <2>11, RemovalPropagatesConsistent
  <2>12. CASE RemovalEnds
    BY <1>1, <2>0, <2>12, RemovalEndsConsistent
  <2>13. CASE RestoreAll
    BY <2>0, <2>13, RestoreAllConsistent
  <2> QED BY <1>3, <2>1, <2>2, <2>3, <2>4, <2>5, <2>6, <2>7, <2>8, <2>9, <2>10, <2>11, <2>12, <2>13 DEF Next
<1> QED BY <1>2, <1>3

LEMMA VariablesAlways == Spec => []VariablesInv
<1>1. Init => VariablesInv
  BY InitVariables
<1>2. VariablesInv /\ [Next]_vars => VariablesInv'
  BY VariablesInvariant
<1> QED BY <1>1, <1>2, PTL DEF Spec

-----------------------------------------------------------------------------
(* In every state, the store and the engine hold what they are declared to: *)
(* expressions yield values of their range however captures nest, and a     *)
(* styled element is one that reads variables.                              *)
THEOREM VariablesTypeCorrect == Spec => []VariablesTypeOK
<1>1. VariablesInv => VariablesTypeOK
  BY DEF VariablesInv, StoreInv
<1> QED BY <1>1, VariablesAlways, PTL

(* t_consumers and t_consumer_deps agree, each consumer once, in every      *)
(* state a callback can see (style_variables.cpp, RegisterConsumer).        *)
THEOREM ConsumersAlwaysIndexed == Spec => []ConsumersIndexed
<1>1. VariablesInv => ConsumersIndexed
  BY DEF VariablesInv, StoreInv
<1> QED BY <1>1, VariablesAlways, PTL

(* A removed element's property stays unset, whatever was resolved for its  *)
(* former state and whatever ran inside.                                    *)
THEOREM RemovedAlwaysBare == Spec => []RemovedStaysBare
<1>1. VariablesInv => RemovedStaysBare
  BY DEF VariablesInv, StoreInv, Bare, RemovedStaysBare
<1> QED BY <1>1, VariablesAlways, PTL

(* When the propagations have returned, every styled property shows what    *)
(* its expression says now (style_engine.cpp, ReapplyDynamicProperty).      *)
THEOREM AlwaysConverges == Spec => []Converged
<1>1. VariablesInv => Converged
  <2> SUFFICES ASSUME VariablesInv, frames = <<>>, Calm, NEW g \in styled \cap live
               PROVE  \/ shown[g] = Expanded(g).value
                      \/ \E f \in Elements \ live, n \in Reads(g) : captured[f][n].on
    BY DEF Converged, ShowsItsExpression, Calm, Reads
  <2>1. Consistent /\ StoreInv
    BY DEF VariablesInv
  <2>2. shown[g] = value[g] /\ (Sound(g) \/ Orphaned(g))
    BY <2>1, NoFrames DEF Consistent, Followed, Displayed
  <2>3. deps[g] \subseteq Reads(g)
    BY <2>1 DEF StoreInv, VariablesTypeOK
  <2> QED BY <2>2, <2>3 DEF Sound, Orphaned
<1> QED BY <1>1, VariablesAlways, PTL

-----------------------------------------------------------------------------
(* The match of a selector.  A placement of the first k parts gives each of *)
(* their element parts a place on the path, 1 being the element itself.     *)
PlacedParts(k) == {i \in 1..k : chain[i].kind = "element"}

Fits(i, p) ==
  \/ chain[i].type \in {AnyType, path[p].type}
  \/ i = Len(chain) /\ chain[i].type = path[p].reported

Laid(k, place) ==
  /\ place \in [PlacedParts(k) -> 1..Len(path)]
  /\ \A i \in 1..k : chain[i].kind = "wildcard" => i - 1 \in PlacedParts(k)
  /\ \A i \in PlacedParts(k) :
       /\ Fits(i, place[i])
       /\ i + 1 \in PlacedParts(k) => place[i] = place[i + 1] + 1
       /\ i + 2 \in PlacedParts(k) /\ chain[i + 1].kind = "wildcard" => place[i] > place[i + 2]
       /\ i > 1 /\ chain[i - 1].kind = "root" => place[i] = Len(path)

(* The k parts continue above an element part that stands at p.             *)
Reaches(k, place, p) ==
  /\ k \in PlacedParts(k) => place[k] = p + 1
  /\ k > 0 /\ chain[k].kind = "wildcard" => place[k - 1] > p
  /\ k > 0 /\ chain[k].kind = "root" => p = Len(path)

(* The group reference that a match leaves behind.                          *)
Told(k, place, group, g) ==
  /\ \A i \in PlacedParts(k) : chain[i].group => g = place[i] - 1
  /\ (\A i \in PlacedParts(k) : ~chain[i].group) => g = group

Results == [ok : BOOLEAN, group : Groups]

(* A level answers for the first k parts from every depth: it matches when  *)
(* they can be laid above, tells the group of such a placement, and leaves  *)
(* the reference alone when none of them has a group.                       *)
Exact(k, level) ==
  \A depth \in Depths, group \in Groups :
    /\ level[depth][group] \in Results
    /\ level[depth][group].ok
         <=> \E place : Laid(k, place) /\ Reaches(k, place, depth + 1)
    /\ level[depth][group].ok
         => \E place : /\ Laid(k, place) /\ Reaches(k, place, depth + 1)
                       /\ Told(k, place, group, level[depth][group].group)
    /\ (\A i \in PlacedParts(k) : ~chain[i].group) => level[depth][group].group = group

SelectorTypeOK ==
  /\ chain \in Seq(Parts) /\ path \in Seq(Element)
  /\ path # <<>> => chain # <<>> /\ ValidateChainStructure(chain)

(* What the parser has validated, spelled out.                              *)
Formed ==
  /\ Len(chain) \in Nat /\ Len(chain) > 0 /\ Len(path) \in Nat /\ Len(path) > 0
  /\ \A i \in 1..Len(chain) :
       /\ chain[i].kind \in {"element", "wildcard", "root"} /\ chain[i].group \in BOOLEAN
       /\ chain[i].kind # "element" => ~chain[i].group /\ i # Len(chain)
       /\ chain[i].kind = "wildcard" => i # 1 /\ chain[i - 1].kind # "wildcard"
       /\ chain[i].kind = "root" => i = 1
  /\ \A i, j \in 1..Len(chain) : chain[i].group /\ chain[j].group => i = j

LEMMA Doubleton ==
  ASSUME NEW S, IsFiniteSet(S), Cardinality(S) <= 1, NEW a \in S, NEW b \in S
  PROVE  a = b
<1> SUFFICES ASSUME a # b PROVE FALSE
  OBVIOUS
<1>1. IsFiniteSet({a}) /\ Cardinality({a}) = 1
  BY FS_Singleton
<1>2. IsFiniteSet({a} \cup {b}) /\ Cardinality({a} \cup {b}) = 2
  <2>1. b \notin {a}
    OBVIOUS
  <2>2. IsFiniteSet({a} \cup {b})
    BY <1>1, FS_AddElement
  <2>3. Cardinality({a} \cup {b}) = Cardinality({a}) + 1
    BY <1>1, <2>1, FS_AddElement
  <2> QED BY <1>1, <2>2, <2>3
<1>3. {a} \cup {b} \subseteq S
  OBVIOUS
<1>4. Cardinality({a} \cup {b}) <= Cardinality(S)
  BY <1>3, FS_Subset
<1>5. Cardinality(S) \in Nat
  BY FS_CardinalityType
<1> QED BY <1>2, <1>4, <1>5

LEMMA WellFormedChain ==
  ASSUME SelectorTypeOK, path # <<>>
  PROVE  Formed
<1> DEFINE n == Len(chain)
           grouped == {i \in 1..n : chain[i].group}
<1>1. /\ chain \in Seq(Parts) /\ chain # <<>> /\ path \in Seq(Element)
      /\ ValidateChainStructure(chain)
  BY DEF SelectorTypeOK
<1>2. n \in Nat /\ n > 0 /\ Len(path) \in Nat /\ Len(path) > 0
  BY <1>1, EmptySeq, LenProperties
<1>3. \A i \in 1..n : chain[i] \in Parts
  BY <1>1
<1>4. ASSUME NEW i \in 1..n
      PROVE  /\ chain[i].kind \in {"element", "wildcard", "root"} /\ chain[i].group \in BOOLEAN
             /\ chain[i].kind # "element" => ~chain[i].group
  <2>1. chain[i] \in Parts
    BY <1>3
  <2>2. CASE chain[i] \in ElementParts
    <3>1. PICK part \in ElementParts : part = chain[i]
      BY <2>2
    <3>2. part.kind = "element" /\ part.group \in BOOLEAN
      BY DEF ElementParts
    <3> QED BY <3>1, <3>2
  <2>3. CASE chain[i] \in {Wildcard, Root}
    <3>1. PICK part \in {Wildcard, Root} : part = chain[i]
      BY <2>3
    <3>2. part.kind \in {"wildcard", "root"} /\ part.group = FALSE
      <4>1. CASE part = Wildcard
        BY <4>1 DEF Wildcard
      <4>2. CASE part = Root
        BY <4>2 DEF Root
      <4> QED BY <4>1, <4>2
    <3> QED BY <3>1, <3>2
  <2> QED BY <2>1, <2>2, <2>3 DEF Parts
<1>5. /\ \A i \in 1..n : chain[i].kind = "wildcard" =>
           i # n /\ i # 1 /\ chain[i + 1].kind # "wildcard"
      /\ \A i \in 1..n : chain[i].kind = "root" => i # n /\ i = 1
      /\ Cardinality(grouped) <= 1
  BY <1>1 DEF ValidateChainStructure
<1>6. IsFiniteSet(grouped)
  <2>1. grouped \subseteq 1..n
    OBVIOUS
  <2>2. IsFiniteSet(1..n)
    BY <1>2, FS_Interval
  <2> HIDE DEF grouped
  <2> QED BY <2>1, <2>2, FS_Subset
<1>7. ASSUME NEW i \in 1..n, NEW j \in 1..n, chain[i].group, chain[j].group
      PROVE  i = j
  <2>1. i \in grouped /\ j \in grouped
    BY <1>7
  <2> HIDE DEF grouped
  <2> QED BY <2>1, <1>5, <1>6, Doubleton
<1>8. ASSUME NEW i \in 1..n, chain[i].kind = "wildcard" PROVE chain[i - 1].kind # "wildcard"
  <2>1. i # 1
    BY <1>5, <1>8
  <2>2. i - 1 \in 1..n /\ (i - 1) + 1 = i
    BY <2>1, <1>2
  <2> QED BY <1>5, <1>8, <2>2
<1> HIDE DEF grouped
<1> QED BY <1>2, <1>4, <1>5, <1>7, <1>8 DEF Formed

-----------------------------------------------------------------------------
(* One part more.                                                           *)
LEMMA PlacedGrows ==
  ASSUME Formed, NEW j \in 1..Len(chain)
  PROVE  /\ chain[j].kind = "element" => PlacedParts(j) = PlacedParts(j - 1) \cup {j}
         /\ chain[j].kind # "element" => PlacedParts(j) = PlacedParts(j - 1)
         /\ j \notin PlacedParts(j - 1) /\ PlacedParts(j) \subseteq 1..j /\ PlacedParts(j - 1) \subseteq 1..j - 1
         /\ j \in Nat /\ j > 0 /\ Len(chain) \in Nat /\ Len(path) \in Nat /\ Len(path) > 0
BY DEF PlacedParts, Formed

LEMMA LaidFurther ==
  ASSUME Formed, NEW j \in 1..Len(chain), chain[j].kind = "element",
         NEW p \in 1..Len(path), Fits(j, p),
         NEW q, Laid(j - 1, q), Reaches(j - 1, q, p)
  PROVE  \E place : /\ Laid(j, place) /\ place[j] = p
                    /\ \A i \in PlacedParts(j - 1) : place[i] = q[i]
<1> DEFINE place == [i \in PlacedParts(j) |-> IF i = j THEN p ELSE q[i]]
<1>1. /\ PlacedParts(j) = PlacedParts(j - 1) \cup {j} /\ j \notin PlacedParts(j - 1)
      /\ PlacedParts(j) \subseteq 1..j /\ PlacedParts(j - 1) \subseteq 1..j - 1
      /\ j \in Nat /\ j > 0 /\ Len(path) \in Nat
  BY PlacedGrows
<1>2. /\ DOMAIN place = PlacedParts(j) /\ place[j] = p /\ \A i \in PlacedParts(j - 1) : place[i] = q[i]
  BY <1>1
<1>3. place \in [PlacedParts(j) -> 1..Len(path)]
  <2>1. q \in [PlacedParts(j - 1) -> 1..Len(path)]
    BY DEF Laid
  <2> QED BY <1>1, <2>1
<1> HIDE DEF place
<1>4. \A i \in 1..j : chain[i].kind = "wildcard" => i - 1 \in PlacedParts(j)
  <2>1. \A i \in 1..j - 1 : chain[i].kind = "wildcard" => i - 1 \in PlacedParts(j - 1)
    BY DEF Laid
  <2> QED BY <1>1, <2>1
<1>5. ASSUME NEW i \in PlacedParts(j)
      PROVE  /\ Fits(i, place[i])
             /\ i + 1 \in PlacedParts(j) => place[i] = place[i + 1] + 1
             /\ i + 2 \in PlacedParts(j) /\ chain[i + 1].kind = "wildcard" => place[i] > place[i + 2]
             /\ i > 1 /\ chain[i - 1].kind = "root" => place[i] = Len(path)
  <2>1. CASE i = j
    <3>1. i + 1 \notin PlacedParts(j) /\ i + 2 \notin PlacedParts(j)
      BY <1>1, <2>1
    <3>2. i > 1 /\ chain[i - 1].kind = "root" => p = Len(path)
      BY <1>1, <2>1 DEF Reaches
    <3> QED BY <1>2, <2>1, <3>1, <3>2
  <2>2. CASE i # j
    <3>1. i \in PlacedParts(j - 1) /\ place[i] = q[i] /\ i \in 1..j - 1
      BY <1>1, <1>2, <2>2
    <3>2. /\ Fits(i, q[i])
          /\ i + 1 \in PlacedParts(j - 1) => q[i] = q[i + 1] + 1
          /\ i + 2 \in PlacedParts(j - 1) /\ chain[i + 1].kind = "wildcard" => q[i] > q[i + 2]
          /\ i > 1 /\ chain[i - 1].kind = "root" => q[i] = Len(path)
      BY <3>1 DEF Laid
    <3>3. i + 1 = j => q[i] = p + 1
      <4> SUFFICES ASSUME i + 1 = j PROVE q[i] = p + 1
        OBVIOUS
      <4>1. j - 1 = i
        BY <1>1, <3>1
      <4> QED BY <3>1, <4>1 DEF Reaches
    <3>4. i + 2 = j /\ chain[i + 1].kind = "wildcard" => q[i] > p
      <4> SUFFICES ASSUME i + 2 = j, chain[i + 1].kind = "wildcard" PROVE q[i] > p
        OBVIOUS
      <4>1. j - 1 = i + 1 /\ (j - 1) - 1 = i /\ j - 1 > 0
        BY <1>1, <3>1
      <4>2. chain[j - 1].kind = "wildcard" => q[(j - 1) - 1] > p
        BY <4>1 DEF Reaches
      <4> QED BY <4>1, <4>2
    <3> QED BY <1>1, <1>2, <3>1, <3>2, <3>3, <3>4
  <2> QED BY <2>1, <2>2
<1> QED BY <1>2, <1>3, <1>4, <1>5 DEF Laid

LEMMA Shortened ==
  ASSUME Formed, NEW j \in 1..Len(chain), chain[j].kind = "element",
         NEW place, Laid(j, place)
  PROVE  /\ place[j] \in 1..Len(path) /\ Fits(j, place[j])
         /\ \E q : Laid(j - 1, q) /\ Reaches(j - 1, q, place[j])
<1> DEFINE q == [i \in PlacedParts(j - 1) |-> place[i]]
<1>1. /\ PlacedParts(j) = PlacedParts(j - 1) \cup {j} /\ j \notin PlacedParts(j - 1)
      /\ PlacedParts(j) \subseteq 1..j /\ PlacedParts(j - 1) \subseteq 1..j - 1
      /\ j \in Nat /\ j > 0 /\ Len(path) \in Nat
  BY PlacedGrows
<1>2. \A i \in PlacedParts(j - 1) : q[i] = place[i]
  OBVIOUS
<1>3. /\ place \in [PlacedParts(j) -> 1..Len(path)]
      /\ \A i \in 1..j : chain[i].kind = "wildcard" => i - 1 \in PlacedParts(j)
      /\ \A i \in PlacedParts(j) :
           /\ Fits(i, place[i])
           /\ i + 1 \in PlacedParts(j) => place[i] = place[i + 1] + 1
           /\ i + 2 \in PlacedParts(j) /\ chain[i + 1].kind = "wildcard" => place[i] > place[i + 2]
           /\ i > 1 /\ chain[i - 1].kind = "root" => place[i] = Len(path)
  BY DEF Laid
<1>4. q \in [PlacedParts(j - 1) -> 1..Len(path)]
  BY <1>1, <1>3
<1> HIDE DEF q
<1>5. \A i \in 1..j - 1 : chain[i].kind = "wildcard" => i - 1 \in PlacedParts(j - 1)
  <2>1. \A i \in 1..j - 1 : i \in 1..j /\ i - 1 # j
    BY <1>1
  <2> QED BY <1>1, <1>3, <2>1
<1>6. Laid(j - 1, q)
  <2>1. ASSUME NEW i \in PlacedParts(j - 1)
        PROVE  /\ Fits(i, q[i])
               /\ i + 1 \in PlacedParts(j - 1) => q[i] = q[i + 1] + 1
               /\ i + 2 \in PlacedParts(j - 1) /\ chain[i + 1].kind = "wildcard" => q[i] > q[i + 2]
               /\ i > 1 /\ chain[i - 1].kind = "root" => q[i] = Len(path)
    BY <1>1, <1>2, <1>3
  <2> QED BY <1>4, <1>5, <2>1 DEF Laid
<1>7. Reaches(j - 1, q, place[j])
  <2>1. j - 1 \in PlacedParts(j - 1) => q[j - 1] = place[j] + 1
    <3>1. (j - 1) + 1 = j
      BY <1>1
    <3> QED BY <1>1, <1>2, <1>3, <3>1
  <2>2. j - 1 > 0 /\ chain[j - 1].kind = "wildcard" => q[(j - 1) - 1] > place[j]
    <3> SUFFICES ASSUME j - 1 > 0, chain[j - 1].kind = "wildcard"
                 PROVE  q[(j - 1) - 1] > place[j]
      OBVIOUS
    <3>1. j - 1 \in 1..j - 1 /\ ((j - 1) - 1) + 2 = j /\ ((j - 1) - 1) + 1 = j - 1
      BY <1>1
    <3>2. (j - 1) - 1 \in PlacedParts(j - 1)
      BY <1>5, <3>1
    <3> QED BY <1>1, <1>2, <1>3, <3>1, <3>2
  <2>3. j - 1 > 0 /\ chain[j - 1].kind = "root" => place[j] = Len(path)
    BY <1>1, <1>3
  <2> QED BY <2>1, <2>2, <2>3 DEF Reaches
<1> QED BY <1>1, <1>3, <1>6, <1>7

-----------------------------------------------------------------------------
(* What MatchFrom answers for part j at a depth, from a level below.        *)
Answers(j, depth, group, r) ==
  /\ r \in Results
  /\ r.ok <=> \E place : Laid(j, place) /\ place[j] = depth + 1
  /\ r.ok => \E place : Laid(j, place) /\ place[j] = depth + 1 /\ Told(j, place, group, r.group)
  /\ (\A i \in PlacedParts(j) : ~chain[i].group) => r.group = group

LEMMA TestFacts ==
  ASSUME Formed, NEW j \in 1..Len(chain), NEW depth \in Depths, NEW group \in Groups,
         NEW allowReported \in BOOLEAN, j = Len(chain) <=> allowReported
  PROVE  LET test == TestMatcher(path[depth + 1], chain[j], allowReported, depth, group) IN
         /\ test \in Results
         /\ test.ok <=> Fits(j, depth + 1)
         /\ test.group = IF test.ok /\ chain[j].group THEN depth ELSE group
<1> DEFINE ok == \/ chain[j].type \in {AnyType, path[depth + 1].type}
                 \/ allowReported /\ chain[j].type = path[depth + 1].reported
           g == IF ok /\ chain[j].group THEN depth ELSE group
<1>1. TestMatcher(path[depth + 1], chain[j], allowReported, depth, group) = [ok |-> ok, group |-> g]
  BY DEF TestMatcher, Result
<1>2. ok <=> Fits(j, depth + 1)
  BY DEF Fits
<1>3. ok \in BOOLEAN
  OBVIOUS
<1>4. g \in Groups
  BY DEF Groups
<1>5. g = IF ok /\ chain[j].group THEN depth ELSE group
  OBVIOUS
<1> HIDE DEF ok, g
<1>6. [ok |-> ok, group |-> g] \in Results
  BY <1>3, <1>4 DEF Results
<1> QED BY <1>1, <1>2, <1>5, <1>6

LEMMA MatchFromAnswers ==
  ASSUME Formed, NEW j \in 1..Len(chain), chain[j].kind = "element",
         NEW depth \in Depths, NEW group \in Groups,
         NEW allowReported \in BOOLEAN, j = Len(chain) <=> allowReported,
         NEW rest, Exact(j - 1, rest)
  PROVE  Answers(j, depth, group, MatchFrom(chain[j], allowReported, depth, group, rest))
<1> DEFINE p == depth + 1
           r == MatchFrom(chain[j], allowReported, depth, group, rest)
<1>1. PICK test : /\ test = TestMatcher(path[depth + 1], chain[j], allowReported, depth, group)
                  /\ test \in Results /\ (test.ok <=> Fits(j, p))
                  /\ test.group = IF test.ok /\ chain[j].group THEN depth ELSE group
  BY TestFacts
<1>2. r = IF test.ok THEN rest[depth][test.group] ELSE test
  BY <1>1 DEF MatchFrom
<1>3. /\ PlacedParts(j) = PlacedParts(j - 1) \cup {j} /\ j \notin PlacedParts(j - 1)
      /\ PlacedParts(j) \subseteq 1..j /\ PlacedParts(j - 1) \subseteq 1..j - 1
      /\ j \in Nat /\ j > 0 /\ Len(path) \in Nat /\ Len(chain) \in Nat
  BY PlacedGrows
<1>4. p \in 1..Len(path) /\ p - 1 = depth
  BY <1>3 DEF Depths
<1>5. test.group \in Groups /\ test.ok \in BOOLEAN
  BY <1>1 DEF Results
<1>6. \A i, h \in PlacedParts(j) : chain[i].group /\ chain[h].group => i = h
  BY <1>3 DEF Formed
<1>6a. \A i \in PlacedParts(j) : chain[i].group \in BOOLEAN
  BY <1>3 DEF Formed
<1> HIDE DEF r
<1>7. CASE ~test.ok
  <2>1. r = test /\ ~Fits(j, p) /\ r.group = group
    BY <1>1, <1>2, <1>7
  <2>2. ~ \E place : Laid(j, place) /\ place[j] = p
    BY <2>1, Shortened
  <2> HIDE DEF p
  <2>3. Answers(j, depth, group, r)
    BY <1>1, <1>7, <2>1, <2>2 DEF Answers, p
  <2> QED BY <2>3 DEF r
<1>8. CASE test.ok
  <2>0. r = rest[depth][test.group] /\ Fits(j, p)
    BY <1>1, <1>2, <1>8
  <2>1. /\ r \in Results
        /\ r.ok <=> \E q : Laid(j - 1, q) /\ Reaches(j - 1, q, p)
        /\ r.ok => \E q : Laid(j - 1, q) /\ Reaches(j - 1, q, p) /\ Told(j - 1, q, test.group, r.group)
        /\ (\A i \in PlacedParts(j - 1) : ~chain[i].group) => r.group = test.group
    BY <1>5, <2>0 DEF Exact
  <2>2. test.group = IF chain[j].group THEN depth ELSE group
    BY <1>1, <1>8
  <2> HIDE DEF p
  <2>3. (\E place : Laid(j, place) /\ place[j] = p) => r.ok
    <3> SUFFICES ASSUME NEW place, Laid(j, place), place[j] = p PROVE r.ok
      OBVIOUS
    <3>1. \E q : Laid(j - 1, q) /\ Reaches(j - 1, q, place[j])
      BY Shortened
    <3> QED BY <2>1, <3>1
  <2>4. r.ok => \E place : Laid(j, place) /\ place[j] = p /\ Told(j, place, group, r.group)
    <3> SUFFICES ASSUME r.ok
                 PROVE  \E place : Laid(j, place) /\ place[j] = p /\ Told(j, place, group, r.group)
      OBVIOUS
    <3>1. PICK q : Laid(j - 1, q) /\ Reaches(j - 1, q, p) /\ Told(j - 1, q, test.group, r.group)
      BY <2>1
    <3>2. PICK place : /\ Laid(j, place) /\ place[j] = p
                       /\ \A i \in PlacedParts(j - 1) : place[i] = q[i]
      BY <1>4, <2>0, <3>1, LaidFurther
    <3>3. ASSUME NEW i \in PlacedParts(j), chain[i].group PROVE r.group = place[i] - 1
      <4>1. CASE i = j
        <5>1. \A h \in PlacedParts(j - 1) : ~chain[h].group
          BY <1>3, <1>6, <3>3, <4>1
        <5>2. r.group = depth
          BY <2>1, <2>2, <3>3, <4>1, <5>1
        <5> QED BY <1>4, <3>2, <4>1, <5>2
      <4>2. CASE i # j
        <5>1. i \in PlacedParts(j - 1)
          BY <1>3, <4>2
        <5> QED BY <3>1, <3>2, <3>3, <5>1 DEF Told
      <4> QED BY <4>1, <4>2
    <3>4. ASSUME \A i \in PlacedParts(j) : ~chain[i].group PROVE r.group = group
      <4>1. (\A i \in PlacedParts(j - 1) : ~chain[i].group) /\ ~chain[j].group
        BY <1>3, <3>4
      <4> QED BY <2>1, <2>2, <4>1
    <3>5. Told(j, place, group, r.group)
      BY <3>3, <3>4 DEF Told
    <3> QED BY <3>2, <3>5
  <2>5. ASSUME \A i \in PlacedParts(j) : ~chain[i].group PROVE r.group = group
    <3>1. (\A i \in PlacedParts(j - 1) : ~chain[i].group) /\ ~chain[j].group
      BY <1>3, <2>5
    <3> QED BY <2>1, <2>2, <3>1
  <2>6. Answers(j, depth, group, r)
    BY <2>1, <2>3, <2>4, <2>5 DEF Answers, p
  <2> QED BY <2>6 DEF r
<1> QED BY <1>5, <1>7, <1>8

-----------------------------------------------------------------------------
(* The loop after a wildcard.                                               *)
Try(part, rest, try, left) ==
  [group \in Groups |->
     LET match == MatchFrom(part, FALSE, Len(path) - left, group, rest) IN
     IF left = 0 THEN Result(FALSE, group)
     ELSE IF match.ok THEN match ELSE try[left - 1][match.group]]

LEMMA TryExists ==
  ASSUME NEW part, NEW rest, NEW n \in Nat
  PROVE  \E g : g = [i \in 0..n |-> Try(part, rest, g, i)]
<1> DEFINE Bad == {m \in Nat : ~ \E g : g = [i \in 0..m |-> Try(part, rest, g, i)]}
<1> SUFFICES ASSUME Bad # {} PROVE FALSE
  OBVIOUS
<1>1. PICK m \in Bad : \A k \in Bad : m <= k
  <2>1. Bad \subseteq Nat
    OBVIOUS
  <2> HIDE DEF Bad
  <2> QED BY <2>1, LeastNat
<1>0. ASSUME NEW f, NEW h, NEW i \in Nat, i # 0 => f[i - 1] = h[i - 1]
      PROVE  Try(part, rest, f, i) = Try(part, rest, h, i)
  <2>1. CASE i = 0
    BY <2>1 DEF Try
  <2>2. CASE i # 0
    BY <1>0, <2>2 DEF Try
  <2> QED BY <2>1, <2>2
<1>2. CASE m = 0
  <2> DEFINE g == [i \in 0..0 |-> Try(part, rest, <<>>, 0)]
  <2>1. g = [i \in 0..0 |-> Try(part, rest, g, i)]
    <3>1. Try(part, rest, g, 0) = Try(part, rest, <<>>, 0)
      BY <1>0
    <3>2. \A i \in 0..0 : i = 0
      OBVIOUS
    <3> HIDE DEF g
    <3>3. g = [i \in 0..0 |-> Try(part, rest, <<>>, 0)]
      BY DEF g
    <3> QED BY <3>1, <3>2, <3>3
  <2> QED BY <1>1, <1>2, <2>1
<1>3. CASE m # 0
  <2>1. m \in Nat /\ m - 1 \in Nat /\ m - 1 \notin Bad
    <3>1. m \in Nat /\ m - 1 \in Nat /\ ~(m <= m - 1)
      BY <1>1, <1>3
    <3> HIDE DEF Bad
    <3> QED BY <1>1, <3>1
  <2>2. PICK g : g = [i \in 0..(m - 1) |-> Try(part, rest, g, i)]
    BY <2>1
  <2> DEFINE h == [i \in 0..m |-> IF i = m THEN Try(part, rest, g, m) ELSE g[i]]
  <2>3. ASSUME NEW i \in 0..m PROVE h[i] = Try(part, rest, h, i)
    <3>0. i \in Nat /\ (i # 0 => h[i - 1] = g[i - 1])
      BY <2>1
    <3>1. Try(part, rest, h, i) = Try(part, rest, g, i)
      <4> HIDE DEF h
      <4> QED BY <1>0, <3>0
    <3>2. CASE i = m
      BY <3>1, <3>2
    <3>3. CASE i # m
      <4>1. i \in 0..(m - 1) /\ h[i] = g[i]
        BY <3>3, <2>1
      <4>2. g[i] = Try(part, rest, g, i)
        BY <2>2, <4>1
      <4> QED BY <3>1, <4>1, <4>2
    <3> QED BY <3>2, <3>3
  <2>4. h = [i \in 0..m |-> Try(part, rest, h, i)]
    <3>1. h = [i \in 0..m |-> h[i]]
      OBVIOUS
    <3> HIDE DEF h
    <3> QED BY <3>1, <2>3
  <2> QED BY <1>1, <2>4
<1> QED BY <1>2, <1>3

(* The answer of the loop: as MatchFrom's, for any place farther away.      *)
Found(j, left, group, r) ==
  /\ r \in Results
  /\ r.ok <=> \E place : Laid(j, place) /\ place[j] > Len(path) - left
  /\ r.ok => \E place : /\ Laid(j, place) /\ place[j] > Len(path) - left
                        /\ Told(j, place, group, r.group)
  /\ (\A i \in PlacedParts(j) : ~chain[i].group) => r.group = group

LEMMA CandidatesAnswer ==
  ASSUME Formed, NEW j \in 1..Len(chain), chain[j].kind = "element", j # Len(chain),
         NEW rest, Exact(j - 1, rest)
  PROVE  \A left \in 0..Len(path), group \in Groups :
           Found(j, left, group, Candidates(chain[j], rest)[left][group])
<1> DEFINE f == CHOOSE g : g = [i \in 0..Len(path) |-> Try(chain[j], rest, g, i)]
<1>1. Candidates(chain[j], rest) = f
  BY DEF Candidates, Try
<1>2. f = [i \in 0..Len(path) |-> Try(chain[j], rest, f, i)]
  <2>1. Len(path) \in Nat
    BY DEF Formed
  <2>2. \E g : g = [i \in 0..Len(path) |-> Try(chain[j], rest, g, i)]
    BY <2>1, TryExists
  <2> QED BY <2>2
<1> HIDE DEF f
<1>3. \A i \in 0..Len(path) : f[i] = Try(chain[j], rest, f, i)
  BY <1>2
<1> DEFINE Bad == {m \in 0..Len(path) : ~ \A group \in Groups : Found(j, m, group, f[m][group])}
<1> SUFFICES ASSUME Bad # {} PROVE FALSE
  BY <1>1
<1>4. PICK m \in Bad : \A k \in Bad : m <= k
  <2>1. Bad \subseteq Nat
    BY DEF Formed
  <2> HIDE DEF Bad
  <2> QED BY <2>1, LeastNat
<1>5. m \in 0..Len(path) /\ Len(path) \in Nat
  BY <1>4 DEF Formed
<1>6. PICK group \in Groups : ~Found(j, m, group, f[m][group])
  BY <1>4
<1>7. \A place : Laid(j, place) => place[j] \in 1..Len(path)
  BY Shortened
<1>8. f[m] = Try(chain[j], rest, f, m)
  BY <1>3, <1>5
<1>9. CASE m = 0
  <2>1. f[m][group] = [ok |-> FALSE, group |-> group]
    BY <1>8, <1>9 DEF Try, Result
  <2>2. ~ \E place : Laid(j, place) /\ place[j] > Len(path) - m
    BY <1>5, <1>7, <1>9
  <2>3. Found(j, m, group, f[m][group])
    BY <2>1, <2>2 DEF Found, Results
  <2> QED BY <1>6, <2>3
<1>10. CASE m # 0
  <2> DEFINE depth == Len(path) - m
  <2>1. depth \in Depths /\ m - 1 \in 0..Len(path) /\ ~(m <= m - 1) /\ Len(path) - (m - 1) = depth + 1
    BY <1>5, <1>10 DEF Depths
  <2>2. \A g \in Groups : Found(j, m - 1, g, f[m - 1][g])
    <3>1. m - 1 \notin Bad
      <4> HIDE DEF Bad
      <4> QED BY <1>4, <2>1
    <3> QED BY <2>1, <3>1
  <2>3. PICK match : match = MatchFrom(chain[j], FALSE, depth, group, rest)
    OBVIOUS
  <2>4. Answers(j, depth, group, match)
    BY <2>1, <2>3, MatchFromAnswers
  <2>5. f[m][group] = IF match.ok THEN match ELSE f[m - 1][match.group]
    BY <1>8, <1>10, <2>3 DEF Try
  <2>6. match.group \in Groups /\ match.ok \in BOOLEAN
    BY <2>4 DEF Answers, Results
  <2>7. \A place : Laid(j, place) =>
          (place[j] > depth <=> place[j] = depth + 1 \/ place[j] > Len(path) - (m - 1))
    BY <1>5, <1>7, <2>1
  <2> HIDE DEF depth
  <2>8. CASE match.ok
    <3>1. f[m][group] = match
      BY <2>5, <2>8
    <3>2. \E place : Laid(j, place) /\ place[j] > depth /\ Told(j, place, group, match.group)
      BY <2>4, <2>7, <2>8 DEF Answers
    <3>3. Found(j, m, group, match)
      BY <2>4, <2>8, <3>2 DEF Answers, Found, depth
    <3> QED BY <1>6, <3>1, <3>3
  <2>9. CASE ~match.ok
    <3>1. PICK r : r = f[m - 1][match.group]
      OBVIOUS
    <3>2. Found(j, m - 1, match.group, r) /\ f[m][group] = r
      BY <2>2, <2>5, <2>6, <2>9, <3>1
    <3>3. r.ok <=> \E place : Laid(j, place) /\ place[j] > depth
      BY <2>4, <2>7, <2>9, <3>2 DEF Found, Answers
    <3>4. (\A i \in PlacedParts(j) : ~chain[i].group) => match.group = group
      BY <2>4 DEF Answers
    <3>5. r.ok => \E place : Laid(j, place) /\ place[j] > depth /\ Told(j, place, group, r.group)
      <4> SUFFICES ASSUME r.ok
                   PROVE  \E place : Laid(j, place) /\ place[j] > depth /\ Told(j, place, group, r.group)
        OBVIOUS
      <4>1. PICK place : /\ Laid(j, place) /\ place[j] > Len(path) - (m - 1)
                         /\ Told(j, place, match.group, r.group)
        BY <3>2 DEF Found
      <4>2. Told(j, place, group, r.group)
        BY <3>4, <4>1 DEF Told
      <4> QED BY <2>7, <4>1, <4>2
    <3>6. Found(j, m, group, r)
      BY <3>2, <3>3, <3>4, <3>5 DEF Found, depth
    <3> QED BY <1>6, <3>2, <3>6
  <2> QED BY <2>6, <2>8, <2>9
<1> QED BY <1>9, <1>10

-----------------------------------------------------------------------------
(* MatchParents, level by level.                                            *)
LevelZero == [depth \in Depths |-> [group \in Groups |-> Result(TRUE, group)]]

Level(f, k) ==
  IF k = 0 THEN LevelZero ELSE MatchPart(k, f[k - 1], f[IF k = 1 THEN 0 ELSE k - 2])

LEMMA LevelsExist ==
  ASSUME NEW n \in Nat
  PROVE  \E g : g = [i \in 0..n |-> Level(g, i)]
<1> DEFINE Bad == {m \in Nat : ~ \E g : g = [i \in 0..m |-> Level(g, i)]}
<1> SUFFICES ASSUME Bad # {} PROVE FALSE
  OBVIOUS
<1>1. PICK m \in Bad : \A k \in Bad : m <= k
  <2>1. Bad \subseteq Nat
    OBVIOUS
  <2> HIDE DEF Bad
  <2> QED BY <2>1, LeastNat
<1>0. ASSUME NEW f, NEW h, NEW i \in Nat, \A k \in 0..i - 1 : f[k] = h[k]
      PROVE  Level(f, i) = Level(h, i)
  <2>1. CASE i = 0
    BY <2>1 DEF Level
  <2>2. CASE i # 0
    <3>1. PICK j : j = IF i = 1 THEN 0 ELSE i - 2
      OBVIOUS
    <3>2. i - 1 \in 0..i - 1 /\ j \in 0..i - 1
      BY <2>2, <3>1
    <3>3. f[i - 1] = h[i - 1] /\ f[j] = h[j]
      BY <1>0, <3>2
    <3> QED BY <2>2, <3>1, <3>3 DEF Level
  <2> QED BY <2>1, <2>2
<1>2. CASE m = 0
  <2> DEFINE g == [i \in 0..0 |-> Level(<<>>, 0)]
  <2>1. g = [i \in 0..0 |-> Level(g, i)]
    <3>1. Level(g, 0) = Level(<<>>, 0)
      BY DEF Level
    <3>2. \A i \in 0..0 : i = 0
      OBVIOUS
    <3> HIDE DEF g
    <3>3. g = [i \in 0..0 |-> Level(<<>>, 0)]
      BY DEF g
    <3> QED BY <3>1, <3>2, <3>3
  <2> QED BY <1>1, <1>2, <2>1
<1>3. CASE m # 0
  <2>1. m \in Nat /\ m - 1 \in Nat /\ m - 1 \notin Bad
    <3>1. m \in Nat /\ m - 1 \in Nat /\ ~(m <= m - 1)
      BY <1>1, <1>3
    <3> HIDE DEF Bad
    <3> QED BY <1>1, <3>1
  <2>2. PICK g : g = [i \in 0..(m - 1) |-> Level(g, i)]
    BY <2>1
  <2> DEFINE h == [i \in 0..m |-> IF i = m THEN Level(g, m) ELSE g[i]]
  <2>3. ASSUME NEW i \in 0..m PROVE h[i] = Level(h, i)
    <3>0. i \in Nat /\ \A k \in 0..i - 1 : h[k] = g[k]
      BY <2>1
    <3>1. Level(h, i) = Level(g, i)
      <4> HIDE DEF h
      <4> QED BY <1>0, <3>0
    <3>2. CASE i = m
      BY <3>1, <3>2
    <3>3. CASE i # m
      <4>1. i \in 0..(m - 1) /\ h[i] = g[i]
        BY <3>3, <2>1
      <4>2. g[i] = Level(g, i)
        BY <2>2, <4>1
      <4> QED BY <3>1, <4>1, <4>2
    <3> QED BY <3>2, <3>3
  <2>4. h = [i \in 0..m |-> Level(h, i)]
    <3>1. h = [i \in 0..m |-> h[i]]
      OBVIOUS
    <3> HIDE DEF h
    <3> QED BY <3>1, <2>3
  <2> QED BY <1>1, <2>4
<1> QED BY <1>2, <1>3

(* Nothing left to match: the placement of no parts reaches anywhere.       *)
LEMMA LevelZeroExact ==
  ASSUME Formed
  PROVE  Exact(0, LevelZero)
<1>1. PlacedParts(0) = {}
  BY DEF PlacedParts
<1>2. \A p : Laid(0, [i \in {} |-> 1]) /\ Reaches(0, [i \in {} |-> 1], p)
  BY <1>1 DEF Laid, Reaches
<1>3. ASSUME NEW depth \in Depths, NEW group \in Groups
      PROVE  /\ LevelZero[depth][group] = [ok |-> TRUE, group |-> group]
             /\ \A place : Told(0, place, group, group)
  BY <1>1 DEF LevelZero, Result, Told
<1>4. \A group \in Groups : [ok |-> TRUE, group |-> group] \in Results
  BY DEF Results
<1>5. ASSUME NEW depth \in Depths, NEW group \in Groups,
             NEW r, r = LevelZero[depth][group]
      PROVE  /\ r \in Results
             /\ r.ok <=> \E place : Laid(0, place) /\ Reaches(0, place, depth + 1)
             /\ r.ok => \E place : /\ Laid(0, place) /\ Reaches(0, place, depth + 1)
                                   /\ Told(0, place, group, r.group)
             /\ r.group = group
  <2>0. r = [ok |-> TRUE, group |-> group]
    BY <1>3, <1>5
  <2>1. r \in Results /\ r.ok /\ r.group = group
    <3>1. r \in Results
      BY <1>4, <2>0
    <3>2. r.ok /\ r.group = group
      BY <2>0
    <3> QED BY <3>1, <3>2
  <2>2. \A place : Told(0, place, group, r.group)
    BY <1>3, <2>1
  <2> QED BY <1>2, <2>1, <2>2
<1> QED BY <1>5 DEF Exact

LEMMA RootExact ==
  ASSUME Formed, NEW k \in 1..Len(chain) - 1, chain[k].kind = "root",
         NEW next, NEW beyond, Exact(0, next)
  PROVE  Exact(k, MatchPart(k, next, beyond))
<1>1. k = 1 /\ PlacedParts(1) = {} /\ PlacedParts(0) = {} /\ Len(path) \in Nat /\ Len(chain) \in Nat
  BY DEF Formed, PlacedParts
<1>2. \A place : Laid(1, place) <=> Laid(0, place)
  <2>1. \A i \in 1..1 : chain[i].kind # "wildcard"
    <3>1. chain[1].kind = "root" /\ \A i \in 1..1 : i = 1
      BY <1>1
    <3> QED BY <3>1
  <2>2. 1..0 = {}
    OBVIOUS
  <2> QED BY <1>1, <2>1, <2>2 DEF Laid
<1>3. \A place, p : Reaches(1, place, p) <=> p = Len(path)
  BY <1>1 DEF Reaches
<1>4. \A place, p : Reaches(0, place, p)
  BY <1>1 DEF Reaches
<1>5. ASSUME NEW depth \in Depths, NEW group \in Groups,
             NEW r, r = MatchPart(k, next, beyond)[depth][group]
      PROVE  /\ r \in Results
             /\ r.ok <=> \E place : Laid(1, place) /\ Reaches(1, place, depth + 1)
             /\ r.ok => \E place : /\ Laid(1, place) /\ Reaches(1, place, depth + 1)
                                   /\ Told(1, place, group, r.group)
             /\ r.group = group
  <2>1. r = IF depth + 1 < Len(path) THEN [ok |-> FALSE, group |-> group] ELSE next[depth][group]
    BY <1>5 DEF MatchPart, Result
  <2>2. \A place, g : Told(1, place, group, g) <=> g = group
    BY <1>1 DEF Told
  <2>3. CASE depth + 1 < Len(path)
    BY <1>1, <1>3, <2>1, <2>3 DEF Results, Depths
  <2>4. CASE ~(depth + 1 < Len(path))
    <3>1. depth + 1 = Len(path)
      BY <1>1, <2>4 DEF Depths
    <3>2. /\ r \in Results /\ (r.ok <=> \E place : Laid(0, place))
          /\ r.ok => \E place : Laid(0, place)
          /\ r.group = group
      BY <1>1, <1>4, <2>1, <2>4 DEF Exact
    <3> QED BY <1>2, <1>3, <2>2, <3>1, <3>2
  <2> QED BY <2>3, <2>4
<1> QED BY <1>1, <1>5 DEF Exact

LEMMA ElementExact ==
  ASSUME Formed, NEW k \in 1..Len(chain) - 1, chain[k].kind = "element",
         NEW next, NEW beyond, Exact(k - 1, next)
  PROVE  Exact(k, MatchPart(k, next, beyond))
<1>1. /\ Len(path) \in Nat /\ Len(chain) \in Nat /\ k \in 1..Len(chain) /\ k # Len(chain)
      /\ k \in PlacedParts(k)
  BY DEF Formed, PlacedParts
<1>2. \A place, p : Reaches(k, place, p) <=> place[k] = p + 1
  BY <1>1 DEF Reaches
<1>3. \A place : Laid(k, place) => place[k] \in 1..Len(path)
  BY <1>1, Shortened
<1>4. ASSUME NEW depth \in Depths, NEW group \in Groups,
             NEW r, r = MatchPart(k, next, beyond)[depth][group]
      PROVE  /\ r \in Results
             /\ r.ok <=> \E place : Laid(k, place) /\ Reaches(k, place, depth + 1)
             /\ r.ok => \E place : /\ Laid(k, place) /\ Reaches(k, place, depth + 1)
                                   /\ Told(k, place, group, r.group)
             /\ (\A i \in PlacedParts(k) : ~chain[i].group) => r.group = group
  <2>1. r = IF depth + 1 >= Len(path) THEN [ok |-> FALSE, group |-> group]
            ELSE MatchFrom(chain[k], FALSE, depth + 1, group, next)
    BY <1>4 DEF MatchPart, Result
  <2>2. CASE depth + 1 >= Len(path)
    <3>1. ~ \E place : Laid(k, place) /\ Reaches(k, place, depth + 1)
      <4>1. \A place : Laid(k, place) => place[k] # (depth + 1) + 1
        BY <1>1, <1>3, <2>2 DEF Depths
      <4> QED BY <1>2, <4>1
    <3> QED BY <2>1, <2>2, <3>1 DEF Results
  <2>3. CASE ~(depth + 1 >= Len(path))
    <3>1. depth + 1 \in Depths
      BY <1>1, <2>3 DEF Depths
    <3>2. Answers(k, depth + 1, group, r)
      BY <1>1, <2>1, <2>3, <3>1, MatchFromAnswers
    <3> QED BY <1>2, <3>2 DEF Answers
  <2> QED BY <2>2, <2>3
<1> QED BY <1>4 DEF Exact

LEMMA WildcardExact ==
  ASSUME Formed, NEW k \in 1..Len(chain) - 1, chain[k].kind = "wildcard",
         NEW next, NEW beyond, chain[k - 1].kind = "element" => Exact(k - 2, beyond)
  PROVE  Exact(k, MatchPart(k, next, beyond))
<1> DEFINE j == k - 1
<1>1. /\ Len(path) \in Nat /\ Len(chain) \in Nat /\ k \in 1..Len(chain) /\ k # 1
      /\ k \notin PlacedParts(k) /\ PlacedParts(k) = PlacedParts(j)
      /\ j \in 1..Len(chain) /\ j # Len(chain) /\ j - 1 = k - 2
  <2>1. k \in 1..Len(chain) /\ Len(chain) \in Nat /\ Len(path) \in Nat
    BY DEF Formed
  <2>2. k # 1
    BY <2>1 DEF Formed
  <2>3. PlacedParts(k) = PlacedParts(k - 1)
    BY <2>1, PlacedGrows
  <2> QED BY <2>1, <2>2, <2>3 DEF PlacedParts
<1> HIDE DEF j
<1>2. ASSUME NEW depth \in Depths, NEW group \in Groups,
             NEW r, r = MatchPart(k, next, beyond)[depth][group]
      PROVE  /\ r \in Results
             /\ r.ok <=> \E place : Laid(k, place) /\ Reaches(k, place, depth + 1)
             /\ r.ok => \E place : /\ Laid(k, place) /\ Reaches(k, place, depth + 1)
                                   /\ Told(k, place, group, r.group)
             /\ (\A i \in PlacedParts(k) : ~chain[i].group) => r.group = group
  <2>1. r = IF k = 1 \/ chain[j].kind # "element" THEN [ok |-> FALSE, group |-> group]
            ELSE Candidates(chain[j], beyond)[Len(path) - depth - 1][group]
    BY <1>2 DEF MatchPart, Result, j
  <2>2. CASE chain[j].kind # "element"
    <3>1. \A place : ~Laid(k, place)
      <4>1. j \notin PlacedParts(k)
        BY <2>2 DEF PlacedParts
      <4> QED BY <1>1, <4>1 DEF Laid, j
    <3> QED BY <2>1, <2>2, <3>1 DEF Results
  <2>3. CASE chain[j].kind = "element"
    <3> DEFINE left == Len(path) - depth - 1
    <3>1. left \in 0..Len(path) /\ Len(path) - left = depth + 1
      BY <1>1 DEF Depths
    <3>2. Exact(j - 1, beyond)
      BY <1>1, <2>3 DEF j
    <3>3. r = Candidates(chain[j], beyond)[left][group]
      BY <1>1, <2>1, <2>3
    <3> HIDE DEF left
    <3>4. Found(j, left, group, r)
      BY <1>1, <2>3, <3>1, <3>2, <3>3, CandidatesAnswer
    <3>5. \A place : Laid(k, place) <=> Laid(j, place)
      <4>1. \A i \in 1..k : i = k \/ i \in 1..j
        BY <1>1 DEF j
      <4>2. 1..j \subseteq 1..k
        BY <1>1 DEF j
      <4>3. k - 1 \in PlacedParts(j)
        BY <1>1, <2>3 DEF PlacedParts, j
      <4> QED BY <1>1, <4>1, <4>2, <4>3 DEF Laid
    <3>6. \A place, p : Reaches(k, place, p) <=> place[j] > p
      BY <1>1 DEF Reaches, j
    <3>7. \A place, g : Told(k, place, group, g) <=> Told(j, place, group, g)
      BY <1>1 DEF Told
    <3> QED BY <1>1, <3>1, <3>4, <3>5, <3>6, <3>7 DEF Found
  <2> QED BY <2>2, <2>3
<1> QED BY <1>2 DEF Exact

LEMMA ParentsExact ==
  ASSUME Formed
  PROVE  \A k \in 0..Len(chain) - 1 :
           chain[k + 1].kind = "element" => Exact(k, MatchParents[k])
<1> DEFINE n == Len(chain)
           f == CHOOSE g : g = [k \in 0..n |-> Level(g, k)]
<1>1. MatchParents = f
  BY DEF MatchParents, Level, LevelZero
<1>2. n \in Nat /\ n > 0
  BY DEF Formed
<1>3. f = [k \in 0..n |-> Level(f, k)]
  <2>1. \E g : g = [k \in 0..n |-> Level(g, k)]
    BY <1>2, LevelsExist
  <2> QED BY <2>1
<1> HIDE DEF f
<1>4. \A k \in 0..n : f[k] = Level(f, k)
  BY <1>3
<1> DEFINE Bad == {k \in 0..n - 1 : chain[k + 1].kind = "element" /\ ~Exact(k, f[k])}
<1> SUFFICES ASSUME Bad # {} PROVE FALSE
  BY <1>1
<1>5. PICK m \in Bad : \A k \in Bad : m <= k
  <2>1. Bad \subseteq Nat
    BY <1>2
  <2> HIDE DEF Bad
  <2> QED BY <2>1, LeastNat
<1>6. m \in 0..n - 1 /\ m \in 0..n /\ chain[m + 1].kind = "element" /\ ~Exact(m, f[m])
  BY <1>2, <1>5
<1>7. \A k \in 0..m - 1 : chain[k + 1].kind = "element" => Exact(k, f[k])
  <2> SUFFICES ASSUME NEW k \in 0..m - 1, chain[k + 1].kind = "element" PROVE Exact(k, f[k])
    OBVIOUS
  <2>1. k \in 0..n - 1 /\ ~(m <= k)
    BY <1>2, <1>6
  <2>2. k \notin Bad
    <3> HIDE DEF Bad
    <3> QED BY <1>5, <2>1
  <2> QED BY <2>1, <2>2
<1>8. Exact(0, f[0])
  <2>1. f[0] = LevelZero
    BY <1>2, <1>4 DEF Level
  <2> QED BY <2>1, LevelZeroExact
<1>9. CASE m # 0
  <2>1. /\ m \in 1..n - 1 /\ m - 1 \in 0..m - 1 /\ (m - 1) + 1 = m /\ m \in 1..n
    BY <1>2, <1>6, <1>9
  <2>2. PICK next, beyond : /\ next = f[m - 1] /\ beyond = f[IF m = 1 THEN 0 ELSE m - 2]
                            /\ f[m] = MatchPart(m, next, beyond)
    BY <1>4, <1>6, <1>9 DEF Level
  <2>3. CASE chain[m].kind = "root"
    <3>1. m = 1
      BY <2>1, <2>3 DEF Formed
    <3>2. Exact(0, next)
      BY <1>8, <2>2, <3>1
    <3> QED BY <1>6, <2>1, <2>2, <2>3, <3>2, RootExact
  <2>4. CASE chain[m].kind = "element"
    <3>1. Exact(m - 1, next)
      BY <1>7, <2>1, <2>2, <2>4
    <3> QED BY <1>6, <2>1, <2>2, <2>4, <3>1, ElementExact
  <2>5. CASE chain[m].kind = "wildcard"
    <3>1. m # 1
      BY <2>1, <2>5 DEF Formed
    <3>2. m - 2 \in 0..m - 1 /\ (m - 2) + 1 = m - 1
      BY <2>1, <3>1
    <3>3. chain[m - 1].kind = "element" => Exact(m - 2, beyond)
      BY <1>7, <2>2, <3>1, <3>2
    <3> QED BY <1>6, <2>1, <2>2, <2>5, <3>3, WildcardExact
  <2> QED BY <2>1, <2>3, <2>4, <2>5 DEF Formed
<1> QED BY <1>6, <1>8, <1>9

-----------------------------------------------------------------------------
LEMMA FormedMatchesExactly ==
  ASSUME Formed
  PROVE  MatchesExactly
<1> DEFINE n == Len(chain)
<1>1. /\ n \in Nat /\ n > 0 /\ n \in 1..n /\ n - 1 \in 0..n - 1 /\ (n - 1) + 1 = n
      /\ chain[n].kind = "element" /\ Len(path) \in Nat /\ 0 \in Depths /\ NoGroup \in Groups
  BY DEF Formed, Depths, Groups
<1>2. PICK r : r = MatchFrom(chain[n], TRUE, 0, NoGroup, MatchParents[n - 1])
  OBVIOUS
<1>3. MatchesChain = IF r.ok THEN r ELSE Result(FALSE, NoGroup)
  <2>1. n # 0
    BY <1>1
  <2> QED BY <1>1, <1>2, <2>1, Zenon DEF MatchesChain
<1>4. Answers(n, 0, NoGroup, r)
  <2>1. Exact(n - 1, MatchParents[n - 1])
    BY <1>1, ParentsExact
  <2> QED BY <1>1, <1>2, <2>1, MatchFromAnswers
<1>5. ElementPlaces = PlacedParts(n) /\ PlacedParts(n) \subseteq 1..n
  BY DEF ElementPlaces, PlacedParts
<1>6. \A place : place \in Embeddings <=> Laid(n, place) /\ place[n] = 1
  <2>1. n \in PlacedParts(n)
    BY <1>1 DEF PlacedParts
  <2> QED BY <1>5, <2>1 DEF Embeddings, Laid, Fits
<1>7. ASSUME NEW place, Told(n, place, NoGroup, r.group) PROVE r.group = GroupOf(place)
  <2>1. CASE \E i \in PlacedParts(n) : chain[i].group
    <3>1. PICK i : i = CHOOSE h \in PlacedParts(n) : chain[h].group
      OBVIOUS
    <3>2. i \in PlacedParts(n) /\ chain[i].group
      BY <2>1, <3>1
    <3>3. GroupOf(place) = place[i] - 1
      BY <1>5, <2>1, <3>1 DEF GroupOf
    <3> QED BY <1>7, <3>2, <3>3 DEF Told
  <2>2. CASE ~ \E i \in PlacedParts(n) : chain[i].group
    <3>1. GroupOf(place) = NoGroup
      BY <1>5, <2>2 DEF GroupOf
    <3> QED BY <1>7, <2>2, <3>1 DEF Told
  <2> QED BY <2>1, <2>2
<1>8. r.ok <=> Embeddings # {}
  <2>1. r.ok <=> \E place : Laid(n, place) /\ place[n] = 0 + 1
    BY <1>4 DEF Answers
  <2> QED BY <1>6, <2>1
<1>9. r.ok => \E place \in Embeddings : r.group = GroupOf(place)
  <2> SUFFICES ASSUME r.ok PROVE \E place \in Embeddings : r.group = GroupOf(place)
    OBVIOUS
  <2>1. PICK place : Laid(n, place) /\ place[n] = 0 + 1 /\ Told(n, place, NoGroup, r.group)
    BY <1>4 DEF Answers
  <2> QED BY <1>6, <1>7, <2>1
<1>10. /\ MatchesChain.ok <=> r.ok
       /\ r.ok => MatchesChain = r
  BY <1>3 DEF Result
<1> QED BY <1>8, <1>9, <1>10 DEF MatchesExactly

LEMMA SelectorsAlways == SelectorSpec => []SelectorTypeOK
<1>1. SelectorInit => SelectorTypeOK
  BY DEF SelectorInit, SelectorTypeOK
<1>2. SelectorTypeOK /\ [SelectorNext]_selectorVars => SelectorTypeOK'
  <2> SUFFICES ASSUME SelectorTypeOK, [SelectorNext]_selectorVars PROVE SelectorTypeOK'
    OBVIOUS
  <2>1. CASE \E part \in Parts : AddPart(part)
    BY <2>1 DEF SelectorTypeOK, AddPart
  <2>2. CASE \E element \in Element : AddElement(element)
    BY <2>2 DEF SelectorTypeOK, AddElement
  <2>3. CASE UNCHANGED selectorVars
    BY <2>3 DEF SelectorTypeOK, selectorVars
  <2> QED BY <2>1, <2>2, <2>3 DEF SelectorNext
<1> QED BY <1>1, <1>2, PTL DEF SelectorSpec

(* A chain matches exactly when it can be laid along the path, whatever a   *)
(* wildcard has to try, and the group reported is that of such a placement: *)
(* for chains and paths of any length (matcher.cpp, MatchesChain).          *)
THEOREM AlwaysMatchesExactly == SelectorSpec => []MatchesExactly
<1>1. SelectorTypeOK => MatchesExactly
  BY WellFormedChain, FormedMatchesExactly DEF MatchesExactly
<1> QED BY <1>1, SelectorsAlways, PTL

-----------------------------------------------------------------------------
(* The evaluation of an expression.  A text stands somewhere in the tokens. *)
Words == {"(", ")", ",", "?", ":"} \cup Signs \cup UNION {Levels[level] : level \in 1..4}
Tokens == {Op(word) : word \in Words}
            \cup {Token("name", word) : word \in Variables \cup {"min", "max"}}
            \cup {Token("number", word) : word \in DOMAIN Literals}
            \cup {Token("text", word) : word \in Texts}

Stands(text, expr, pos) ==
  /\ expr.tokens \in Seq(Tokens) /\ text \in Seq(Tokens) /\ pos \in Nat /\ pos > 0
  /\ pos + Len(text) <= Len(expr.tokens) + 1
  /\ \A i \in 1..Len(text) : expr.tokens[pos + i - 1] = text[i]

(* What may follow it, when it is all that a call of this level should take. *)
Ends(level) ==
  {Token("end", ""), Op(")"), Op(","), Op(":")}
    \cup (IF level = 0 THEN {} ELSE {Op("?")})
    \cup {Op(word) : word \in UNION {Levels[l] : l \in 1..level - 1}}

(* An outcome that is what the text means, or that of a branch not taken.   *)
Agrees(s, meaning, pos, used) ==
  /\ s.deps = IF used THEN meaning.deps ELSE {}
  /\ s.ok <=> (used => meaning.ok)
  /\ s.ok => s.pos = pos
  /\ s.ok /\ used => s.value = meaning.value

(* The stack of calls is deep enough for the text.                          *)
Room(level, text, expr, depth) ==
  depth \in 0..StackDepth(expr) /\ 6 * Len(text) + 5 - level <= depth

Parsed(level, text, meaning, lookup) ==
  \A expr, pos, depth, used :
    /\ expr.lookup = lookup /\ Stands(text, expr, pos) /\ Room(level, text, expr, depth)
    /\ used \in BOOLEAN /\ Peek(expr, pos + Len(text)) \in Ends(level)
    => Agrees(Parse(expr)[depth][level][pos][used], meaning, pos + Len(text), used)

(* After some turns of its loop, a call has taken the text as the operand   *)
(* on the left of what follows.                                             *)
Taken(level, text, meaning, lookup) ==
  \A expr, pos, depth, used :
    /\ expr.lookup = lookup /\ Stands(text, expr, pos) /\ Room(level, text, expr, depth)
    /\ used \in BOOLEAN /\ Peek(expr, pos + Len(text)) \in Ends(level + 1)
    => \E turn \in 0..Len(text) :
         Agrees(ParseTurns(level, expr, Parse(expr)[depth - 1], pos, used)[turn],
                meaning, pos + Len(text), used)

-----------------------------------------------------------------------------
(* The recursive functions.                                                 *)

Turn(level, expr, call, pos, used, f, turn) ==
  IF turn = 0 THEN call[level + 1][pos][used]
  ELSE ParseRest(level, expr, call, f[turn - 1], used)

TurnsTaken(level, expr, call, pos, used, n) ==
  \E g : g = [i \in 0..n |-> Turn(level, expr, call, pos, used, g, i)]

LEMMA TurnsExist ==
  ASSUME NEW level, NEW expr, NEW call, NEW pos, NEW used, NEW n \in Nat
  PROVE  TurnsTaken(level, expr, call, pos, used, n)
<1> SUFFICES \E g : g = [i \in 0..n |-> Turn(level, expr, call, pos, used, g, i)]
  BY DEF TurnsTaken
<1> DEFINE Bad == {m \in Nat : ~ \E g : g = [i \in 0..m |-> Turn(level, expr, call, pos, used, g, i)]}
<1> SUFFICES ASSUME Bad # {} PROVE FALSE
  OBVIOUS
<1>1. PICK m \in Bad : \A k \in Bad : m <= k
  <2>1. Bad \subseteq Nat
    OBVIOUS
  <2> HIDE DEF Bad
  <2> QED BY <2>1, LeastNat
<1>2. ASSUME NEW f, NEW h, NEW i, i # 0 => f[i - 1] = h[i - 1]
      PROVE  Turn(level, expr, call, pos, used, f, i) = Turn(level, expr, call, pos, used, h, i)
  BY <1>2 DEF Turn
<1>3. CASE m = 0
  <2> DEFINE g == [i \in 0..0 |-> Turn(level, expr, call, pos, used, <<>>, 0)]
  <2>1. g = [i \in 0..0 |-> Turn(level, expr, call, pos, used, g, i)]
    <3>1. Turn(level, expr, call, pos, used, g, 0) = Turn(level, expr, call, pos, used, <<>>, 0)
      BY DEF Turn
    <3>2. \A i \in 0..0 : i = 0
      OBVIOUS
    <3> HIDE DEF g
    <3>3. g = [i \in 0..0 |-> Turn(level, expr, call, pos, used, <<>>, 0)]
      BY DEF g
    <3> QED BY <3>1, <3>2, <3>3
  <2> QED BY <1>1, <1>3, <2>1
<1>4. CASE m # 0
  <2>1. m \in Nat /\ m - 1 \in Nat /\ m - 1 \notin Bad
    <3>1. m \in Nat /\ m - 1 \in Nat /\ ~(m <= m - 1)
      BY <1>1, <1>4
    <3> HIDE DEF Bad
    <3> QED BY <1>1, <3>1
  <2>2. PICK g : g = [i \in 0..(m - 1) |-> Turn(level, expr, call, pos, used, g, i)]
    BY <2>1
  <2> DEFINE h == [i \in 0..m |-> IF i = m THEN Turn(level, expr, call, pos, used, g, m) ELSE g[i]]
  <2>3. ASSUME NEW i \in 0..m PROVE h[i] = Turn(level, expr, call, pos, used, h, i)
    <3>1. i # 0 => i - 1 \in 0..m /\ i - 1 # m
      BY <2>1
    <3>2. i # 0 => h[i - 1] = g[i - 1]
      BY <3>1
    <3>3. Turn(level, expr, call, pos, used, h, i) = Turn(level, expr, call, pos, used, g, i)
      <4> HIDE DEF h
      <4> QED BY <1>2, <3>2
    <3>4. CASE i = m
      BY <3>3, <3>4
    <3>5. CASE i # m
      <4>1. i \in 0..(m - 1) /\ h[i] = g[i]
        BY <3>5, <2>1
      <4> QED BY <2>2, <3>3, <4>1
    <3> QED BY <3>4, <3>5
  <2>4. h = [i \in 0..m |-> Turn(level, expr, call, pos, used, h, i)]
    <3>1. h = [i \in 0..m |-> h[i]]
      OBVIOUS
    <3> HIDE DEF h
    <3> QED BY <3>1, <2>3
  <2> QED BY <1>1, <2>4
<1> QED BY <1>3, <1>4

LEMMA Turns ==
  ASSUME NEW level, NEW expr, NEW call, NEW pos, NEW used, Len(expr.tokens) \in Nat
  PROVE  LET f == ParseTurns(level, expr, call, pos, used) IN
         /\ f[0] = call[level + 1][pos][used]
         /\ \A turn \in 1..Len(expr.tokens) :
              f[turn] = ParseRest(level, expr, call, f[turn - 1], used)
<1> DEFINE n == Len(expr.tokens)
           f == CHOOSE g : g = [i \in 0..n |-> Turn(level, expr, call, pos, used, g, i)]
<1>1. ParseTurns(level, expr, call, pos, used) = f
  BY DEF ParseTurns, Turn
<1>2. f = [i \in 0..n |-> Turn(level, expr, call, pos, used, f, i)]
  <2>1. n \in Nat
    OBVIOUS
  <2>2. \E g : g = [i \in 0..n |-> Turn(level, expr, call, pos, used, g, i)]
    <3> HIDE DEF n, f
    <3>1. TurnsTaken(level, expr, call, pos, used, n)
      BY <2>1, TurnsExist
    <3> QED BY <3>1 DEF TurnsTaken
  <2> QED BY <2>2
<1> HIDE DEF f
<1>3. \A i \in 0..n : f[i] = Turn(level, expr, call, pos, used, f, i)
  BY <1>2
<1>4. f[0] = call[level + 1][pos][used]
  BY <1>3 DEF Turn
<1>5. \A turn \in 1..n : f[turn] = ParseRest(level, expr, call, f[turn - 1], used)
  <2> SUFFICES ASSUME NEW turn \in 1..n
               PROVE  f[turn] = ParseRest(level, expr, call, f[turn - 1], used)
    OBVIOUS
  <2>1. turn \in 0..n /\ turn # 0
    OBVIOUS
  <2> QED BY <1>3, <2>1 DEF Turn
<1> QED BY <1>1, <1>4, <1>5

Deep(expr, f, depth) == IF depth = 0 THEN <<>> ELSE Calls(expr, f[depth - 1])

LEMMA CallsExist ==
  ASSUME NEW expr, NEW n \in Nat
  PROVE  \E g : g = [i \in 0..n |-> Deep(expr, g, i)]
<1> DEFINE Bad == {m \in Nat : ~ \E g : g = [i \in 0..m |-> Deep(expr, g, i)]}
<1> SUFFICES ASSUME Bad # {} PROVE FALSE
  OBVIOUS
<1>1. PICK m \in Bad : \A k \in Bad : m <= k
  <2>1. Bad \subseteq Nat
    OBVIOUS
  <2> HIDE DEF Bad
  <2> QED BY <2>1, LeastNat
<1>2. ASSUME NEW f, NEW h, NEW i, i # 0 => f[i - 1] = h[i - 1]
      PROVE  Deep(expr, f, i) = Deep(expr, h, i)
  BY <1>2 DEF Deep
<1>3. CASE m = 0
  <2> DEFINE g == [i \in 0..0 |-> Deep(expr, <<>>, 0)]
  <2>1. g = [i \in 0..0 |-> Deep(expr, g, i)]
    <3>1. Deep(expr, g, 0) = Deep(expr, <<>>, 0)
      BY DEF Deep
    <3>2. \A i \in 0..0 : i = 0
      OBVIOUS
    <3> HIDE DEF g
    <3>3. g = [i \in 0..0 |-> Deep(expr, <<>>, 0)]
      BY DEF g
    <3> QED BY <3>1, <3>2, <3>3
  <2> QED BY <1>1, <1>3, <2>1
<1>4. CASE m # 0
  <2>1. m \in Nat /\ m - 1 \in Nat /\ m - 1 \notin Bad
    <3>1. m \in Nat /\ m - 1 \in Nat /\ ~(m <= m - 1)
      BY <1>1, <1>4
    <3> HIDE DEF Bad
    <3> QED BY <1>1, <3>1
  <2>2. PICK g : g = [i \in 0..(m - 1) |-> Deep(expr, g, i)]
    BY <2>1
  <2> DEFINE h == [i \in 0..m |-> IF i = m THEN Deep(expr, g, m) ELSE g[i]]
  <2>3. ASSUME NEW i \in 0..m PROVE h[i] = Deep(expr, h, i)
    <3>1. i # 0 => i - 1 \in 0..m /\ i - 1 # m
      BY <2>1
    <3>2. i # 0 => h[i - 1] = g[i - 1]
      BY <3>1
    <3>3. Deep(expr, h, i) = Deep(expr, g, i)
      <4> HIDE DEF h
      <4> QED BY <1>2, <3>2
    <3>4. CASE i = m
      BY <3>3, <3>4
    <3>5. CASE i # m
      <4>1. i \in 0..(m - 1) /\ h[i] = g[i]
        BY <3>5, <2>1
      <4> QED BY <2>2, <3>3, <4>1
    <3> QED BY <3>4, <3>5
  <2>4. h = [i \in 0..m |-> Deep(expr, h, i)]
    <3>1. h = [i \in 0..m |-> h[i]]
      OBVIOUS
    <3> HIDE DEF h
    <3> QED BY <3>1, <2>3
  <2> QED BY <1>1, <2>4
<1> QED BY <1>3, <1>4

(* What a call at a level of the grammar does.                              *)
Dispatched(level, expr, call, pos, used) ==
  CASE level = Ternary -> ParseTernary(expr, call, pos, used)
    [] level = Unary -> ParseUnary(expr, call, pos, used)
    [] OTHER -> ParseLevel(level, expr, call, pos, used)

LEMMA CallsMade ==
  ASSUME NEW expr, Len(expr.tokens) \in Nat, NEW depth \in 1..StackDepth(expr),
         NEW level \in 0..5, NEW pos \in 1..Len(expr.tokens) + 1, NEW used \in BOOLEAN
  PROVE  Parse(expr)[depth][level][pos][used] = Dispatched(level, expr, Parse(expr)[depth - 1], pos, used)
<1> DEFINE n == StackDepth(expr)
           f == CHOOSE g : g = [i \in 0..n |-> Deep(expr, g, i)]
<1>0. n \in Nat
  BY DEF StackDepth
<1>1. Parse(expr) = f
  BY DEF Parse, Deep
<1>2. f = [i \in 0..n |-> Deep(expr, f, i)]
  <2>1. \E g : g = [i \in 0..n |-> Deep(expr, g, i)]
    BY <1>0, CallsExist
  <2> QED BY <2>1
<1> HIDE DEF f
<1>3. f[depth] = Calls(expr, f[depth - 1])
  <2>1. depth \in 0..n /\ depth # 0
    BY <1>0
  <2> QED BY <1>2, <2>1 DEF Deep
<1>4. PICK call : call = f[depth - 1]
  OBVIOUS
<1>5. Calls(expr, call)[level][pos][used] = Dispatched(level, expr, call, pos, used)
  BY DEF Calls, Dispatched, Unary
<1> QED BY <1>1, <1>3, <1>4, <1>5

-----------------------------------------------------------------------------
(* Texts and their parts.                                                   *)

LEMMA PartsStand ==
  ASSUME NEW a \in Seq(Tokens), NEW b \in Seq(Tokens), NEW expr, NEW pos, Stands(a \o b, expr, pos)
  PROVE  /\ Stands(a, expr, pos) /\ Stands(b, expr, pos + Len(a))
         /\ Len(a \o b) = Len(a) + Len(b)
<1>1. /\ Len(a \o b) = Len(a) + Len(b) /\ Len(a) \in Nat /\ Len(b) \in Nat
      /\ Len(expr.tokens) \in Nat /\ pos \in Nat /\ pos > 0
      /\ pos + Len(a \o b) <= Len(expr.tokens) + 1
  BY DEF Stands
<1>2. \A i \in 1..Len(a) : (a \o b)[i] = a[i]
  OBVIOUS
<1>3. \A i \in 1..Len(b) : (a \o b)[Len(a) + i] = b[i]
  <2> SUFFICES ASSUME NEW i \in 1..Len(b) PROVE (a \o b)[Len(a) + i] = b[i]
    OBVIOUS
  <2>1. Len(a) + i \in 1..Len(a) + Len(b) /\ Len(a) + i > Len(a) /\ (Len(a) + i) - Len(a) = i
    BY <1>1
  <2> QED BY <1>1, <2>1, ConcatProperties
<1>4. \A i \in 1..Len(a) : expr.tokens[pos + i - 1] = a[i]
  <2> SUFFICES ASSUME NEW i \in 1..Len(a) PROVE expr.tokens[pos + i - 1] = a[i]
    OBVIOUS
  <2>1. i \in 1..Len(a \o b)
    BY <1>1
  <2> QED BY <1>2, <2>1 DEF Stands
<1>5. \A i \in 1..Len(b) : expr.tokens[(pos + Len(a)) + i - 1] = b[i]
  <2> SUFFICES ASSUME NEW i \in 1..Len(b) PROVE expr.tokens[(pos + Len(a)) + i - 1] = b[i]
    OBVIOUS
  <2>1. Len(a) + i \in 1..Len(a \o b) /\ pos + (Len(a) + i) - 1 = (pos + Len(a)) + i - 1
    BY <1>1
  <2> QED BY <1>3, <2>1 DEF Stands
<1> QED BY <1>1, <1>4, <1>5 DEF Stands

LEMMA Single ==
  ASSUME NEW t \in Tokens, NEW expr, NEW pos, Stands(<<t>>, expr, pos)
  PROVE  /\ Peek(expr, pos) = t /\ pos \in 1..Len(expr.tokens) /\ Len(<<t>>) = 1
<1>1. Len(<<t>>) = 1 /\ <<t>>[1] = t /\ 1 \in 1..Len(<<t>>)
  OBVIOUS
<1>2. expr.tokens[pos] = t /\ pos \in Nat /\ pos > 0
  <2>1. \A i \in 1..Len(<<t>>) : expr.tokens[pos + i - 1] = <<t>>[i]
    BY DEF Stands
  <2>2. pos \in Nat /\ pos > 0 /\ pos + 1 - 1 = pos
    BY DEF Stands
  <2>3. expr.tokens[pos + 1 - 1] = <<t>>[1]
    BY <1>1, <2>1, Zenon
  <2> QED BY <1>1, <2>2, <2>3
<1>3. pos <= Len(expr.tokens) /\ Len(expr.tokens) \in Nat
  BY <1>1, <1>2 DEF Stands
<1> QED BY <1>1, <1>2, <1>3 DEF Peek

LEMMA Grammar ==
  /\ Levels[1] = {"==", "!="} /\ Levels[2] = {"<", "<=", ">", ">="}
  /\ Levels[3] = {"+", "-"} /\ Levels[4] = {"*", "/"}
BY DEF Levels

LEMMA Ops ==
  /\ \A word : Op(word).kind = "op" /\ Op(word).word = word
  /\ \A word \in Words : Op(word) \in Tokens
  /\ \A level \in 1..4 : Levels[level] \subseteq Words
BY DEF Op, Token, Tokens, Words

LEMMA Split ==
  ASSUME NEW a \in Seq(Tokens), NEW t \in Tokens, NEW b \in Seq(Tokens), NEW expr, NEW pos,
         Stands(a \o <<t>> \o b, expr, pos)
  PROVE  /\ Stands(a, expr, pos) /\ Peek(expr, pos + Len(a)) = t
         /\ pos + Len(a) \in 1..Len(expr.tokens)
         /\ Stands(b, expr, pos + Len(a) + 1)
         /\ Len(a \o <<t>> \o b) = Len(a) + 1 + Len(b)
         /\ (pos + Len(a) + 1) + Len(b) = pos + Len(a \o <<t>> \o b)
<1>0. <<t>> \in Seq(Tokens) /\ a \o <<t>> \in Seq(Tokens) /\ Len(a) \in Nat /\ Len(b) \in Nat /\ pos \in Nat
  BY DEF Stands
<1>1. /\ Stands(a \o <<t>>, expr, pos) /\ Stands(b, expr, pos + Len(a \o <<t>>))
      /\ Len(a \o <<t>> \o b) = Len(a \o <<t>>) + Len(b)
  BY <1>0, PartsStand
<1>2. /\ Stands(a, expr, pos) /\ Stands(<<t>>, expr, pos + Len(a))
      /\ Len(a \o <<t>>) = Len(a) + Len(<<t>>)
  BY <1>0, <1>1, PartsStand
<1>3. /\ Peek(expr, pos + Len(a)) = t /\ pos + Len(a) \in 1..Len(expr.tokens) /\ Len(<<t>>) = 1
  BY <1>2, Single
<1>4. Len(a \o <<t>>) = Len(a) + 1 /\ pos + Len(a \o <<t>>) = pos + Len(a) + 1
  BY <1>0, <1>2, <1>3
<1>5. Stands(b, expr, pos + Len(a) + 1)
  BY <1>1, <1>4
<1>6. Len(a \o <<t>> \o b) = Len(a) + 1 + Len(b)
  BY <1>1, <1>4
<1>7. (pos + Len(a) + 1) + Len(b) = pos + (Len(a) + 1 + Len(b))
  BY <1>0
<1> QED BY <1>2, <1>3, <1>5, <1>6, <1>7

-----------------------------------------------------------------------------
(* From level to level.                                                     *)

LEMMA RoomLeft ==
  ASSUME NEW level \in 0..5, NEW expr, NEW pos, NEW depth, NEW text, text # <<>>,
         Stands(text, expr, pos), Room(level, text, expr, depth)
  PROVE  /\ Len(text) \in Nat /\ Len(text) > 0 /\ Len(expr.tokens) \in Nat /\ Len(text) <= Len(expr.tokens)
         /\ depth \in Nat /\ depth \in 1..StackDepth(expr) /\ depth - 1 \in 0..StackDepth(expr) /\ StackDepth(expr) \in Nat
         /\ pos \in 1..Len(expr.tokens) + 1 /\ 6 * Len(text) + 5 - level <= depth
         /\ StackDepth(expr) = 6 * (Len(expr.tokens) + 1)
<1>1. text \in Seq(Tokens) /\ expr.tokens \in Seq(Tokens) /\ pos \in Nat /\ pos > 0
  BY DEF Stands
<1>2. Len(text) \in Nat /\ Len(text) > 0 /\ Len(expr.tokens) \in Nat
  BY <1>1, EmptySeq
<1>3. pos + Len(text) <= Len(expr.tokens) + 1
  BY DEF Stands
<1> QED BY <1>1, <1>2, <1>3 DEF Room, StackDepth

LEMMA EndsGrow ==
  ASSUME NEW level \in 0..5
  PROVE  Ends(level) \subseteq Ends(level + 1)
<1>1. 1..level - 1 \subseteq 1..(level + 1) - 1 /\ level + 1 # 0
  OBVIOUS
<1> QED BY <1>1 DEF Ends

(* What ends a text is no name, and no operator of this level or above.     *)
LEMMA EndsLast ==
  ASSUME NEW level \in 0..5, NEW t \in Ends(level)
  PROVE  /\ t # Op("(")
         /\ level = 0 => t # Op("?")
         /\ level \in 1..4 => ~(t.kind = "op" /\ t.word \in Levels[level])
<1>0. level \in 1..4 => level = 1 \/ level = 2 \/ level = 3 \/ level = 4
  OBVIOUS
<1>1. CASE t = Token("end", "")
  BY <1>1 DEF Op, Token
<1>2. ASSUME NEW word \in {")", ",", ":"}, t = Op(word)
      PROVE  t # Op("(") /\ t # Op("?") /\ (level \in 1..4 => t.word \notin Levels[level])
  <2>1. t.word = word /\ word # "(" /\ word # "?"
    BY <1>2, Ops
  <2>2. t # Op("(") /\ t # Op("?")
    BY <2>1, Ops
  <2>3. level \in 1..4 => word \notin Levels[level]
    BY <1>0, Grammar
  <2> QED BY <2>1, <2>2, <2>3
<1>3. CASE level # 0 /\ t = Op("?")
  <2>1. t.word = "?" /\ t # Op("(")
    BY <1>3, Ops
  <2> QED BY <1>0, <1>3, <2>1, Grammar
<1>4. ASSUME NEW l \in 1..level - 1, NEW word \in Levels[l], t = Op(word)
      PROVE  /\ t # Op("(") /\ level # 0
             /\ level \in 1..4 => t.word \notin Levels[level]
  <2>1. l \in 1..4 /\ l < level
    OBVIOUS
  <2>2. l = 1 \/ l = 2 \/ l = 3 \/ l = 4
    BY <2>1
  <2>3. word # "(" /\ t.word = word
    BY <1>4, <2>2, Grammar, Ops
  <2>4. t # Op("(")
    BY <1>4, <2>3, Ops
  <2>5. level \in 1..4 => word \notin Levels[level]
    BY <1>0, <2>1, <2>2, <1>4, Grammar
  <2> QED BY <2>1, <2>3, <2>4, <2>5
<1>5. \/ t = Token("end", "") \/ \E word \in {")", ",", ":"} : t = Op(word)
      \/ level # 0 /\ t = Op("?")
      \/ \E l \in 1..level - 1 : \E word \in Levels[l] : t = Op(word)
  BY DEF Ends
<1> QED BY <1>1, <1>2, <1>3, <1>4, <1>5

LEMMA TurnsStart ==
  ASSUME NEW level \in 1..4, NEW text, text # <<>>, NEW meaning, NEW lookup,
         Parsed(level + 1, text, meaning, lookup)
  PROVE  Taken(level, text, meaning, lookup)
<1> SUFFICES ASSUME NEW expr, NEW pos, NEW depth, NEW used \in BOOLEAN, expr.lookup = lookup,
                    Stands(text, expr, pos), Room(level, text, expr, depth),
                    Peek(expr, pos + Len(text)) \in Ends(level + 1)
             PROVE  \E turn \in 0..Len(text) :
                      Agrees(ParseTurns(level, expr, Parse(expr)[depth - 1], pos, used)[turn],
                             meaning, pos + Len(text), used)
  BY DEF Taken
<1>1. /\ Len(text) \in Nat /\ Len(text) > 0 /\ Len(expr.tokens) \in Nat /\ depth \in Nat
      /\ depth - 1 \in 0..StackDepth(expr) /\ 6 * Len(text) + 5 - level <= depth
  BY RoomLeft
<1>2. Room(level + 1, text, expr, depth - 1)
  BY <1>1 DEF Room
<1>3. Agrees(Parse(expr)[depth - 1][level + 1][pos][used], meaning, pos + Len(text), used)
  BY <1>2 DEF Parsed
<1>4. ParseTurns(level, expr, Parse(expr)[depth - 1], pos, used)[0]
        = Parse(expr)[depth - 1][level + 1][pos][used]
  BY <1>1, Turns
<1>5. 0 \in 0..Len(text)
  BY <1>1
<1> QED BY <1>3, <1>4, <1>5

LEMMA TurnsEnd ==
  ASSUME NEW level \in 1..4, NEW text, text # <<>>, NEW meaning, NEW lookup,
         Taken(level, text, meaning, lookup)
  PROVE  Parsed(level, text, meaning, lookup)
<1> SUFFICES ASSUME NEW expr, NEW pos, NEW depth, NEW used \in BOOLEAN, expr.lookup = lookup,
                    Stands(text, expr, pos), Room(level, text, expr, depth),
                    Peek(expr, pos + Len(text)) \in Ends(level)
             PROVE  Agrees(Parse(expr)[depth][level][pos][used], meaning, pos + Len(text), used)
  BY DEF Parsed
<1>1. /\ Len(text) \in Nat /\ Len(text) > 0 /\ Len(expr.tokens) \in Nat /\ depth \in Nat
      /\ Len(text) <= Len(expr.tokens) /\ level \in 0..5
      /\ depth \in 1..StackDepth(expr) /\ pos \in 1..Len(expr.tokens) + 1
  BY RoomLeft
<1>2. PICK call, f : call = Parse(expr)[depth - 1] /\ f = ParseTurns(level, expr, call, pos, used)
  OBVIOUS
<1>3. Parse(expr)[depth][level][pos][used] = f[Len(expr.tokens)]
  <2>1. Parse(expr)[depth][level][pos][used] = Dispatched(level, expr, call, pos, used)
    BY <1>1, <1>2, CallsMade
  <2>2. level # Ternary /\ level # Unary
    BY DEF Ternary, Unary
  <2> QED BY <1>2, <2>1, <2>2 DEF Dispatched, ParseLevel
<1>4. PICK turn \in 0..Len(text) : Agrees(f[turn], meaning, pos + Len(text), used)
  <2>1. Peek(expr, pos + Len(text)) \in Ends(level + 1)
    BY <1>1, EndsGrow
  <2> QED BY <1>2, <2>1 DEF Taken
<1>5. \A i \in 1..Len(expr.tokens) : f[i] = ParseRest(level, expr, call, f[i - 1], used)
  BY <1>1, <1>2, Turns
<1>6. ASSUME NEW left, left = f[turn] PROVE ParseRest(level, expr, call, left, used) = left
  <2>1. CASE ~left.ok
    BY <2>1 DEF ParseRest
  <2>2. CASE left.ok
    <3>1. left.pos = pos + Len(text)
      BY <1>4, <1>6, <2>2 DEF Agrees
    <3>2. ~(Peek(expr, left.pos).kind = "op" /\ Peek(expr, left.pos).word \in Levels[level])
      BY <1>1, <3>1, EndsLast
    <3> QED BY <3>2 DEF ParseRest
  <2> QED BY <2>1, <2>2
<1>7. f[Len(expr.tokens)] = f[turn]
  <2> DEFINE Bad == {i \in Nat : turn <= i /\ i <= Len(expr.tokens) /\ f[i] # f[turn]}
  <2> SUFFICES ASSUME Bad # {} PROVE FALSE
    BY <1>1
  <2>1. PICK i \in Bad : \A j \in Bad : i <= j
    <3>1. Bad \subseteq Nat
      OBVIOUS
    <3> HIDE DEF Bad
    <3> QED BY <3>1, LeastNat
  <2>2. i # turn /\ i \in 1..Len(expr.tokens) /\ i - 1 \in Nat /\ turn <= i - 1 /\ ~(i <= i - 1)
    BY <2>1, <1>1
  <2>3. f[i - 1] = f[turn]
    BY <2>1, <2>2, <1>1
  <2>4. f[i] = f[turn]
    BY <1>5, <1>6, <2>2, <2>3
  <2> QED BY <2>1, <2>4
<1> QED BY <1>3, <1>4, <1>7

LEMMA NotConditional ==
  ASSUME NEW text, text # <<>>, NEW meaning, NEW lookup, Parsed(1, text, meaning, lookup)
  PROVE  Parsed(0, text, meaning, lookup)
<1> SUFFICES ASSUME NEW expr, NEW pos, NEW depth, NEW used \in BOOLEAN, expr.lookup = lookup,
                    Stands(text, expr, pos), Room(0, text, expr, depth),
                    Peek(expr, pos + Len(text)) \in Ends(0)
             PROVE  Agrees(Parse(expr)[depth][0][pos][used], meaning, pos + Len(text), used)
  BY DEF Parsed
<1>1. /\ Len(text) \in Nat /\ Len(text) > 0 /\ Len(expr.tokens) \in Nat /\ depth \in Nat
      /\ depth \in 1..StackDepth(expr) /\ depth - 1 \in 0..StackDepth(expr) /\ pos \in 1..Len(expr.tokens) + 1
      /\ 6 * Len(text) + 5 - 0 <= depth
  BY RoomLeft
<1>2. PICK cond : cond = Parse(expr)[depth - 1][1][pos][used]
  OBVIOUS
<1>3. Agrees(cond, meaning, pos + Len(text), used)
  <2>1. Room(1, text, expr, depth - 1)
    BY <1>1 DEF Room
  <2>2. Peek(expr, pos + Len(text)) \in Ends(1)
    BY EndsGrow
  <2> QED BY <1>2, <2>1, <2>2 DEF Parsed
<1>4. Parse(expr)[depth][0][pos][used] = ParseTernary(expr, Parse(expr)[depth - 1], pos, used)
  <2>1. Parse(expr)[depth][0][pos][used] = Dispatched(0, expr, Parse(expr)[depth - 1], pos, used)
    BY <1>1, CallsMade
  <2> QED BY <2>1 DEF Dispatched, Ternary, Unary
<1>5. ~cond.ok \/ Peek(expr, cond.pos) # Op("?")
  BY <1>3, EndsLast DEF Agrees
<1>6. ParseTernary(expr, Parse(expr)[depth - 1], pos, used) = cond
  BY <1>2, <1>5 DEF ParseTernary
<1> QED BY <1>3, <1>4, <1>6

-----------------------------------------------------------------------------
(* Binary operators.  What an operator at a level of the grammar means.     *)
Fit(level, given) == level = 1 \/ given.isNumber

Joins(level, op, a, b, meaning) ==
  /\ meaning.ok <=> a.ok /\ Fit(level, a.value) /\ b.ok /\ ~BadOperand(op, b.value)
  /\ meaning.ok => meaning.value = Apply(op, a.value, b.value)
  /\ meaning.deps = a.deps \cup IF a.ok /\ Fit(level, a.value) THEN b.deps ELSE {}

(* One turn of the loop, from an outcome of the left operand.               *)
LEMMA TurnAgrees ==
  ASSUME NEW level \in 1..4, NEW op \in Levels[level], NEW a, NEW b, NEW meaning,
         Joins(level, op, a, b, meaning), NEW expr, NEW call, NEW left, NEW next,
         NEW used \in BOOLEAN, NEW pos, NEW end,
         Agrees(left, a, pos, used), Peek(expr, pos) = Op(op),
         next = call[level + 1][pos + 1][used], Agrees(next, b, end, used)
  PROVE  Agrees(ParseRest(level, expr, call, left, used), meaning, end, used)
<1>1. CASE ~left.ok
  <2>1. used /\ ~a.ok /\ left.deps = a.deps
    BY <1>1 DEF Agrees
  <2>2. ParseRest(level, expr, call, left, used) = left
    BY <1>1 DEF ParseRest
  <2>3. ~meaning.ok /\ meaning.deps = a.deps
    BY <2>1 DEF Joins
  <2> QED BY <1>1, <2>1, <2>2, <2>3 DEF Agrees
<1>2. CASE left.ok
  <2>1. /\ left.pos = pos /\ left.deps = (IF used THEN a.deps ELSE {})
        /\ used => a.ok /\ left.value = a.value
    BY <1>2 DEF Agrees
  <2>2. PICK ready : ready = FailIf(used /\ level # 1 /\ ~left.value.isNumber, Skip(left))
    OBVIOUS
  <2>3. /\ ready.ok <=> (used => Fit(level, a.value))
        /\ ready.pos = pos + 1 /\ ready.deps = left.deps
    BY <1>2, <2>1, <2>2 DEF FailIf, Skip, Outcome, Fit
  <2>4. PICK right : right = Call(call, level + 1, ready, used)
    OBVIOUS
  <2>5. ParseRest(level, expr, call, left, used)
          = Yield(FailIf(used /\ right.ok /\ BadOperand(op, right.value), right),
                  Apply(op, left.value, right.value))
    <3>1. Peek(expr, left.pos).kind = "op" /\ Peek(expr, left.pos).word = op
      BY <2>1, Ops
    <3> QED BY <1>2, <2>2, <2>4, <3>1 DEF ParseRest
  <2>6. PICK s : s = ParseRest(level, expr, call, left, used)
    OBVIOUS
  <2>7. /\ s.ok <=> right.ok /\ ~(used /\ BadOperand(op, right.value))
        /\ s.pos = right.pos /\ s.deps = right.deps /\ s.value = Apply(op, left.value, right.value)
    <3>1. PICK bad : bad = (used /\ right.ok /\ BadOperand(op, right.value))
      OBVIOUS
    <3>2. s = [ok |-> right.ok /\ ~bad, pos |-> right.pos,
               value |-> Apply(op, left.value, right.value), deps |-> right.deps]
      BY <2>5, <2>6, <3>1 DEF Yield, FailIf, Outcome
    <3> QED BY <3>1, <3>2
  <2>8. CASE ~ready.ok
    <3>1. right = ready /\ used /\ ~Fit(level, a.value)
      BY <2>3, <2>4, <2>8 DEF Call
    <3>2. ~s.ok /\ s.deps = a.deps
      BY <2>1, <2>3, <2>7, <2>8, <3>1
    <3>3. ~meaning.ok /\ meaning.deps = a.deps
      BY <3>1 DEF Joins
    <3> QED BY <2>6, <3>1, <3>2, <3>3 DEF Agrees
  <2>9. CASE ready.ok
    <3>1. /\ right.ok <=> next.ok
          /\ right.pos = next.pos /\ right.value = next.value /\ right.deps = left.deps \cup next.deps
      BY <2>3, <2>4, <2>9 DEF Call, Outcome
    <3>2. /\ next.deps = (IF used THEN b.deps ELSE {}) /\ (next.ok <=> (used => b.ok))
          /\ next.ok => next.pos = end
          /\ next.ok /\ used => next.value = b.value
      BY DEF Agrees
    <3>3. CASE ~used
      <4>1. s.ok /\ s.pos = end /\ s.deps = {}
        BY <2>1, <2>7, <3>1, <3>2, <3>3
      <4> QED BY <2>6, <3>3, <4>1 DEF Agrees
    <3>4. CASE used
      <4>1. a.ok /\ Fit(level, a.value) /\ left.value = a.value
        BY <2>1, <2>3, <2>9, <3>4
      <4>2. s.deps = meaning.deps
        BY <2>1, <2>7, <3>1, <3>2, <3>4, <4>1 DEF Joins
      <4>3. s.ok <=> meaning.ok
        BY <2>7, <3>1, <3>2, <3>4, <4>1 DEF Joins
      <4>4. s.ok => s.pos = end /\ s.value = meaning.value
        BY <2>7, <3>1, <3>2, <3>4, <4>1, <4>3 DEF Joins
      <4> QED BY <2>6, <3>4, <4>2, <4>3, <4>4 DEF Agrees
    <3> QED BY <3>3, <3>4
  <2> QED BY <2>8, <2>9
<1> QED BY <1>1, <1>2

LEMMA BinaryTaken ==
  ASSUME NEW level \in 1..4, NEW op \in Levels[level], NEW a, NEW b, NEW meaning,
         Joins(level, op, a, b, meaning), NEW lookup,
         NEW x \in Seq(Tokens), NEW y \in Seq(Tokens), x # <<>>, y # <<>>,
         Taken(level, x, a, lookup), Parsed(level + 1, y, b, lookup)
  PROVE  Taken(level, x \o <<Op(op)>> \o y, meaning, lookup)
<1> DEFINE text == x \o <<Op(op)>> \o y
<1>0. /\ Op(op) \in Tokens /\ text \in Seq(Tokens) /\ Len(text) = Len(x) + 1 + Len(y)
      /\ Len(x) \in Nat /\ Len(y) \in Nat /\ Len(x) > 0 /\ Len(y) > 0
  <2>1. Op(op) \in Tokens
    BY Ops
  <2>2. x \o <<Op(op)>> \in Seq(Tokens) /\ Len(x \o <<Op(op)>>) = Len(x) + 1
    BY <2>1
  <2>3. text \in Seq(Tokens) /\ Len(text) = Len(x) + 1 + Len(y)
    BY <2>2
  <2> QED BY <2>1, <2>3, EmptySeq
<1> HIDE DEF text
<1> SUFFICES ASSUME NEW expr, NEW pos, NEW depth, NEW used \in BOOLEAN, expr.lookup = lookup,
                    Stands(text, expr, pos), Room(level, text, expr, depth),
                    Peek(expr, pos + Len(text)) \in Ends(level + 1)
             PROVE  \E turn \in 0..Len(text) :
                      Agrees(ParseTurns(level, expr, Parse(expr)[depth - 1], pos, used)[turn],
                             meaning, pos + Len(text), used)
  BY DEF Taken, text
<1>1. /\ Len(expr.tokens) \in Nat /\ Len(text) <= Len(expr.tokens) /\ depth \in Nat /\ pos \in Nat
      /\ depth \in 1..StackDepth(expr) /\ depth - 1 \in 0..StackDepth(expr)
      /\ 6 * Len(text) + 5 - level <= depth
  <2>1. text # <<>> /\ level \in 0..5
    BY <1>0, EmptySeq
  <2> QED BY <2>1, RoomLeft
<1>2. /\ Stands(x, expr, pos) /\ Peek(expr, pos + Len(x)) = Op(op)
      /\ Stands(y, expr, pos + Len(x) + 1)
      /\ (pos + Len(x) + 1) + Len(y) = pos + Len(text)
  BY <1>0, Split DEF text
<1>3. PICK call, f : call = Parse(expr)[depth - 1] /\ f = ParseTurns(level, expr, call, pos, used)
  OBVIOUS
<1>4. PICK turn \in 0..Len(x) : Agrees(f[turn], a, pos + Len(x), used)
  <2>1. Room(level, x, expr, depth)
    BY <1>0, <1>1 DEF Room
  <2>2. Op(op) \in Ends(level + 1)
    <3>1. level \in 1..(level + 1) - 1
      OBVIOUS
    <3> QED BY <3>1 DEF Ends
  <2> QED BY <1>2, <1>3, <2>1, <2>2 DEF Taken
<1>5. PICK next : next = call[level + 1][pos + Len(x) + 1][used]
  OBVIOUS
<1>6. Agrees(next, b, pos + Len(text), used)
  <2>1. Room(level + 1, y, expr, depth - 1)
    BY <1>0, <1>1 DEF Room
  <2>2. Agrees(next, b, (pos + Len(x) + 1) + Len(y), used)
    BY <1>2, <1>3, <1>5, <2>1 DEF Parsed
  <2> QED BY <1>2, <2>2
<1>7. Agrees(ParseRest(level, expr, call, f[turn], used), meaning, pos + Len(text), used)
  BY <1>2, <1>4, <1>5, <1>6, TurnAgrees
<1>8. f[turn + 1] = ParseRest(level, expr, call, f[turn], used)
  <2>1. turn + 1 \in 1..Len(expr.tokens) /\ (turn + 1) - 1 = turn
    BY <1>0, <1>1
  <2> QED BY <1>1, <1>3, <2>1, Turns
<1>9. turn + 1 \in 0..Len(text)
  BY <1>0
<1> QED BY <1>3, <1>7, <1>8, <1>9

-----------------------------------------------------------------------------
(* The conditional.                                                         *)
Chooses(a, b, c, meaning) ==
  LET taken == IF a.value.number # 0 THEN b ELSE c IN
  /\ meaning.ok <=> a.ok /\ a.value.isNumber /\ taken.ok
  /\ meaning.ok => meaning.value = taken.value
  /\ meaning.deps = a.deps \cup IF a.ok /\ a.value.isNumber THEN taken.deps ELSE {}

(* The fields of what the steps between two calls leave.                    *)
LEMMA Skipped ==
  ASSUME NEW s
  PROVE  /\ Skip(s).ok <=> s.ok
         /\ Skip(s).pos = s.pos + 1 /\ Skip(s).value = s.value /\ Skip(s).deps = s.deps
BY DEF Skip, Outcome

LEMMA Yielded ==
  ASSUME NEW s, NEW given
  PROVE  /\ Yield(s, given).ok <=> s.ok
         /\ Yield(s, given).pos = s.pos /\ Yield(s, given).value = given
         /\ Yield(s, given).deps = s.deps
BY DEF Yield, Outcome

LEMMA Failing ==
  ASSUME NEW s, NEW failed \in BOOLEAN
  PROVE  /\ FailIf(failed, s).ok <=> s.ok /\ ~failed
         /\ FailIf(failed, s).pos = s.pos /\ FailIf(failed, s).value = s.value
         /\ FailIf(failed, s).deps = s.deps
BY DEF FailIf, Outcome

LEMMA Required ==
  ASSUME NEW s, NEW v, NEW used \in BOOLEAN
  PROVE  /\ RequireNumber(s, v, used).ok <=> s.ok /\ (used => v.isNumber)
         /\ RequireNumber(s, v, used).pos = s.pos
         /\ RequireNumber(s, v, used).value = s.value
         /\ RequireNumber(s, v, used).deps = s.deps
<1>1. PICK failed \in BOOLEAN : failed = (used /\ ~v.isNumber)
  OBVIOUS
<1>2. RequireNumber(s, v, used) = FailIf(failed, s)
  BY <1>1 DEF RequireNumber
<1>3. RequireNumber(s, v, used).ok <=> s.ok /\ ~failed
  BY <1>2, Failing
<1>4. (used => v.isNumber) <=> ~failed
  BY <1>1
<1> QED BY <1>2, <1>3, <1>4, Failing

LEMMA Expected ==
  ASSUME NEW expr, NEW s, NEW word
  PROVE  /\ Take(expr, s, word).ok <=> s.ok /\ Peek(expr, s.pos) = Op(word)
         /\ Take(expr, s, word).pos = s.pos + 1 /\ Take(expr, s, word).value = s.value
         /\ Take(expr, s, word).deps = s.deps
<1>1. PICK failed \in BOOLEAN : failed = (s.ok /\ Peek(expr, s.pos) # Op(word))
  OBVIOUS
<1>2. Take(expr, s, word) = FailIf(failed, Skip(s))
  BY <1>1 DEF Take
<1>3. /\ Take(expr, s, word).ok <=> Skip(s).ok /\ ~failed
      /\ Take(expr, s, word).pos = Skip(s).pos /\ Take(expr, s, word).value = Skip(s).value
      /\ Take(expr, s, word).deps = Skip(s).deps
  BY <1>2, Failing
<1>4. Take(expr, s, word).ok <=> s.ok /\ ~failed
  BY <1>3, Skipped
<1>5. s.ok /\ ~failed <=> s.ok /\ Peek(expr, s.pos) = Op(word)
  BY <1>1
<1> QED BY <1>3, <1>4, <1>5, Skipped

(* The calls that a conditional makes after its condition.                  *)
TernarySteps(expr, call, cond, used, taken, on, off, ready, then, colon, else, s) ==
  /\ ready.ok <=> cond.ok /\ (used => cond.value.isNumber)
  /\ ready.pos = cond.pos + 1 /\ ready.deps = cond.deps
  /\ ~ready.ok => then = ready
  /\ ready.ok => /\ then.ok <=> call[0][ready.pos][on].ok
                 /\ then.pos = call[0][ready.pos][on].pos
                 /\ then.value = call[0][ready.pos][on].value
                 /\ then.deps = ready.deps \cup call[0][ready.pos][on].deps
  /\ colon.ok <=> then.ok /\ Peek(expr, then.pos) = Op(":")
  /\ colon.pos = then.pos + 1 /\ colon.deps = then.deps
  /\ ~colon.ok => else = colon
  /\ colon.ok => /\ else.ok <=> call[0][colon.pos][off].ok
                 /\ else.pos = call[0][colon.pos][off].pos
                 /\ else.value = call[0][colon.pos][off].value
                 /\ else.deps = colon.deps \cup call[0][colon.pos][off].deps
  /\ s.ok <=> else.ok
  /\ s.pos = else.pos /\ s.deps = else.deps
  /\ s.value = IF taken THEN then.value ELSE else.value

(* Which branch is taken, and which are live.                               *)
Branches(cond, used, taken, on, off) ==
  /\ used \in BOOLEAN /\ taken \in BOOLEAN /\ on \in BOOLEAN /\ off \in BOOLEAN
  /\ taken = (AsNumber(cond.value) # 0)
  /\ on = (used /\ taken) /\ off = (used /\ ~taken)

LEMMA TernaryStep ==
  ASSUME NEW expr, NEW call, NEW pos, NEW cond, NEW s, NEW used, NEW taken, NEW on, NEW off,
         cond = call[1][pos][used], Branches(cond, used, taken, on, off), cond.ok,
         Peek(expr, cond.pos) = Op("?"), s = ParseTernary(expr, call, pos, used)
  PROVE  \E ready, then, colon, else :
           TernarySteps(expr, call, cond, used, taken, on, off, ready, then, colon, else, s)
<1>1. PICK ready : ready = RequireNumber(Skip(cond), cond.value, used)
  OBVIOUS
<1>2. PICK then : then = Call(call, 0, ready, on)
  OBVIOUS
<1>3. PICK colon : colon = Take(expr, then, ":")
  OBVIOUS
<1>4. PICK else : else = Call(call, 0, colon, off)
  OBVIOUS
<1>5. PICK given : given = IF taken THEN then.value ELSE else.value
  OBVIOUS
<1>6. s = Yield(else, given)
  BY <1>1, <1>2, <1>3, <1>4, <1>5 DEF ParseTernary, Ternary, Branches
<1>7. /\ ready.ok <=> cond.ok /\ (used => cond.value.isNumber)
      /\ ready.pos = cond.pos + 1 /\ ready.deps = cond.deps
  <2>1. PICK skip : skip = Skip(cond)
    OBVIOUS
  <2>2. skip.ok /\ skip.pos = cond.pos + 1 /\ skip.deps = cond.deps
    BY <2>1, Skipped
  <2>3. /\ ready.ok <=> skip.ok /\ (used => cond.value.isNumber)
        /\ ready.pos = skip.pos /\ ready.deps = skip.deps
    BY <1>1, <2>1, Required DEF Branches
  <2> QED BY <2>2, <2>3
<1>8. /\ ~ready.ok => then = ready
      /\ ready.ok => /\ then.ok <=> call[0][ready.pos][on].ok
                     /\ then.pos = call[0][ready.pos][on].pos
                     /\ then.value = call[0][ready.pos][on].value
                     /\ then.deps = ready.deps \cup call[0][ready.pos][on].deps
  BY <1>2 DEF Call, Outcome
<1>9. colon.ok <=> then.ok /\ Peek(expr, then.pos) = Op(":")
  BY <1>3, Expected
<1>10. colon.pos = then.pos + 1 /\ colon.deps = then.deps
  BY <1>3, Expected
<1>11. /\ ~colon.ok => else = colon
       /\ colon.ok => /\ else.ok <=> call[0][colon.pos][off].ok
                      /\ else.pos = call[0][colon.pos][off].pos
                      /\ else.value = call[0][colon.pos][off].value
                      /\ else.deps = colon.deps \cup call[0][colon.pos][off].deps
  BY <1>4 DEF Call, Outcome
<1>12. /\ s.ok <=> else.ok
       /\ s.pos = else.pos /\ s.deps = else.deps /\ s.value = given
  BY <1>6, Yielded
<1>13. TernarySteps(expr, call, cond, used, taken, on, off, ready, then, colon, else, s)
  BY <1>5, <1>7, <1>8, <1>9, <1>10, <1>11, <1>12 DEF TernarySteps
<1> QED BY <1>13

LEMMA TernaryAgrees ==
  ASSUME NEW a, NEW b, NEW c, NEW meaning, Chooses(a, b, c, meaning),
         NEW expr, NEW call, NEW used, NEW taken, NEW on, NEW off,
         NEW pos, NEW p, NEW q, NEW end,
         Branches(call[1][pos][used], used, taken, on, off),
         Agrees(call[1][pos][used], a, p, used), Peek(expr, p) = Op("?"),
         Agrees(call[0][p + 1][on], b, q, on), Peek(expr, q) = Op(":"),
         Agrees(call[0][q + 1][off], c, end, off)
  PROVE  Agrees(ParseTernary(expr, call, pos, used), meaning, end, used)
<1>4. PICK cond, first, second :
        cond = call[1][pos][used] /\ first = call[0][p + 1][on] /\ second = call[0][q + 1][off]
  OBVIOUS
<1>5. /\ Branches(cond, used, taken, on, off) /\ Agrees(cond, a, p, used)
      /\ Agrees(first, b, q, on) /\ Agrees(second, c, end, off)
  BY <1>4
<1>3. /\ used \in BOOLEAN /\ taken \in BOOLEAN
      /\ on <=> used /\ taken
      /\ off <=> used /\ ~taken
      /\ taken <=> AsNumber(cond.value) # 0
  BY <1>5 DEF Branches
<1>1. CASE ~cond.ok
  <2>1. ParseTernary(expr, call, pos, used) = cond
    BY <1>1, <1>4 DEF ParseTernary
  <2>2. used /\ ~a.ok /\ cond.deps = a.deps
    BY <1>1, <1>3, <1>5 DEF Agrees
  <2>3. ~meaning.ok /\ meaning.deps = a.deps
    BY <2>2 DEF Chooses
  <2> QED BY <1>1, <1>3, <2>1, <2>2, <2>3 DEF Agrees
<1>2. CASE cond.ok
  <2>1. /\ cond.pos = p /\ cond.deps = (IF used THEN a.deps ELSE {})
        /\ used => a.ok /\ cond.value = a.value
    BY <1>2, <1>3, <1>5 DEF Agrees
  <2>3. PICK s : s = ParseTernary(expr, call, pos, used)
    OBVIOUS
  <2>5. Peek(expr, cond.pos) = Op("?")
    BY <1>3, <2>1
  <2>6. PICK ready, then, colon, else :
          TernarySteps(expr, call, cond, used, taken, on, off, ready, then, colon, else, s)
    BY <1>2, <2>3, <1>4, <1>5, <2>5, TernaryStep
  <2>4. /\ ready.ok <=> (used => a.value.isNumber)
        /\ ready.pos = p + 1 /\ ready.deps = cond.deps
    BY <1>2, <1>3, <2>1, <2>6 DEF TernarySteps
  <2>10. /\ ~ready.ok => then = ready
         /\ ready.ok => /\ then.ok <=> call[0][ready.pos][on].ok
                        /\ then.pos = call[0][ready.pos][on].pos
                        /\ then.value = call[0][ready.pos][on].value
                        /\ then.deps = ready.deps \cup call[0][ready.pos][on].deps
    BY <2>6 DEF TernarySteps
  <2>7. /\ colon.ok <=> then.ok /\ Peek(expr, then.pos) = Op(":")
        /\ colon.pos = then.pos + 1 /\ colon.deps = then.deps
    BY <2>6 DEF TernarySteps
  <2>11. /\ ~colon.ok => else = colon
         /\ colon.ok => /\ else.ok <=> call[0][colon.pos][off].ok
                        /\ else.pos = call[0][colon.pos][off].pos
                        /\ else.value = call[0][colon.pos][off].value
                        /\ else.deps = colon.deps \cup call[0][colon.pos][off].deps
    BY <2>6 DEF TernarySteps
  <2>12. /\ s.ok <=> else.ok
         /\ s.pos = else.pos /\ s.deps = else.deps
         /\ s.value = IF taken THEN then.value ELSE else.value
    BY <2>6 DEF TernarySteps
  <2>8. CASE ~ready.ok
    <3>1. then = ready
      BY <2>8, <2>10
    <3>2. else = colon
      BY <2>7, <2>8, <2>11, <3>1
    <3>3. ~s.ok /\ s.deps = a.deps /\ used /\ ~a.value.isNumber
      BY <1>3, <2>1, <2>4, <2>12, <2>7, <2>8, <3>1, <3>2
    <3>4. ~meaning.ok /\ meaning.deps = a.deps
      BY <3>3 DEF Chooses
    <3> QED BY <1>3, <2>3, <3>3, <3>4 DEF Agrees
  <2>9. CASE ready.ok
    <3>1. /\ then.ok <=> first.ok
          /\ then.pos = first.pos /\ then.value = first.value /\ then.deps = cond.deps \cup first.deps
      BY <1>3, <1>4, <2>1, <2>4, <2>9, <2>10
    <3>2. /\ first.deps = (IF on THEN b.deps ELSE {})
          /\ first.ok <=> (on => b.ok)
          /\ first.ok => first.pos = q
          /\ first.ok /\ on => first.value = b.value
      BY <1>3, <1>5 DEF Agrees
    <3>3. used => (taken <=> a.value.number # 0)
      <4>1. used => a.value.isNumber /\ cond.value = a.value
        BY <2>1, <2>4, <2>9
      <4>2. used => AsNumber(cond.value) = a.value.number
        BY <4>1 DEF AsNumber
      <4> QED BY <1>3, <4>2
    <3>4. CASE ~then.ok
      <4>1. used /\ taken /\ ~b.ok
        BY <1>3, <3>1, <3>2, <3>4
      <4>2. else = colon /\ ~colon.ok
        BY <2>7, <2>11, <3>4
      <4>3. ~s.ok /\ s.deps = a.deps \cup b.deps
        BY <1>3, <2>1, <2>12, <2>7, <3>1, <3>2, <4>1, <4>2
      <4>4. ~meaning.ok /\ meaning.deps = a.deps \cup b.deps
        BY <1>3, <2>1, <2>4, <2>9, <3>3, <4>1 DEF Chooses
      <4> QED BY <1>3, <2>3, <4>1, <4>3, <4>4 DEF Agrees
    <3>5. CASE then.ok
      <4>1. colon.ok /\ colon.pos = q + 1 /\ colon.deps = cond.deps \cup first.deps
        BY <2>7, <3>1, <3>2, <3>5
      <4>2. /\ else.ok <=> second.ok
            /\ else.pos = second.pos /\ else.value = second.value /\ else.deps = colon.deps \cup second.deps
        BY <1>4, <2>11, <4>1
      <4>3. /\ second.deps = (IF off THEN c.deps ELSE {})
            /\ second.ok <=> (off => c.ok)
            /\ second.ok => second.pos = end
            /\ second.ok /\ off => second.value = c.value
        BY <1>3, <1>5 DEF Agrees
      <4>4. CASE ~used
        <5>1. s.ok /\ s.pos = end /\ s.deps = {}
          BY <1>3, <2>1, <2>12, <3>2, <4>1, <4>2, <4>3, <4>4
        <5> QED BY <1>3, <2>3, <4>4, <5>1 DEF Agrees
      <4>5. CASE used /\ taken
        <5>1. s.ok /\ s.pos = end /\ s.deps = a.deps \cup b.deps /\ s.value = b.value /\ b.ok
          BY <1>3, <2>1, <2>12, <3>1, <3>2, <3>5, <4>1, <4>2, <4>3, <4>5
        <5>2. meaning.ok /\ meaning.deps = a.deps \cup b.deps /\ meaning.value = b.value
          BY <1>3, <2>1, <2>4, <2>9, <3>3, <4>5, <5>1 DEF Chooses
        <5> QED BY <1>3, <2>3, <4>5, <5>1, <5>2 DEF Agrees
      <4>6. CASE used /\ ~taken
        <5>1. /\ s.ok <=> c.ok
              /\ s.ok => s.pos = end /\ s.value = c.value
              /\ s.deps = a.deps \cup c.deps
          BY <1>3, <2>1, <2>12, <3>1, <3>2, <3>5, <4>1, <4>2, <4>3, <4>6
        <5>2. /\ meaning.ok <=> c.ok
              /\ meaning.ok => meaning.value = c.value
              /\ meaning.deps = a.deps \cup c.deps
          BY <1>3, <2>1, <2>4, <2>9, <3>3, <4>6 DEF Chooses
        <5> QED BY <1>3, <2>3, <4>6, <5>1, <5>2 DEF Agrees
      <4> QED BY <4>4, <4>5, <4>6
    <3> QED BY <3>4, <3>5
  <2> QED BY <2>8, <2>9
<1> QED BY <1>1, <1>2

LEMMA ConditionEnds == Op("?") \in Ends(1)
<1>1. 1 # 0
  OBVIOUS
<1>2. Op("?") \in (IF 1 = 0 THEN {} ELSE {Op("?")})
  BY <1>1
<1> QED BY <1>2 DEF Ends

LEMMA TernaryParsed ==
  ASSUME NEW x \in Seq(Tokens), NEW y \in Seq(Tokens), NEW z \in Seq(Tokens),
         x # <<>>, y # <<>>, z # <<>>, NEW lookup,
         NEW a, NEW b, NEW c, NEW meaning, Chooses(a, b, c, meaning),
         Parsed(1, x, a, lookup), Parsed(0, y, b, lookup), Parsed(0, z, c, lookup)
  PROVE  Parsed(0, x \o <<Op("?")>> \o y \o <<Op(":")>> \o z, meaning, lookup)
<1> DEFINE head == x \o <<Op("?")>> \o y
           text == head \o <<Op(":")>> \o z
<1>0. /\ Op("?") \in Tokens /\ Op(":") \in Tokens
      /\ head \in Seq(Tokens) /\ text \in Seq(Tokens)
      /\ Len(head) = Len(x) + 1 + Len(y) /\ Len(text) = Len(head) + 1 + Len(z)
      /\ Len(x) \in Nat /\ Len(y) \in Nat /\ Len(z) \in Nat /\ Len(x) > 0 /\ Len(y) > 0 /\ Len(z) > 0
  <2>1. Op("?") \in Tokens /\ Op(":") \in Tokens
    BY Ops DEF Words
  <2>2. Len(x) \in Nat /\ Len(y) \in Nat /\ Len(z) \in Nat /\ Len(x) > 0 /\ Len(y) > 0 /\ Len(z) > 0
    BY EmptySeq
  <2>3. x \o <<Op("?")>> \in Seq(Tokens) /\ Len(x \o <<Op("?")>>) = Len(x) + 1
    BY <2>1
  <2>4. head \in Seq(Tokens) /\ Len(head) = Len(x) + 1 + Len(y)
    BY <2>3
  <2> HIDE DEF head
  <2>5. head \o <<Op(":")>> \in Seq(Tokens) /\ Len(head \o <<Op(":")>>) = Len(head) + 1
    BY <2>1, <2>4
  <2>6. text \in Seq(Tokens) /\ Len(text) = Len(head) + 1 + Len(z)
    BY <2>5
  <2> QED BY <2>1, <2>2, <2>4, <2>6
<1> HIDE DEF head, text
<1> SUFFICES ASSUME NEW expr, NEW pos, NEW depth, NEW used \in BOOLEAN, expr.lookup = lookup,
                    Stands(text, expr, pos), Room(0, text, expr, depth),
                    Peek(expr, pos + Len(text)) \in Ends(0)
             PROVE  Agrees(Parse(expr)[depth][0][pos][used], meaning, pos + Len(text), used)
  BY DEF Parsed, text, head
<1>1. /\ Len(expr.tokens) \in Nat /\ Len(text) <= Len(expr.tokens) /\ depth \in Nat /\ pos \in Nat
      /\ depth \in 1..StackDepth(expr) /\ depth - 1 \in 0..StackDepth(expr) /\ pos \in 1..Len(expr.tokens) + 1
      /\ 6 * Len(text) + 5 - 0 <= depth
  <2>1. text # <<>>
    BY <1>0, EmptySeq
  <2> QED BY <2>1, RoomLeft
<1>2. PICK p, q : p = pos + Len(x) /\ q = pos + Len(head)
  OBVIOUS
<1>3. /\ Stands(head, expr, pos) /\ Peek(expr, q) = Op(":") /\ Stands(z, expr, q + 1)
      /\ (q + 1) + Len(z) = pos + Len(text)
  <2>0. Stands(head \o <<Op(":")>> \o z, expr, pos) /\ text = head \o <<Op(":")>> \o z
    BY DEF text
  <2>1. /\ Stands(head, expr, pos) /\ Peek(expr, pos + Len(head)) = Op(":")
        /\ Stands(z, expr, pos + Len(head) + 1)
        /\ (pos + Len(head) + 1) + Len(z) = pos + Len(text)
    <3>1. head \in Seq(Tokens) /\ z \in Seq(Tokens) /\ Op(":") \in Tokens
      BY <1>0
    <3>2. Stands(head, expr, pos)
      BY <2>0, <3>1, Split
    <3>3. Peek(expr, pos + Len(head)) = Op(":")
      BY <2>0, <3>1, Split
    <3>4. Stands(z, expr, pos + Len(head) + 1)
      BY <2>0, <3>1, Split
    <3>5. (pos + Len(head) + 1) + Len(z) = pos + Len(head \o <<Op(":")>> \o z)
      BY <2>0, <3>1, Split
    <3> QED BY <2>0, <3>2, <3>3, <3>4, <3>5
  <2> QED BY <1>2, <2>1
<1>4. /\ Stands(x, expr, pos) /\ Peek(expr, p) = Op("?") /\ Stands(y, expr, p + 1)
      /\ (p + 1) + Len(y) = q
  BY <1>0, <1>2, <1>3, Split DEF head
<1>5. PICK call : call = Parse(expr)[depth - 1]
  OBVIOUS
<1>6. PICK cond : cond = call[1][pos][used]
  OBVIOUS
<1>7. Agrees(cond, a, p, used)
  <2>1. Room(1, x, expr, depth - 1)
    BY <1>0, <1>1 DEF Room
  <2>2. Op("?") \in Ends(1)
    BY ConditionEnds
  <2> QED BY <1>2, <1>4, <1>5, <1>6, <2>1, <2>2 DEF Parsed
<1>8. PICK taken \in BOOLEAN : taken = (AsNumber(cond.value) # 0)
  OBVIOUS
<1>9. PICK on \in BOOLEAN, off \in BOOLEAN : on = (used /\ taken) /\ off = (used /\ ~taken)
  OBVIOUS
<1>10. Branches(cond, used, taken, on, off)
  BY <1>8, <1>9 DEF Branches
<1>11. PICK first, second : first = call[0][p + 1][on] /\ second = call[0][q + 1][off]
  OBVIOUS
<1>12. Agrees(first, b, q, on)
  <2>1. Room(0, y, expr, depth - 1)
    BY <1>0, <1>1 DEF Room
  <2>2. Op(":") \in Ends(0)
    BY DEF Ends
  <2>3. Agrees(first, b, (p + 1) + Len(y), on)
    BY <1>3, <1>4, <1>5, <1>11, <2>1, <2>2 DEF Parsed
  <2> QED BY <1>4, <2>3
<1>13. Agrees(second, c, pos + Len(text), off)
  <2>1. Room(0, z, expr, depth - 1)
    BY <1>0, <1>1 DEF Room
  <2>2. Agrees(second, c, (q + 1) + Len(z), off)
    BY <1>3, <1>5, <1>11, <2>1 DEF Parsed
  <2> QED BY <1>3, <2>2
<1>14. Agrees(ParseTernary(expr, call, pos, used), meaning, pos + Len(text), used)
  <2>1. Peek(expr, p) = Op("?") /\ Peek(expr, q) = Op(":")
    BY <1>3, <1>4
  <2>2. /\ Agrees(call[1][pos][used], a, p, used)
        /\ Branches(call[1][pos][used], used, taken, on, off)
        /\ Agrees(call[0][p + 1][on], b, q, on)
        /\ Agrees(call[0][q + 1][off], c, pos + Len(text), off)
    BY <1>6, <1>7, <1>10, <1>11, <1>12, <1>13
  <2> QED BY <2>1, <2>2, TernaryAgrees
<1>15. Parse(expr)[depth][0][pos][used] = ParseTernary(expr, call, pos, used)
  <2>1. Parse(expr)[depth][0][pos][used] = Dispatched(0, expr, Parse(expr)[depth - 1], pos, used)
    BY <1>1, CallsMade
  <2> QED BY <1>5, <2>1 DEF Dispatched, Ternary, Unary
<1> QED BY <1>14, <1>15

-----------------------------------------------------------------------------
(* Signs, parentheses and leaves.                                           *)
LEMMA UnaryMade ==
  ASSUME NEW expr, Len(expr.tokens) \in Nat, NEW depth \in 1..StackDepth(expr),
         NEW pos \in 1..Len(expr.tokens) + 1, NEW used \in BOOLEAN
  PROVE  Parse(expr)[depth][5][pos][used] = ParseUnary(expr, Parse(expr)[depth - 1], pos, used)
<1>1. Parse(expr)[depth][5][pos][used] = Dispatched(5, expr, Parse(expr)[depth - 1], pos, used)
  BY CallsMade
<1> QED BY <1>1 DEF Dispatched, Ternary, Unary

SignMeans(sign, a, meaning) ==
  /\ meaning.ok <=> a.ok /\ a.value.isNumber
  /\ meaning.ok => meaning.value = ApplySign(sign, a.value)
  /\ meaning.deps = a.deps

LEMMA SignParsed ==
  ASSUME NEW sign \in Signs, NEW y \in Seq(Tokens), y # <<>>, NEW a, NEW meaning,
         SignMeans(sign, a, meaning), NEW lookup, Parsed(5, y, a, lookup)
  PROVE  Parsed(5, <<Op(sign)>> \o y, meaning, lookup)
<1> DEFINE text == <<Op(sign)>> \o y
<1>0. Op(sign) \in Tokens /\ <<Op(sign)>> \in Seq(Tokens) /\ Len(<<Op(sign)>>) = 1
  <2>1. Op(sign) \in Tokens
    BY Ops DEF Words
  <2> QED BY <2>1
<1>1. Len(text) = 1 + Len(y) /\ Len(y) \in Nat /\ Len(y) > 0 /\ text \in Seq(Tokens)
  BY <1>0, EmptySeq
<1> HIDE DEF text
<1> SUFFICES ASSUME NEW expr, NEW pos, NEW depth, NEW used \in BOOLEAN, expr.lookup = lookup,
                    Stands(text, expr, pos), Room(5, text, expr, depth),
                    Peek(expr, pos + Len(text)) \in Ends(5)
             PROVE  Agrees(Parse(expr)[depth][5][pos][used], meaning, pos + Len(text), used)
  BY DEF Parsed, text
<1>2. /\ Len(expr.tokens) \in Nat /\ Len(text) <= Len(expr.tokens) /\ depth \in Nat /\ pos \in Nat
      /\ depth \in 1..StackDepth(expr) /\ depth - 1 \in 0..StackDepth(expr) /\ pos \in 1..Len(expr.tokens) + 1
      /\ 6 * Len(text) + 5 - 5 <= depth
  <2>1. text # <<>>
    BY <1>1, EmptySeq
  <2> QED BY <2>1, RoomLeft
<1>3. Stands(<<Op(sign)>>, expr, pos) /\ Stands(y, expr, pos + 1)
  BY <1>0, PartsStand DEF text
<1>4. Peek(expr, pos) = Op(sign) /\ (pos + 1) + Len(y) = pos + Len(text)
  BY <1>0, <1>1, <1>2, <1>3, Single
<1>5. PICK next : next = Parse(expr)[depth - 1][5][pos + 1][used]
  OBVIOUS
<1>6. Agrees(next, a, pos + Len(text), used)
  <2>1. Room(5, y, expr, depth - 1)
    BY <1>1, <1>2 DEF Room
  <2>2. Agrees(next, a, (pos + 1) + Len(y), used)
    BY <1>3, <1>4, <1>5, <2>1 DEF Parsed
  <2> QED BY <1>4, <2>2
<1>7. PICK s : s = Parse(expr)[depth][5][pos][used]
  OBVIOUS
<1>8. s = Yield(RequireNumber(next, next.value, used), ApplySign(sign, next.value))
  <2>1. Op(sign) \in {Op(word) : word \in Signs} /\ Op(sign).word = sign
    BY Ops
  <2>2. PICK call : call = Parse(expr)[depth - 1]
    OBVIOUS
  <2>3. s = ParseUnary(expr, call, pos, used)
    BY <1>2, <1>7, <2>2, UnaryMade
  <2> QED BY <1>4, <1>5, <2>1, <2>2, <2>3 DEF ParseUnary, Unary
<1>9. PICK required : required = RequireNumber(next, next.value, used)
  OBVIOUS
<1>10. /\ required.ok <=> next.ok /\ (used => next.value.isNumber)
       /\ required.pos = next.pos /\ required.deps = next.deps
  BY <1>9, Required
<1>11. /\ s.ok <=> required.ok
       /\ s.pos = required.pos /\ s.deps = required.deps /\ s.value = ApplySign(sign, next.value)
  BY <1>8, <1>9, Yielded
<1>12. /\ next.deps = (IF used THEN a.deps ELSE {})
       /\ next.ok <=> (used => a.ok)
       /\ next.ok => next.pos = pos + Len(text)
       /\ next.ok /\ used => next.value = a.value
  BY <1>6 DEF Agrees
<1>13. s.deps = IF used THEN meaning.deps ELSE {}
  BY <1>10, <1>11, <1>12 DEF SignMeans
<1>14. s.ok <=> (used => meaning.ok)
  BY <1>10, <1>11, <1>12 DEF SignMeans
<1>15. s.ok => s.pos = pos + Len(text)
  BY <1>10, <1>11, <1>12
<1>16. s.ok /\ used => s.value = meaning.value
  BY <1>10, <1>11, <1>12, <1>14 DEF SignMeans
<1> QED BY <1>7, <1>13, <1>14, <1>15, <1>16 DEF Agrees

LEMMA PrimaryMade ==
  ASSUME NEW expr, Len(expr.tokens) \in Nat, NEW depth \in 1..StackDepth(expr),
         NEW pos \in 1..Len(expr.tokens) + 1, NEW used \in BOOLEAN,
         Peek(expr, pos) \notin {Op(sign) : sign \in Signs}
  PROVE  Parse(expr)[depth][5][pos][used] = ParsePrimary(expr, Parse(expr)[depth - 1], pos, used)
BY UnaryMade DEF ParseUnary

LEMMA ParenParsed ==
  ASSUME NEW y \in Seq(Tokens), y # <<>>, NEW a, NEW lookup, Parsed(0, y, a, lookup)
  PROVE  Parsed(5, <<Op("(")>> \o y \o <<Op(")")>>, a, lookup)
<1> DEFINE open == <<Op("(")>> \o y
           text == open \o <<Op(")")>>
<1>0. /\ Op("(") \in Tokens /\ <<Op("(")>> \in Seq(Tokens) /\ Len(<<Op("(")>>) = 1
      /\ Op(")") \in Tokens /\ <<Op(")")>> \in Seq(Tokens) /\ Len(<<Op(")")>>) = 1
  <2>1. Op("(") \in Tokens /\ Op(")") \in Tokens
    BY Ops DEF Words
  <2> QED BY <2>1
<1>1. Len(open) = 1 + Len(y) /\ Len(y) \in Nat /\ Len(y) > 0 /\ open \in Seq(Tokens)
  BY <1>0, EmptySeq
<1> HIDE DEF open
<1>2. Len(text) = Len(open) + 1 /\ text \in Seq(Tokens)
  BY <1>0, <1>1
<1> HIDE DEF text
<1> SUFFICES ASSUME NEW expr, NEW pos, NEW depth, NEW used \in BOOLEAN, expr.lookup = lookup,
                    Stands(text, expr, pos), Room(5, text, expr, depth),
                    Peek(expr, pos + Len(text)) \in Ends(5)
             PROVE  Agrees(Parse(expr)[depth][5][pos][used], a, pos + Len(text), used)
  BY DEF Parsed, text, open
<1>3. /\ Len(expr.tokens) \in Nat /\ Len(text) <= Len(expr.tokens) /\ depth \in Nat /\ pos \in Nat
      /\ depth \in 1..StackDepth(expr) /\ depth - 1 \in 0..StackDepth(expr) /\ pos \in 1..Len(expr.tokens) + 1
      /\ 6 * Len(text) + 5 - 5 <= depth
  <2>1. text # <<>>
    BY <1>1, <1>2, EmptySeq
  <2> QED BY <2>1, RoomLeft
<1>4. Stands(open, expr, pos) /\ Stands(<<Op(")")>>, expr, pos + Len(open))
  BY <1>0, <1>1, PartsStand DEF text
<1>5. Stands(<<Op("(")>>, expr, pos) /\ Stands(y, expr, pos + 1)
  BY <1>0, <1>4, PartsStand DEF open
<1>6. PICK q : q = pos + Len(open)
  OBVIOUS
<1>7. Peek(expr, pos) = Op("(") /\ Peek(expr, q) = Op(")")
  BY <1>0, <1>4, <1>5, <1>6, Single
<1>8. (pos + 1) + Len(y) = q /\ q + 1 = pos + Len(text)
  BY <1>1, <1>2, <1>3, <1>6
<1>9. PICK next : next = Parse(expr)[depth - 1][0][pos + 1][used]
  OBVIOUS
<1>10. Agrees(next, a, q, used)
  <2>1. Room(0, y, expr, depth - 1)
    BY <1>1, <1>2, <1>3 DEF Room
  <2>2. Op(")") \in Ends(0)
    BY DEF Ends
  <2>3. Agrees(next, a, (pos + 1) + Len(y), used)
    BY <1>5, <1>7, <1>8, <1>9, <2>1, <2>2 DEF Parsed
  <2> QED BY <1>8, <2>3
<1>11. PICK s : s = Parse(expr)[depth][5][pos][used]
  OBVIOUS
<1>12. s = Take(expr, next, ")")
  <2>1. Op("(") \notin {Op(sign) : sign \in Signs}
    BY Ops DEF Signs
  <2>2. PICK call : call = Parse(expr)[depth - 1]
    OBVIOUS
  <2>3. Peek(expr, pos) \notin {Op(sign) : sign \in Signs}
    BY <1>7, <2>1
  <2>4. s = ParsePrimary(expr, call, pos, used)
    BY <1>3, <1>11, <2>2, <2>3, PrimaryMade
  <2>5. ParsePrimary(expr, call, pos, used) = Take(expr, call[0][pos + 1][used], ")")
    <3>1. PICK token : token = Peek(expr, pos)
      OBVIOUS
    <3>2. token = Op("(") /\ token.kind = "op"
      BY <1>7, <3>1, Ops
    <3> QED BY <3>1, <3>2 DEF ParsePrimary, Ternary
  <2> QED BY <1>9, <2>2, <2>4, <2>5
<1>13. /\ s.ok <=> next.ok /\ Peek(expr, next.pos) = Op(")")
       /\ s.pos = next.pos + 1 /\ s.value = next.value /\ s.deps = next.deps
  BY <1>12, Expected
<1>14. /\ next.deps = (IF used THEN a.deps ELSE {})
       /\ next.ok <=> (used => a.ok)
       /\ next.ok => next.pos = q
       /\ next.ok /\ used => next.value = a.value
  BY <1>10 DEF Agrees
<1>15. s.ok <=> next.ok
  BY <1>7, <1>13, <1>14
<1>16. s.ok => s.pos = pos + Len(text)
  BY <1>8, <1>13, <1>14
<1> QED BY <1>11, <1>13, <1>14, <1>15, <1>16 DEF Agrees

LEMMA LeafMade ==
  ASSUME NEW t \in Tokens, t.kind # "op", NEW expr, NEW pos, NEW depth, NEW used \in BOOLEAN,
         Stands(<<t>>, expr, pos), Room(5, <<t>>, expr, depth), Peek(expr, pos + 1) \in Ends(5)
  PROVE  /\ Parse(expr)[depth][5][pos][used] = ParsePrimary(expr, Parse(expr)[depth - 1], pos, used)
         /\ Peek(expr, pos) = t /\ Peek(expr, pos + 1) # Op("(")
<1>1. Peek(expr, pos) = t
  BY Single
<1>2. t \notin {Op(sign) : sign \in Signs}
  BY Ops
<1>3. <<t>> # <<>>
  OBVIOUS
<1>4. Len(expr.tokens) \in Nat /\ depth \in 1..StackDepth(expr) /\ pos \in 1..Len(expr.tokens) + 1
  <2>1. PICK text : text = <<t>>
    OBVIOUS
  <2>2. text # <<>> /\ Stands(text, expr, pos) /\ Room(5, text, expr, depth)
    BY <1>3, <2>1
  <2> QED BY <2>2, RoomLeft
<1>5. Parse(expr)[depth][5][pos][used] = ParsePrimary(expr, Parse(expr)[depth - 1], pos, used)
  BY <1>1, <1>2, <1>4, PrimaryMade
<1>6. Peek(expr, pos + 1) # Op("(")
  BY EndsLast
<1> QED BY <1>1, <1>5, <1>6

LeafMeans(meaning, given, read) == meaning.ok /\ meaning.value = given /\ meaning.deps = read

LEMMA Tokened ==
  /\ \A kind, word : Token(kind, word).kind = kind /\ Token(kind, word).word = word
  /\ \A word \in DOMAIN Literals : Token("number", word) \in Tokens
  /\ \A word \in Texts : Token("text", word) \in Tokens
  /\ \A word \in Variables \cup {"min", "max"} : Token("name", word) \in Tokens
BY DEF Token, Tokens

(* An outcome that is a value, read from the variables if it is live.       *)
Finds(s, pos, given, read, used) ==
  /\ s.ok /\ s.pos = pos
  /\ used => s.value = given
  /\ s.deps = IF used THEN read ELSE {}

LEMMA TokenParsed ==
  ASSUME NEW t \in Tokens, t.kind # "op", NEW given, NEW read, NEW lookup, NEW meaning,
         LeafMeans(meaning, given, read),
         \A expr, call, pos : \A used \in BOOLEAN :
           /\ expr.lookup = lookup /\ Peek(expr, pos) = t /\ Peek(expr, pos + 1) # Op("(")
           => Finds(ParsePrimary(expr, call, pos, used), pos + 1, given, read, used)
  PROVE  Parsed(5, <<t>>, meaning, lookup)
<1> SUFFICES ASSUME NEW expr, NEW pos, NEW depth, NEW used \in BOOLEAN, expr.lookup = lookup,
                    Stands(<<t>>, expr, pos), Room(5, <<t>>, expr, depth),
                    Peek(expr, pos + Len(<<t>>)) \in Ends(5)
             PROVE  Agrees(Parse(expr)[depth][5][pos][used], meaning, pos + Len(<<t>>), used)
  BY DEF Parsed
<1>1. Len(<<t>>) = 1
  OBVIOUS
<1>2. Peek(expr, pos + 1) \in Ends(5)
  BY <1>1
<1>3. PICK call : call = Parse(expr)[depth - 1]
  OBVIOUS
<1>4. PICK s : s = ParsePrimary(expr, call, pos, used)
  OBVIOUS
<1>5. Parse(expr)[depth][5][pos][used] = s
  BY <1>2, <1>3, <1>4, LeafMade
<1>6. Peek(expr, pos) = t /\ Peek(expr, pos + 1) # Op("(")
  <2>1. Peek(expr, pos) = t
    BY <1>2, LeafMade
  <2>2. Peek(expr, pos + 1) # Op("(")
    BY <1>2, EndsLast
  <2> QED BY <2>1, <2>2
<1>7. Finds(s, pos + 1, given, read, used)
  BY <1>4, <1>6
<1>8. Agrees(s, meaning, pos + 1, used)
  BY <1>7 DEF Agrees, LeafMeans, Finds
<1> QED BY <1>1, <1>5, <1>8

LEMMA NumberParsed ==
  ASSUME NEW word \in DOMAIN Literals, NEW lookup, NEW meaning,
         LeafMeans(meaning, Number(Literals[word]), {})
  PROVE  Parsed(5, <<Token("number", word)>>, meaning, lookup)
<1>1. PICK t : t = Token("number", word)
  OBVIOUS
<1>2. t \in Tokens /\ t.kind = "number" /\ t.word = word
  BY <1>1, Tokened
<1>3. ASSUME NEW expr, NEW call, NEW pos, NEW used, Peek(expr, pos) = t
      PROVE  ParsePrimary(expr, call, pos, used) = Outcome(TRUE, pos + 1, Number(Literals[word]), {})
  <2>1. t # Op("(")
    BY <1>2, Ops
  <2> QED BY <1>2, <1>3, <2>1 DEF ParsePrimary
<1>4. \A expr, call, pos : \A used \in BOOLEAN :
        /\ expr.lookup = lookup /\ Peek(expr, pos) = t /\ Peek(expr, pos + 1) # Op("(")
        => Finds(ParsePrimary(expr, call, pos, used), pos + 1, Number(Literals[word]), {}, used)
  BY <1>3 DEF Outcome, Finds
<1>5. t.kind # "op"
  BY <1>2
<1>6. Parsed(5, <<t>>, meaning, lookup)
  BY <1>2, <1>4, <1>5, TokenParsed
<1> QED BY <1>1, <1>6

LEMMA TextParsed ==
  ASSUME NEW word \in Texts, NEW lookup, NEW meaning, LeafMeans(meaning, Text(word), {})
  PROVE  Parsed(5, <<Token("text", word)>>, meaning, lookup)
<1>1. PICK t : t = Token("text", word)
  OBVIOUS
<1>2. t \in Tokens /\ t.kind = "text" /\ t.word = word
  BY <1>1, Tokened
<1>3. ASSUME NEW expr, NEW call, NEW pos, NEW used, Peek(expr, pos) = t
      PROVE  ParsePrimary(expr, call, pos, used) = Outcome(TRUE, pos + 1, Text(word), {})
  <2>1. t # Op("(")
    BY <1>2, Ops
  <2> QED BY <1>2, <1>3, <2>1 DEF ParsePrimary
<1>4. \A expr, call, pos : \A used \in BOOLEAN :
        /\ expr.lookup = lookup /\ Peek(expr, pos) = t /\ Peek(expr, pos + 1) # Op("(")
        => Finds(ParsePrimary(expr, call, pos, used), pos + 1, Text(word), {}, used)
  BY <1>3 DEF Outcome, Finds
<1>5. t.kind # "op"
  BY <1>2
<1>6. Parsed(5, <<t>>, meaning, lookup)
  BY <1>2, <1>4, <1>5, TokenParsed
<1> QED BY <1>1, <1>6

LEMMA NameParsed ==
  ASSUME NEW v \in Variables, NEW lookup, NEW meaning,
         LeafMeans(meaning, IF v \in DOMAIN lookup THEN lookup[v] ELSE Text(""), {v})
  PROVE  Parsed(5, <<Token("name", v)>>, meaning, lookup)
<1>1. PICK t, given : t = Token("name", v) /\ given = IF v \in DOMAIN lookup THEN lookup[v] ELSE Text("")
  OBVIOUS
<1>2. t \in Tokens /\ t.kind = "name" /\ t.word = v
  BY <1>1, Tokened
<1>3. ASSUME NEW expr, NEW call, NEW pos, NEW used, Peek(expr, pos) = t, Peek(expr, pos + 1) # Op("(")
      PROVE  ParsePrimary(expr, call, pos, used) = ReadVariable(expr, v, pos + 1, used)
  <2>1. t # Op("(")
    BY <1>2, Ops
  <2> QED BY <1>2, <1>3, <2>1 DEF ParsePrimary
<1>4. ASSUME NEW expr, NEW pos, NEW used \in BOOLEAN, expr.lookup = lookup
      PROVE  Finds(ReadVariable(expr, v, pos, used), pos, given, {v}, used)
  BY <1>1, <1>4 DEF ReadVariable, Outcome, Finds
<1>5. \A expr, call, pos : \A used \in BOOLEAN :
        /\ expr.lookup = lookup /\ Peek(expr, pos) = t /\ Peek(expr, pos + 1) # Op("(")
        => Finds(ParsePrimary(expr, call, pos, used), pos + 1, given, {v}, used)
  <2> SUFFICES ASSUME NEW expr, NEW call, NEW pos, NEW used \in BOOLEAN, expr.lookup = lookup,
                      Peek(expr, pos) = t, Peek(expr, pos + 1) # Op("(")
               PROVE  Finds(ParsePrimary(expr, call, pos, used), pos + 1, given, {v}, used)
    OBVIOUS
  <2>1. ParsePrimary(expr, call, pos, used) = ReadVariable(expr, v, pos + 1, used)
    BY <1>3
  <2>2. PICK next : next = pos + 1
    OBVIOUS
  <2>3. Finds(ReadVariable(expr, v, next, used), next, given, {v}, used)
    BY <1>4
  <2> QED BY <2>1, <2>2, <2>3
<1>6. t.kind # "op" /\ LeafMeans(meaning, given, {v})
  BY <1>1, <1>2
<1>7. Parsed(5, <<t>>, meaning, lookup)
  BY <1>2, <1>5, <1>6, TokenParsed
<1> QED BY <1>1, <1>7

-----------------------------------------------------------------------------
(* min and max.                                                             *)
FunctionMeans(name, a, b, meaning) ==
  /\ meaning.ok <=> a.ok /\ a.value.isNumber /\ b.ok /\ b.value.isNumber
  /\ meaning.ok => meaning.value = Extremum(name, a.value, b.value)
  /\ meaning.deps = a.deps \cup IF a.ok THEN b.deps ELSE {}

LEMMA FunctionAgrees ==
  ASSUME NEW name, NEW a, NEW b, NEW meaning, FunctionMeans(name, a, b, meaning),
         NEW expr, NEW call, NEW used \in BOOLEAN, NEW pos, NEW p, NEW q,
         Peek(expr, pos).word = name,
         Agrees(call[0][pos + 2][used], a, p, used), Peek(expr, p) = Op(","),
         Agrees(call[0][p + 1][used], b, q, used), Peek(expr, q) = Op(")")
  PROVE  Agrees(ParseCall(expr, call, pos, used), meaning, q + 1, used)
<1>1. PICK first, next : first = call[0][pos + 2][used] /\ next = call[0][p + 1][used]
  OBVIOUS
<1>2. PICK comma : comma = Take(expr, first, ",")
  OBVIOUS
<1>3. PICK second : second = Call(call, 0, comma, used)
  OBVIOUS
<1>4. PICK close : close = Take(expr, second, ")")
  OBVIOUS
<1>5. PICK one : one = RequireNumber(close, first.value, used)
  OBVIOUS
<1>6. PICK two : two = RequireNumber(one, second.value, used)
  OBVIOUS
<1>7. PICK given : given = Extremum(name, first.value, second.value)
  OBVIOUS
<1>8. PICK s : s = Yield(two, given)
  OBVIOUS
<1>9. ParseCall(expr, call, pos, used) = s
  BY <1>1, <1>2, <1>3, <1>4, <1>5, <1>6, <1>7, <1>8 DEF ParseCall, Ternary
<1>10. /\ s.ok <=> close.ok /\ (used => first.value.isNumber) /\ (used => second.value.isNumber)
       /\ s.pos = close.pos /\ s.deps = close.deps /\ s.value = given
  <2>1. /\ one.ok <=> close.ok /\ (used => first.value.isNumber)
        /\ one.pos = close.pos /\ one.deps = close.deps
    BY <1>5, Required
  <2>2. /\ two.ok <=> one.ok /\ (used => second.value.isNumber)
        /\ two.pos = one.pos /\ two.deps = one.deps
    BY <1>6, Required
  <2>3. /\ s.ok <=> two.ok
        /\ s.pos = two.pos /\ s.deps = two.deps /\ s.value = given
    BY <1>8, Yielded
  <2> QED BY <2>1, <2>2, <2>3
<1>11. /\ first.deps = (IF used THEN a.deps ELSE {})
       /\ first.ok <=> (used => a.ok)
       /\ first.ok => first.pos = p
       /\ first.ok /\ used => first.value = a.value
  BY <1>1 DEF Agrees
<1>12. /\ next.deps = (IF used THEN b.deps ELSE {})
       /\ next.ok <=> (used => b.ok)
       /\ next.ok => next.pos = q
       /\ next.ok /\ used => next.value = b.value
  BY <1>1 DEF Agrees
<1>13. /\ comma.ok <=> first.ok /\ Peek(expr, first.pos) = Op(",")
       /\ comma.pos = first.pos + 1 /\ comma.deps = first.deps
  <2>1. PICK other : other = (first.ok /\ Peek(expr, first.pos) # Op(","))
    OBVIOUS
  <2>2. comma = [ok |-> first.ok /\ ~other, pos |-> first.pos + 1, value |-> first.value, deps |-> first.deps]
    BY <1>2, <2>1 DEF Take, FailIf, Skip, Outcome
  <2> QED BY <2>1, <2>2
<1>14. /\ close.ok <=> second.ok /\ Peek(expr, second.pos) = Op(")")
       /\ close.pos = second.pos + 1 /\ close.deps = second.deps
  <2>1. PICK other : other = (second.ok /\ Peek(expr, second.pos) # Op(")"))
    OBVIOUS
  <2>2. close = [ok |-> second.ok /\ ~other, pos |-> second.pos + 1, value |-> second.value, deps |-> second.deps]
    BY <1>4, <2>1 DEF Take, FailIf, Skip, Outcome
  <2> QED BY <2>1, <2>2
<1>15. /\ ~comma.ok => second = comma
       /\ comma.ok => /\ second.ok <=> call[0][comma.pos][used].ok
                      /\ second.pos = call[0][comma.pos][used].pos
                      /\ second.value = call[0][comma.pos][used].value
                      /\ second.deps = comma.deps \cup call[0][comma.pos][used].deps
  BY <1>3 DEF Call, Outcome
<1>16. CASE ~first.ok
  <2>1. used /\ ~a.ok
    BY <1>11, <1>16
  <2>2. ~s.ok /\ s.deps = a.deps
    BY <1>10, <1>11, <1>13, <1>14, <1>15, <1>16, <2>1
  <2>3. ~meaning.ok /\ meaning.deps = a.deps
    BY <2>1 DEF FunctionMeans
  <2> QED BY <1>9, <2>1, <2>2, <2>3 DEF Agrees
<1>17. CASE first.ok
  <2>1. comma.ok /\ comma.pos = p + 1 /\ comma.deps = first.deps
    BY <1>11, <1>13, <1>17
  <2>2. /\ second.ok <=> next.ok
        /\ second.pos = next.pos /\ second.value = next.value
        /\ second.deps = first.deps \cup next.deps
    BY <1>1, <1>15, <2>1
  <2>3. close.ok <=> next.ok
    BY <1>12, <1>14, <2>2
  <2>4. s.deps = first.deps \cup next.deps /\ s.value = given
    BY <1>10, <1>14, <2>2
  <2>5. s.ok => s.pos = q + 1
    BY <1>10, <1>12, <1>14, <2>2, <2>3
  <2>6. CASE ~used
    <3>1. s.ok /\ s.pos = q + 1 /\ s.deps = {}
      BY <1>10, <1>11, <1>12, <2>3, <2>4, <2>5, <2>6
    <3> QED BY <1>9, <2>6, <3>1 DEF Agrees
  <2>7. CASE used
    <3>1. a.ok /\ first.value = a.value
      BY <1>11, <1>17, <2>7
    <3>2. /\ s.deps = a.deps \cup b.deps
          /\ s.ok <=> b.ok /\ a.value.isNumber /\ b.value.isNumber
          /\ s.ok => given = Extremum(name, a.value, b.value)
      <4>1. s.deps = a.deps \cup b.deps
        BY <1>11, <1>12, <2>4, <2>7
      <4>2. s.ok <=> next.ok /\ a.value.isNumber /\ second.value.isNumber
        BY <1>10, <2>3, <2>7, <3>1
      <4>3. next.ok <=> b.ok
        BY <1>12, <2>7
      <4>4. next.ok => second.value = b.value
        BY <1>12, <2>2, <2>7
      <4> QED BY <1>7, <3>1, <4>1, <4>2, <4>3, <4>4
    <3>3. /\ meaning.deps = a.deps \cup b.deps
          /\ meaning.ok <=> a.value.isNumber /\ b.ok /\ b.value.isNumber
          /\ meaning.ok => meaning.value = Extremum(name, a.value, b.value)
      BY <3>1 DEF FunctionMeans
    <3> QED BY <1>9, <2>4, <2>5, <2>7, <3>2, <3>3 DEF Agrees
  <2> QED BY <2>6, <2>7
<1> QED BY <1>16, <1>17

LEMMA Separated ==
  ASSUME NEW a \in Seq(Tokens), NEW t \in Tokens, NEW b \in Seq(Tokens), NEW expr, NEW pos,
         Stands(a \o <<t>> \o b, expr, pos), NEW p, p = pos + Len(a)
  PROVE  Stands(a, expr, pos) /\ Peek(expr, p) = t /\ Stands(b, expr, p + 1)
BY Split

LEMMA FunctionParsed ==
  ASSUME NEW name \in {"min", "max"}, NEW x \in Seq(Tokens), NEW y \in Seq(Tokens),
         x # <<>>, y # <<>>, NEW lookup,
         NEW a, NEW b, NEW meaning, FunctionMeans(name, a, b, meaning),
         Parsed(0, x, a, lookup), Parsed(0, y, b, lookup)
  PROVE  Parsed(5, <<Token("name", name), Op("(")>> \o x \o <<Op(",")>> \o y \o <<Op(")")>>,
                meaning, lookup)
<1> DEFINE start == <<Token("name", name), Op("(")>>
           head == start \o x
           body == head \o <<Op(",")>> \o y
           text == body \o <<Op(")")>>
<1> HIDE DEF start, head, body, text
<1>0. /\ Token("name", name) \in Tokens /\ Op("(") \in Tokens /\ Op(",") \in Tokens /\ Op(")") \in Tokens
      /\ Len(x) \in Nat /\ Len(y) \in Nat /\ Len(x) > 0 /\ Len(y) > 0
  <2>1. Op("(") \in Tokens /\ Op(",") \in Tokens /\ Op(")") \in Tokens
    BY Ops DEF Words
  <2>2. Token("name", name) \in Tokens
    BY Tokened
  <2>3. Len(x) \in Nat /\ Len(y) \in Nat /\ Len(x) > 0 /\ Len(y) > 0
    BY EmptySeq
  <2> QED BY <2>1, <2>2, <2>3
<1>1. /\ start \in Seq(Tokens) /\ Len(start) = 2
      /\ start[1] = Token("name", name) /\ start[2] = Op("(")
  <2>1. PICK t, o : t = Token("name", name) /\ o = Op("(")
    OBVIOUS
  <2>2. start = <<t, o>>
    BY <2>1 DEF start
  <2>3. t \in Tokens /\ o \in Tokens
    BY <1>0, <2>1
  <2>4. start \in Seq(Tokens) /\ Len(start) = 2 /\ start[1] = t /\ start[2] = o
    BY <2>2, <2>3
  <2> QED BY <2>1, <2>4
<1>2. head \in Seq(Tokens) /\ Len(head) = 2 + Len(x)
  <2>1. start \in Seq(Tokens) /\ Len(start) = 2
    BY <1>1
  <2>2. start \o x \in Seq(Tokens) /\ Len(start \o x) = Len(start) + Len(x)
    BY <2>1, ConcatProperties
  <2> QED BY <2>1, <2>2 DEF head
<1>3. body \in Seq(Tokens) /\ Len(body) = Len(head) + 1 + Len(y)
  <2>1. PICK o : o = Op(",")
    OBVIOUS
  <2>2. o \in Tokens
    BY <1>0, <2>1
  <2>3. head \o <<o>> \in Seq(Tokens) /\ Len(head \o <<o>>) = Len(head) + 1
    BY <1>2, <2>2
  <2>4. (head \o <<o>>) \o y \in Seq(Tokens) /\ Len((head \o <<o>>) \o y) = Len(head) + 1 + Len(y)
    BY <2>3
  <2> QED BY <2>1, <2>4 DEF body
<1>4. /\ <<Op(")")>> \in Seq(Tokens) /\ text \in Seq(Tokens)
      /\ Len(<<Op(")")>>) = 1 /\ Len(text) = Len(body) + 1
  <2>1. PICK o : o = Op(")")
    OBVIOUS
  <2>2. o \in Tokens
    BY <1>0, <2>1
  <2>3. <<o>> \in Seq(Tokens) /\ Len(<<o>>) = 1
    BY <2>2
  <2>4. text = body \o <<o>>
    BY <2>1 DEF text
  <2>5. text \in Seq(Tokens) /\ Len(text) = Len(body) + 1
    BY <1>3, <2>3, <2>4
  <2> QED BY <2>1, <2>3, <2>5
<1>21. /\ Len(x) \in Nat /\ Len(y) \in Nat /\ Len(x) > 0 /\ Len(y) > 0
       /\ Len(head) = 2 + Len(x) /\ Len(body) = 3 + Len(x) + Len(y)
       /\ Len(text) = 4 + Len(x) + Len(y)
  <2>1. Len(x) \in Nat /\ Len(y) \in Nat /\ Len(x) > 0 /\ Len(y) > 0
    BY <1>0
  <2>2. Len(head) = 2 + Len(x)
    BY <1>2
  <2>3. Len(body) = Len(head) + 1 + Len(y)
    BY <1>3
  <2>4. Len(text) = Len(body) + 1
    BY <1>4
  <2> QED BY <2>1, <2>2, <2>3, <2>4
<1> SUFFICES ASSUME NEW expr, NEW pos, NEW depth, NEW used \in BOOLEAN, expr.lookup = lookup,
                    Stands(text, expr, pos), Room(5, text, expr, depth),
                    Peek(expr, pos + Len(text)) \in Ends(5)
             PROVE  Agrees(Parse(expr)[depth][5][pos][used], meaning, pos + Len(text), used)
  BY DEF Parsed, text, body, head, start
<1>5. /\ Len(expr.tokens) \in Nat /\ Len(text) <= Len(expr.tokens) /\ depth \in Nat /\ pos \in Nat
      /\ depth \in 1..StackDepth(expr) /\ depth - 1 \in 0..StackDepth(expr) /\ pos \in 1..Len(expr.tokens) + 1
      /\ 6 * Len(text) + 5 - 5 <= depth
  <2>1. text # <<>>
    <3>1. text \in Seq(Tokens) /\ Len(text) # 0
      BY <1>4, <1>21
    <3> QED BY <3>1, EmptySeq
  <2> QED BY <2>1, RoomLeft
<1>6. PICK p, q : p = pos + Len(head) /\ q = pos + Len(body)
  OBVIOUS
<1>7. /\ (pos + 2) + Len(x) = p /\ (p + 1) + Len(y) = q /\ q + 1 = pos + Len(text)
  BY <1>5, <1>6, <1>21
<1>8. Stands(body, expr, pos) /\ Stands(<<Op(")")>>, expr, q)
  BY <1>3, <1>4, <1>6, PartsStand DEF text
<1>9. Peek(expr, q) = Op(")")
  BY <1>0, <1>8, Single
<1>10. Stands(head, expr, pos) /\ Peek(expr, p) = Op(",") /\ Stands(y, expr, p + 1)
  <2>1. Stands(head \o <<Op(",")>> \o y, expr, pos)
    BY <1>8 DEF body
  <2>2. head \in Seq(Tokens) /\ Op(",") \in Tokens
    BY <1>0, <1>2
  <2>3. p = pos + Len(head)
    BY <1>6
  <2>4. PICK o \in Tokens : o = Op(",")
    BY <2>2
  <2>5. PICK h \in Seq(Tokens) : h = head
    BY <2>2
  <2>6. Stands(h \o <<o>> \o y, expr, pos) /\ p = pos + Len(h)
    BY <2>1, <2>3, <2>4, <2>5
  <2>7. Stands(h, expr, pos)
    BY <2>6, Separated
  <2>8. Peek(expr, p) = o
    BY <2>6, Separated
  <2>9. Stands(y, expr, p + 1)
    BY <2>6, Separated
  <2> QED BY <2>4, <2>5, <2>7, <2>8, <2>9
<1>11. Stands(start, expr, pos) /\ Stands(x, expr, pos + 2)
  <2>1. Stands(start, expr, pos) /\ Stands(x, expr, pos + Len(start))
    BY <1>1, <1>10, PartsStand DEF head
  <2> QED BY <1>1, <2>1
<1>12. Peek(expr, pos) = Token("name", name) /\ Peek(expr, pos + 1) = Op("(")
  <2>1. /\ pos + Len(start) <= Len(expr.tokens) + 1
        /\ \A i \in 1..Len(start) : expr.tokens[pos + i - 1] = start[i]
    BY <1>11 DEF Stands
  <2>2. pos <= Len(expr.tokens) /\ pos + 1 <= Len(expr.tokens)
    BY <1>1, <1>5, <2>1
  <2>3. expr.tokens[pos + 1 - 1] = start[1] /\ expr.tokens[pos + 2 - 1] = start[2]
    <3>1. 1 \in 1..Len(start) /\ 2 \in 1..Len(start)
      BY <1>1
    <3> QED BY <2>1, <3>1, Zenon
  <2>4. pos + 1 - 1 = pos /\ pos + 2 - 1 = pos + 1
    BY <1>5
  <2>5. expr.tokens[pos] = start[1] /\ expr.tokens[pos + 1] = start[2]
    BY <2>3, <2>4
  <2> QED BY <1>1, <2>2, <2>5 DEF Peek
<1>13. PICK call : call = Parse(expr)[depth - 1]
  OBVIOUS
<1>14. Agrees(call[0][pos + 2][used], a, p, used)
  <2>1. Room(0, x, expr, depth - 1)
    BY <1>5, <1>21 DEF Room
  <2>2. Op(",") \in Ends(0)
    BY DEF Ends
  <2>3. Agrees(call[0][pos + 2][used], a, (pos + 2) + Len(x), used)
    BY <1>7, <1>10, <1>11, <1>13, <2>1, <2>2 DEF Parsed
  <2> QED BY <1>7, <2>3
<1>15. Agrees(call[0][p + 1][used], b, q, used)
  <2>1. Room(0, y, expr, depth - 1)
    BY <1>5, <1>21 DEF Room
  <2>2. Op(")") \in Ends(0)
    BY DEF Ends
  <2>3. Agrees(call[0][p + 1][used], b, (p + 1) + Len(y), used)
    BY <1>7, <1>9, <1>10, <1>13, <2>1, <2>2 DEF Parsed
  <2> QED BY <1>7, <2>3
<1>16. Agrees(ParseCall(expr, call, pos, used), meaning, q + 1, used)
  <2>1. Peek(expr, pos).word = name
    BY <1>12, Tokened
  <2> QED BY <1>9, <1>10, <1>14, <1>15, <2>1, FunctionAgrees
<1>17. PICK t : t = Token("name", name)
  OBVIOUS
<1>18. t.kind = "name" /\ t # Op("(")
  BY <1>17, Tokened, Ops
<1>19. Parse(expr)[depth][5][pos][used] = ParsePrimary(expr, call, pos, used)
  <2>1. Peek(expr, pos) \notin {Op(sign) : sign \in Signs}
    BY <1>12, <1>17, <1>18, Ops
  <2> QED BY <1>5, <1>13, <2>1, PrimaryMade
<1>20. ParsePrimary(expr, call, pos, used) = ParseCall(expr, call, pos, used)
  <2>1. Peek(expr, pos) = t
    BY <1>12, <1>17
  <2> QED BY <1>12, <1>18, <2>1 DEF ParsePrimary
<1> QED BY <1>7, <1>16, <1>19, <1>20

LEMMA LimitIsExtremum ==
  ASSUME NEW name \in {"min", "max"}, NEW v, NEW w, v.isNumber, w.isNumber,
         v.number \in Int, w.number \in Int
  PROVE  Number(Limit(name, {v.number, w.number})) = Extremum(name, v, w)
<1>1. PICK x \in Int, y \in Int : x = v.number /\ y = w.number
  OBVIOUS
<1>2. PICK m : m = IF (name = "min") = (x < y) THEN x ELSE y
  OBVIOUS
<1>3. m \in {x, y} /\ \A n \in {x, y} : IF name = "min" THEN m <= n ELSE m >= n
  BY <1>2
<1>4. \A k \in {x, y} : (\A n \in {x, y} : IF name = "min" THEN k <= n ELSE k >= n) => k = m
  BY <1>2
<1>5. Limit(name, {x, y}) = m
  BY <1>3, <1>4 DEF Limit
<1>6. AsNumber(v) = x /\ AsNumber(w) = y
  BY <1>1 DEF AsNumber
<1> QED BY <1>1, <1>2, <1>5, <1>6 DEF Extremum

-----------------------------------------------------------------------------
(* Operands of the stack are parsed as what they mean.                      *)
LEMMA Lower ==
  ASSUME NEW text, text # <<>>, NEW meaning, NEW lookup
  PROVE  /\ Parsed(5, text, meaning, lookup) => Taken(4, text, meaning, lookup)
         /\ Taken(4, text, meaning, lookup) => /\ Parsed(4, text, meaning, lookup)
                                               /\ Taken(3, text, meaning, lookup)
         /\ Taken(3, text, meaning, lookup) => /\ Parsed(3, text, meaning, lookup)
                                               /\ Taken(2, text, meaning, lookup)
         /\ Taken(2, text, meaning, lookup) => /\ Parsed(2, text, meaning, lookup)
                                               /\ Taken(1, text, meaning, lookup)
         /\ Taken(1, text, meaning, lookup) => /\ Parsed(1, text, meaning, lookup)
                                               /\ Parsed(0, text, meaning, lookup)
<1>1. ASSUME NEW level \in 1..4, Taken(level, text, meaning, lookup)
      PROVE  Parsed(level, text, meaning, lookup)
  BY <1>1, TurnsEnd
<1>2. ASSUME NEW level \in 1..4, NEW next, next = level + 1, Parsed(next, text, meaning, lookup)
      PROVE  Taken(level, text, meaning, lookup)
  <2>1. Parsed(level + 1, text, meaning, lookup)
    BY <1>2
  <2> QED BY <2>1, TurnsStart
<1>3. /\ 1 \in 1..4 /\ 2 \in 1..4 /\ 3 \in 1..4 /\ 4 \in 1..4
      /\ 5 = 4 + 1 /\ 4 = 3 + 1 /\ 3 = 2 + 1 /\ 2 = 1 + 1
  OBVIOUS
<1>4. Parsed(5, text, meaning, lookup) => Taken(4, text, meaning, lookup)
  BY <1>2, <1>3
<1>5. Taken(4, text, meaning, lookup) => Parsed(4, text, meaning, lookup)
  BY <1>1, <1>3
<1>6. Parsed(4, text, meaning, lookup) => Taken(3, text, meaning, lookup)
  BY <1>2, <1>3
<1>7. Taken(3, text, meaning, lookup) => Parsed(3, text, meaning, lookup)
  BY <1>1, <1>3
<1>8. Parsed(3, text, meaning, lookup) => Taken(2, text, meaning, lookup)
  BY <1>2, <1>3
<1>9. Taken(2, text, meaning, lookup) => Parsed(2, text, meaning, lookup)
  BY <1>1, <1>3
<1>10. Parsed(2, text, meaning, lookup) => Taken(1, text, meaning, lookup)
  BY <1>2, <1>3
<1>11. Taken(1, text, meaning, lookup) => Parsed(1, text, meaning, lookup)
  BY <1>1, <1>3
<1>12. Parsed(1, text, meaning, lookup) => Parsed(0, text, meaning, lookup)
  BY NotConditional
<1> QED BY <1>4, <1>5, <1>6, <1>7, <1>8, <1>9, <1>10, <1>11, <1>12

(* A text at its own level of the grammar.                                  *)
Own(level, text, meaning, lookup) ==
  CASE level = 0 -> Parsed(0, text, meaning, lookup)
    [] level \in 1..4 -> Taken(level, text, meaning, lookup)
    [] OTHER -> Parsed(5, text, meaning, lookup)

(* A text at a level, as an operand on either side of an operator.          *)
Parses(level, text, meaning, lookup) ==
  /\ text \in Seq(Tokens) /\ text # <<>>
  /\ Parsed(level, text, meaning, lookup)
  /\ level \in 1..4 => Taken(level, text, meaning, lookup)

LEMMA OwnAt ==
  ASSUME NEW own \in 0..6, NEW level \in 0..5, level <= own, NEW text \in Seq(Tokens), text # <<>>,
         NEW meaning, NEW lookup, Own(own, text, meaning, lookup)
  PROVE  Parses(level, text, meaning, lookup)
<1>0. own = 0 \/ own = 1 \/ own = 2 \/ own = 3 \/ own = 4 \/ own = 5 \/ own = 6
  OBVIOUS
<1>1. /\ own = 0 => Parsed(0, text, meaning, lookup)
      /\ own = 1 => Taken(1, text, meaning, lookup)
      /\ own = 2 => Taken(2, text, meaning, lookup)
      /\ own = 3 => Taken(3, text, meaning, lookup)
      /\ own = 4 => Taken(4, text, meaning, lookup)
      /\ own = 5 \/ own = 6 => Parsed(5, text, meaning, lookup)
  BY DEF Own
<1>2. CASE level = 0
  <2>1. Parsed(0, text, meaning, lookup)
    BY <1>0, <1>1, Lower
  <2> QED BY <1>2, <2>1 DEF Parses
<1>3. CASE level = 1
  <2>1. Parsed(1, text, meaning, lookup) /\ Taken(1, text, meaning, lookup)
    BY <1>0, <1>1, <1>3, Lower
  <2> QED BY <1>3, <2>1 DEF Parses
<1>4. CASE level = 2
  <2>1. Parsed(2, text, meaning, lookup) /\ Taken(2, text, meaning, lookup)
    BY <1>0, <1>1, <1>4, Lower
  <2> QED BY <1>4, <2>1 DEF Parses
<1>5. CASE level = 3
  <2>1. Parsed(3, text, meaning, lookup) /\ Taken(3, text, meaning, lookup)
    BY <1>0, <1>1, <1>5, Lower
  <2> QED BY <1>5, <2>1 DEF Parses
<1>6. CASE level = 4
  <2>1. Parsed(4, text, meaning, lookup) /\ Taken(4, text, meaning, lookup)
    BY <1>0, <1>1, <1>6, Lower
  <2> QED BY <1>6, <2>1 DEF Parses
<1>7. CASE level = 5
  <2>1. Parsed(5, text, meaning, lookup)
    BY <1>0, <1>1, <1>7
  <2> QED BY <1>7, <2>1 DEF Parses
<1> QED BY <1>2, <1>3, <1>4, <1>5, <1>6, <1>7

(* A bare name means its value.                                             *)
NamesVariable(e, lookup) ==
  Len(e.tokens) = 1 /\ e.tokens[1].kind = "name" =>
    LeafMeans(e.meaning, IF e.tokens[1].word \in DOMAIN lookup THEN lookup[e.tokens[1].word] ELSE Text(""),
              {e.tokens[1].word})

Correct(e, lookup) ==
  /\ e.level \in 0..6 /\ e.tokens \in Seq(Tokens) /\ e.tokens # <<>>
  /\ e.meaning.ok \in BOOLEAN /\ e.meaning.value.number \in Int
  /\ Own(e.level, e.tokens, e.meaning, lookup)
  /\ NamesVariable(e, lookup)

LEMMA ShownAt ==
  ASSUME NEW e, NEW lookup, Correct(e, lookup), NEW level \in 0..5
  PROVE  Parses(level, Shown(e, level), e.meaning, lookup)
<1>1. PICK own \in 0..6, text \in Seq(Tokens) : own = e.level /\ text = e.tokens
  BY DEF Correct
<1>5. PICK meaning : meaning = e.meaning
  OBVIOUS
<1>2. text # <<>> /\ Own(own, text, meaning, lookup)
  BY <1>1, <1>5 DEF Correct
<1>3. CASE level <= own
  <2>1. Shown(e, level) = text
    BY <1>1, <1>3 DEF Shown
  <2>2. Parses(level, text, meaning, lookup)
    BY <1>2, <1>3, OwnAt
  <2> QED BY <1>1, <1>5, <2>1, <2>2
<1>4. CASE ~(level <= own)
  <2>1. PICK paren : paren = <<Op("(")>> \o text \o <<Op(")")>>
    OBVIOUS
  <2>2. Shown(e, level) = paren
    <3>1. own < level
      BY <1>4
    <3> QED BY <1>1, <1>5, <2>1, <3>1 DEF Shown
  <2>3. Parsed(5, paren, meaning, lookup)
    <3>1. 0 \in 0..5 /\ 0 <= own
      OBVIOUS
    <3>2. Parsed(0, text, meaning, lookup)
      BY <1>2, <3>1, OwnAt DEF Parses
    <3> QED BY <1>2, <2>1, <3>2, ParenParsed
  <2>4. paren \in Seq(Tokens) /\ paren # <<>>
    <3>1. PICK o, c : o = Op("(") /\ c = Op(")")
      OBVIOUS
    <3>2. o \in Tokens /\ c \in Tokens
      BY <3>1, Ops DEF Words
    <3>3. <<o>> \o text \in Seq(Tokens) /\ Len(<<o>> \o text) = 1 + Len(text)
      BY <3>2
    <3>4. paren \in Seq(Tokens) /\ Len(paren) = Len(<<o>> \o text) + 1
      BY <2>1, <3>1, <3>2, <3>3
    <3>5. Len(paren) # 0
      BY <3>3, <3>4
    <3> QED BY <3>4, <3>5, EmptySeq
  <2>5. Own(5, paren, meaning, lookup)
    BY <2>3 DEF Own
  <2>6. 5 \in 0..6 /\ level <= 5
    OBVIOUS
  <2>7. Parses(level, paren, meaning, lookup)
    BY <2>4, <2>5, <2>6, OwnAt
  <2> QED BY <1>1, <1>5, <2>2, <2>7
<1> QED BY <1>3, <1>4

LEMMA Composed ==
  ASSUME NEW level \in 0..6, NEW text \in Seq(Tokens), NEW meaning, NEW lookup,
         text # <<>>, Len(text) # 1,
         meaning.ok \in BOOLEAN, meaning.value.number \in Int, Own(level, text, meaning, lookup)
  PROVE  Correct(Operand(level, text, meaning), lookup)
<1>1. PICK e : e = Operand(level, text, meaning)
  OBVIOUS
<1>2. e.level = level /\ e.tokens = text /\ e.meaning = meaning
  BY <1>1 DEF Operand
<1> QED BY <1>1, <1>2 DEF Correct, NamesVariable

LEMMA Binary ==
  ASSUME NEW x \in Seq(Tokens), NEW y \in Seq(Tokens), x # <<>>, y # <<>>, NEW t \in Tokens
  PROVE  /\ x \o <<t>> \o y \in Seq(Tokens) /\ x \o <<t>> \o y # <<>>
         /\ Len(x \o <<t>> \o y) # 1
<1>1. Len(x) \in Nat /\ Len(y) \in Nat /\ Len(x) > 0 /\ Len(y) > 0
  BY EmptySeq
<1>2. x \o <<t>> \in Seq(Tokens) /\ Len(x \o <<t>>) = Len(x) + 1
  OBVIOUS
<1>3. (x \o <<t>>) \o y \in Seq(Tokens) /\ Len((x \o <<t>>) \o y) = Len(x) + 1 + Len(y)
  BY <1>2
<1>4. Len((x \o <<t>>) \o y) # 0 /\ Len((x \o <<t>>) \o y) # 1
  BY <1>1, <1>3
<1> QED BY <1>3, <1>4, EmptySeq

LEMMA OperatorCorrect ==
  ASSUME NEW level \in 1..4, NEW op \in Levels[level], NEW a, NEW b, NEW lookup,
         Correct(a, lookup), Correct(b, lookup), NEW meaning,
         meaning.ok \in BOOLEAN, meaning.value.number \in Int,
         Joins(level, op, a.meaning, b.meaning, meaning)
  PROVE  Correct(Operand(level, Shown(a, level) \o <<Op(op)>> \o Shown(b, level + 1), meaning), lookup)
<1>1. PICK x, y : x = Shown(a, level) /\ y = Shown(b, level + 1)
  OBVIOUS
<1>2. Parses(level, x, a.meaning, lookup) /\ Parses(level + 1, y, b.meaning, lookup)
  <2>1. level \in 0..5 /\ level + 1 \in 0..5
    OBVIOUS
  <2> QED BY <1>1, <2>1, ShownAt
<1>3. /\ x \in Seq(Tokens) /\ x # <<>> /\ y \in Seq(Tokens) /\ y # <<>>
      /\ Taken(level, x, a.meaning, lookup) /\ Parsed(level + 1, y, b.meaning, lookup)
  BY <1>2 DEF Parses
<1>4. PICK t \in Tokens : t = Op(op)
  BY Ops
<1>5. PICK text : text = x \o <<t>> \o y
  OBVIOUS
<1>6. text \in Seq(Tokens) /\ text # <<>> /\ Len(text) # 1
  BY <1>3, <1>5, Binary
<1>7. Taken(level, text, meaning, lookup)
  BY <1>3, <1>4, <1>5, BinaryTaken
<1>8. Own(level, text, meaning, lookup)
  BY <1>7 DEF Own
<1>9. level \in 0..6
  OBVIOUS
<1>10. Correct(Operand(level, text, meaning), lookup)
  BY <1>6, <1>8, <1>9, Composed
<1> QED BY <1>1, <1>4, <1>5, <1>10

LEMMA Kinds ==
  /\ \A n : Number(n).isNumber /\ Number(n).number = n
  /\ \A w : ~Text(w).isNumber /\ Text(w).number = 0
BY DEF Number, Text

LEMMA ApplyNumber ==
  ASSUME NEW level \in 1..4, NEW op \in Levels[level], NEW v, NEW w,
         v.number \in Int, w.number \in Int
  PROVE  Apply(op, v, w).number \in Int
<1>1. PICK x \in Int, y \in Int : x = AsNumber(v) /\ y = AsNumber(w)
  BY DEF AsNumber
<1>2. \A ok \in BOOLEAN : Truth(ok).number \in Int
  BY Kinds DEF Truth
<1>3. level = 1 \/ level = 2 \/ level = 3 \/ level = 4
  OBVIOUS
<1>4. \/ op = "==" \/ op = "!="
      \/ op = "<" \/ op = "<=" \/ op = ">" \/ op = ">="
      \/ op = "+" \/ op = "-" \/ op = "*" \/ op = "/"
  BY <1>3, Grammar
<1>5. CASE op = "=="
  <2>1. PICK ok \in BOOLEAN : ok = ValuesEqual(v, w)
    BY DEF ValuesEqual
  <2>2. Apply(op, v, w) = Truth(ok)
    BY <1>5, <2>1 DEF Apply
  <2> QED BY <1>2, <2>2
<1>6. CASE op = "!="
  <2>1. PICK ok \in BOOLEAN : ok = ~ValuesEqual(v, w)
    BY DEF ValuesEqual
  <2>2. Apply(op, v, w) = Truth(ok)
    BY <1>6, <2>1 DEF Apply
  <2> QED BY <1>2, <2>2
<1>7. CASE op = "<"
  <2>1. PICK ok \in BOOLEAN : ok <=> x < y
    OBVIOUS
  <2>2. Apply(op, v, w) = Truth(ok)
    BY <1>1, <1>7, <2>1 DEF Apply, Truth
  <2> QED BY <1>2, <2>2
<1>8. CASE op = "<="
  <2>1. PICK ok \in BOOLEAN : ok <=> x <= y
    OBVIOUS
  <2>2. Apply(op, v, w) = Truth(ok)
    BY <1>1, <1>8, <2>1 DEF Apply, Truth
  <2> QED BY <1>2, <2>2
<1>9. CASE op = ">"
  <2>1. PICK ok \in BOOLEAN : ok <=> x > y
    OBVIOUS
  <2>2. Apply(op, v, w) = Truth(ok)
    BY <1>1, <1>9, <2>1 DEF Apply, Truth
  <2> QED BY <1>2, <2>2
<1>10. CASE op = ">="
  <2>1. PICK ok \in BOOLEAN : ok <=> x >= y
    OBVIOUS
  <2>2. Apply(op, v, w) = Truth(ok)
    BY <1>1, <1>10, <2>1 DEF Apply, Truth
  <2> QED BY <1>2, <2>2
<1>11. CASE op = "+"
  <2>1. Apply(op, v, w) = Number(x + y)
    BY <1>1, <1>11 DEF Apply
  <2> QED BY <2>1, Kinds
<1>12. CASE op = "-"
  <2>1. Apply(op, v, w) = Number(x - y)
    BY <1>1, <1>12 DEF Apply
  <2> QED BY <2>1, Kinds
<1>13. CASE op = "*"
  <2>1. Apply(op, v, w) = Number(x * y)
    BY <1>1, <1>13 DEF Apply
  <2> QED BY <2>1, Kinds
<1>14. CASE op = "/"
  <2>1. PICK z : z = IF y = 0 THEN x ELSE IF y > 0 THEN x \div y ELSE (0 - x) \div (0 - y)
    OBVIOUS
  <2>2. z \in Int
    <3>1. CASE y = 0
      BY <2>1, <3>1
    <3>2. CASE y > 0
      BY <2>1, <3>2
    <3>3. CASE y < 0
      <4>1. PICK p \in Int, q \in Int : p = 0 - x /\ q = 0 - y /\ q > 0
        BY <3>3
      <4>2. p \div q \in Int
        BY <4>1
      <4> QED BY <2>1, <3>3, <4>1, <4>2
    <3> QED BY <3>1, <3>2, <3>3
  <2>3. Apply(op, v, w) = Number(z)
    BY <1>1, <1>14, <2>1 DEF Apply
  <2> QED BY <2>2, <2>3, Kinds
<1> QED BY <1>4, <1>5, <1>6, <1>7, <1>8, <1>9, <1>10, <1>11, <1>12, <1>13, <1>14

(* What a meaning holds.                                                    *)
LEMMA Meant ==
  ASSUME NEW ok \in BOOLEAN, NEW given, NEW read, given.number \in Int
  PROVE  \E meaning :
           /\ meaning = Meaning(ok, given, read)
           /\ meaning.ok \in BOOLEAN /\ meaning.value.number \in Int
           /\ meaning.ok <=> ok
           /\ meaning.ok => meaning.value = given
           /\ meaning.deps = read
<1>1. PICK meaning : meaning = Meaning(ok, given, read)
  OBVIOUS
<1>2. meaning = [ok |-> ok, value |-> IF ok THEN given ELSE Text(""), deps |-> read]
  BY <1>1 DEF Meaning
<1>3. Text("").number \in Int
  BY DEF Text
<1>4. meaning.value.number \in Int
  BY <1>2, <1>3
<1>5. meaning.ok \in BOOLEAN /\ (meaning.ok <=> ok)
  BY <1>2
<1>6. /\ meaning.ok => meaning.value = given
      /\ meaning.deps = read
  BY <1>2
<1> QED BY <1>1, <1>4, <1>5, <1>6

LEMMA EquatedCorrect ==
  ASSUME NEW op \in Levels[1], NEW a, NEW b, NEW lookup, Correct(a, lookup), Correct(b, lookup)
  PROVE  Correct(Equated(op, a, b), lookup)
<1>1. PICK v, w : v = a.meaning /\ w = b.meaning
  OBVIOUS
<1>2. PICK ok \in BOOLEAN : ok <=> v.ok /\ w.ok
  OBVIOUS
<1>3. PICK read : read = v.deps \cup IF v.ok THEN w.deps ELSE {}
  OBVIOUS
<1>4. PICK given : given = Apply(op, v.value, w.value)
  OBVIOUS
<1>5. PICK meaning : /\ meaning = Meaning(ok, given, read)
                     /\ meaning.ok \in BOOLEAN /\ meaning.value.number \in Int
                     /\ meaning.ok <=> ok
                     /\ meaning.ok => meaning.value = given
                     /\ meaning.deps = read
  <2>1. v.value.number \in Int /\ w.value.number \in Int /\ 1 \in 1..4
    BY <1>1 DEF Correct
  <2>2. given.number \in Int
    BY <1>4, <2>1, ApplyNumber
  <2> QED BY <2>2, Meant
<1>6. meaning.ok <=> v.ok /\ w.ok
  BY <1>2, <1>5
<1>8. Joins(1, op, v, w, meaning)
  <2>1. ~BadOperand(op, w.value)
    BY Grammar DEF BadOperand
  <2>2. Fit(1, v.value)
    BY DEF Fit
  <2> QED BY <1>3, <1>4, <1>5, <1>6, <2>1, <2>2 DEF Joins
<1>9. Equated(op, a, b) = Operand(1, Shown(a, 1) \o <<Op(op)>> \o Shown(b, 1 + 1), meaning)
  <2>1. meaning = Meaning(a.meaning.ok /\ b.meaning.ok, Apply(op, a.meaning.value, b.meaning.value),
                          IF a.meaning.ok THEN Both(a, b) ELSE a.meaning.deps)
    <3>1. ok = (a.meaning.ok /\ b.meaning.ok)
      BY <1>1, <1>2
    <3>2. read = IF a.meaning.ok THEN Both(a, b) ELSE a.meaning.deps
      BY <1>1, <1>3 DEF Both
    <3> QED BY <1>1, <1>4, <1>5, <3>1, <3>2
  <2>2. 1 + 1 = 2
    OBVIOUS
  <2> QED BY <2>1, <2>2 DEF Equated
<1>10. 1 \in 1..4
  OBVIOUS
<1> QED BY <1>1, <1>5, <1>8, <1>9, <1>10, OperatorCorrect

LEMMA ComputedCorrect ==
  ASSUME NEW level \in 2..4, NEW op \in Levels[level], NEW a, NEW b, NEW lookup,
         Correct(a, lookup), Correct(b, lookup)
  PROVE  Correct(Computed(level, op, a, b), lookup)
<1>0. level \in 1..4 /\ (level = 2 \/ level = 3 \/ level = 4)
  OBVIOUS
<1>1. PICK v, w : v = a.meaning /\ w = b.meaning
  OBVIOUS
<1>2. PICK ok \in BOOLEAN : ok <=> /\ v.ok /\ v.value.isNumber /\ w.ok /\ w.value.isNumber
                                   /\ op = "/" => w.value.number # 0
  OBVIOUS
<1>3. PICK read : read = v.deps \cup IF v.ok /\ v.value.isNumber THEN w.deps ELSE {}
  OBVIOUS
<1>4. PICK given : given = Apply(op, v.value, w.value)
  OBVIOUS
<1>5. PICK meaning : /\ meaning = Meaning(ok, given, read)
                     /\ meaning.ok \in BOOLEAN /\ meaning.value.number \in Int
                     /\ meaning.ok <=> ok
                     /\ meaning.ok => meaning.value = given
                     /\ meaning.deps = read
  <2>1. v.value.number \in Int /\ w.value.number \in Int
    BY <1>1 DEF Correct
  <2>2. given.number \in Int
    BY <1>0, <1>4, <2>1, ApplyNumber
  <2> QED BY <2>2, Meant
<1>8. Joins(level, op, v, w, meaning)
  <2>1. op \notin Levels[1]
    BY <1>0, Grammar
  <2>2. ~BadOperand(op, w.value) <=> w.value.isNumber /\ (op = "/" => w.value.number # 0)
    BY <2>1 DEF BadOperand, AsNumber
  <2>3. Fit(level, v.value) <=> v.value.isNumber
    BY <1>0 DEF Fit
  <2>4. meaning.ok <=> v.ok /\ Fit(level, v.value) /\ w.ok /\ ~BadOperand(op, w.value)
    BY <1>2, <1>5, <2>2, <2>3
  <2>5. meaning.ok => meaning.value = Apply(op, v.value, w.value)
    BY <1>4, <1>5
  <2>6. meaning.deps = v.deps \cup IF v.ok /\ Fit(level, v.value) THEN w.deps ELSE {}
    BY <1>3, <1>5, <2>3
  <2> QED BY <2>4, <2>5, <2>6 DEF Joins
<1>9. Computed(level, op, a, b)
        = Operand(level, Shown(a, level) \o <<Op(op)>> \o Shown(b, level + 1), meaning)
  <2>1. ok = (/\ IsNumber(a) /\ IsNumber(b)
              /\ op = "/" => b.meaning.value.number # 0)
    <3>0. /\ IsNumber(a) <=> v.ok /\ v.value.isNumber
          /\ IsNumber(b) <=> w.ok /\ w.value.isNumber
      BY <1>1 DEF IsNumber
    <3>1. ok <=> /\ IsNumber(a) /\ IsNumber(b)
                 /\ op = "/" => b.meaning.value.number # 0
      BY <1>1, <1>2, <3>0
    <3> QED BY <3>1
  <2>2. read = IF IsNumber(a) THEN Both(a, b) ELSE a.meaning.deps
    BY <1>1, <1>3 DEF Both, IsNumber
  <2> QED BY <1>1, <1>4, <1>5, <2>1, <2>2 DEF Computed
<1> QED BY <1>0, <1>1, <1>5, <1>8, <1>9, OperatorCorrect

LEMMA SignedCorrect ==
  ASSUME NEW sign \in Signs, NEW a, NEW lookup, Correct(a, lookup)
  PROVE  Correct(Signed(sign, a), lookup)
<1>1. PICK v : v = a.meaning
  OBVIOUS
<1>2. PICK ok \in BOOLEAN : ok <=> v.ok /\ v.value.isNumber
  OBVIOUS
<1>3. PICK given : given = ApplySign(sign, v.value)
  OBVIOUS
<1>5. PICK meaning : /\ meaning = Meaning(ok, given, v.deps)
                     /\ meaning.ok \in BOOLEAN /\ meaning.value.number \in Int
                     /\ meaning.ok <=> ok
                     /\ meaning.ok => meaning.value = given
                     /\ meaning.deps = v.deps
  <2>1. AsNumber(v.value) \in Int
    BY <1>1 DEF Correct, AsNumber
  <2>2. given.number \in Int
    BY <1>3, <2>1, Kinds DEF ApplySign
  <2> QED BY <2>2, Meant
<1>6. SignMeans(sign, v, meaning)
  BY <1>2, <1>3, <1>5 DEF SignMeans
<1>7. PICK y : y = Shown(a, 5)
  OBVIOUS
<1>8. Parses(5, y, v, lookup)
  <2>1. 5 \in 0..5
    OBVIOUS
  <2> QED BY <1>1, <1>7, <2>1, ShownAt
<1>9. y \in Seq(Tokens) /\ y # <<>> /\ Parsed(5, y, v, lookup)
  BY <1>8 DEF Parses
<1>10. PICK t \in Tokens : t = Op(sign)
  BY Ops DEF Words
<1>11. PICK text : text = <<t>> \o y
  OBVIOUS
<1>12. text \in Seq(Tokens) /\ text # <<>> /\ Len(text) # 1
  <2>1. Len(y) \in Nat /\ Len(y) > 0
    BY <1>9, EmptySeq
  <2>2. text \in Seq(Tokens) /\ Len(text) = 1 + Len(y)
    BY <1>9, <1>11
  <2>3. Len(text) # 0 /\ Len(text) # 1
    BY <2>1, <2>2
  <2> QED BY <2>2, <2>3, EmptySeq
<1>13. Parsed(5, text, meaning, lookup)
  BY <1>6, <1>9, <1>10, <1>11, SignParsed
<1>14. Own(5, text, meaning, lookup) /\ 5 \in 0..6
  BY <1>13 DEF Own
<1>15. Correct(Operand(5, text, meaning), lookup)
  BY <1>5, <1>12, <1>14, Composed
<1>16. Signed(sign, a) = Operand(5, text, meaning)
  <2>1. ok = IsNumber(a)
    BY <1>1, <1>2 DEF IsNumber
  <2> QED BY <1>1, <1>3, <1>5, <1>7, <1>10, <1>11, <2>1 DEF Signed, Unary
<1> QED BY <1>15, <1>16

LEMMA FunctionCorrect ==
  ASSUME NEW name \in {"min", "max"}, NEW a, NEW b, NEW lookup, Correct(a, lookup), Correct(b, lookup)
  PROVE  Correct(Function(name, a, b), lookup)
<1>1. PICK v, w : v = a.meaning /\ w = b.meaning
  OBVIOUS
<1>2. PICK ok \in BOOLEAN : ok <=> v.ok /\ v.value.isNumber /\ w.ok /\ w.value.isNumber
  OBVIOUS
<1>3. PICK read : read = v.deps \cup IF v.ok THEN w.deps ELSE {}
  OBVIOUS
<1>4. PICK given : given = Number(Limit(name, {v.value.number, w.value.number}))
  OBVIOUS
<1>5. v.value.number \in Int /\ w.value.number \in Int
  BY <1>1 DEF Correct
<1>6. PICK meaning : /\ meaning = Meaning(ok, given, read)
                     /\ meaning.ok \in BOOLEAN /\ meaning.value.number \in Int
                     /\ meaning.ok <=> ok
                     /\ meaning.ok => meaning.value = given
                     /\ meaning.deps = read
  <2>1. PICK x \in Int, y \in Int : x = v.value.number /\ y = w.value.number
    BY <1>5
  <2>2. Limit(name, {x, y}) \in Int
    <3>1. PICK m \in {x, y} : \A n \in {x, y} : IF name = "min" THEN m <= n ELSE m >= n
      <4>1. CASE name = "min"
        <5>1. CASE x <= y
          BY <4>1, <5>1
        <5>2. CASE ~(x <= y)
          BY <4>1, <5>2
        <5> QED BY <5>1, <5>2
      <4>2. CASE name # "min"
        <5>1. CASE x >= y
          BY <4>2, <5>1
        <5>2. CASE ~(x >= y)
          BY <4>2, <5>2
        <5> QED BY <5>1, <5>2
      <4> QED BY <4>1, <4>2
    <3>2. Limit(name, {x, y}) \in {x, y}
      BY <3>1 DEF Limit
    <3> QED BY <3>2
  <2>3. given.number \in Int
    BY <1>4, <2>1, <2>2, Kinds
  <2> QED BY <2>3, Meant
<1>7. FunctionMeans(name, v, w, meaning)
  <2>1. meaning.ok => meaning.value = Extremum(name, v.value, w.value)
    <3>1. ASSUME meaning.ok PROVE meaning.value = Extremum(name, v.value, w.value)
      <4>1. v.value.isNumber /\ w.value.isNumber /\ meaning.value = given
        BY <1>2, <1>6, <3>1
      <4>2. given = Extremum(name, v.value, w.value)
        BY <1>4, <1>5, <4>1, LimitIsExtremum
      <4> QED BY <4>1, <4>2
    <3> QED BY <3>1
  <2>2. meaning.ok <=> v.ok /\ v.value.isNumber /\ w.ok /\ w.value.isNumber
    BY <1>2, <1>6
  <2>3. meaning.deps = v.deps \cup IF v.ok THEN w.deps ELSE {}
    BY <1>3, <1>6
  <2> QED BY <2>1, <2>2, <2>3 DEF FunctionMeans
<1>8. PICK x, y : x = Shown(a, 0) /\ y = Shown(b, 0)
  OBVIOUS
<1>9. Parses(0, x, v, lookup) /\ Parses(0, y, w, lookup)
  <2>1. 0 \in 0..5
    OBVIOUS
  <2> QED BY <1>1, <1>8, <2>1, ShownAt
<1>10. /\ x \in Seq(Tokens) /\ x # <<>> /\ y \in Seq(Tokens) /\ y # <<>>
       /\ Parsed(0, x, v, lookup) /\ Parsed(0, y, w, lookup)
  BY <1>9 DEF Parses
<1>11. PICK text : text = <<Token("name", name), Op("(")>> \o x \o <<Op(",")>> \o y \o <<Op(")")>>
  OBVIOUS
<1>12. Parsed(5, text, meaning, lookup)
  BY <1>7, <1>10, <1>11, FunctionParsed
<1>13. text \in Seq(Tokens) /\ text # <<>> /\ Len(text) # 1
  <2>1. PICK n, o, m, c : n = Token("name", name) /\ o = Op("(") /\ m = Op(",") /\ c = Op(")")
    OBVIOUS
  <2>2. n \in Tokens
    BY <2>1, Tokened
  <2>3. o \in Tokens /\ m \in Tokens /\ c \in Tokens
    BY <2>1, Ops DEF Words
  <2>4. PICK head : head = <<n, o>> \o x
    OBVIOUS
  <2>5. head \in Seq(Tokens) /\ head # <<>>
    <3>1. <<n, o>> \in Seq(Tokens) /\ Len(<<n, o>>) = 2
      BY <2>2, <2>3
    <3>2. Len(x) \in Nat /\ head \in Seq(Tokens) /\ Len(head) = 2 + Len(x)
      BY <1>10, <2>4, <3>1, ConcatProperties
    <3>3. Len(head) # 0
      BY <3>2
    <3> QED BY <3>2, <3>3, EmptySeq
  <2>6. PICK body : body = head \o <<m>> \o y
    OBVIOUS
  <2>7. body \in Seq(Tokens) /\ body # <<>>
    BY <1>10, <2>3, <2>5, <2>6, Binary
  <2>8. text = body \o <<c>>
    BY <1>11, <2>1, <2>4, <2>6
  <2>9. text \in Seq(Tokens) /\ Len(text) = Len(body) + 1 /\ Len(body) \in Nat
    BY <2>3, <2>7, <2>8
  <2>10. Len(body) # 0
    BY <2>7, EmptySeq
  <2>11. Len(text) # 0 /\ Len(text) # 1
    BY <2>9, <2>10
  <2> QED BY <2>9, <2>11, EmptySeq
<1>14. Own(6, text, meaning, lookup) /\ 6 \in 0..6
  BY <1>12 DEF Own
<1>15. Correct(Operand(6, text, meaning), lookup)
  BY <1>6, <1>13, <1>14, Composed
<1>16. Function(name, a, b) = Operand(6, text, meaning)
  <2>1. ok = (IsNumber(a) /\ IsNumber(b))
    <3>1. ok <=> IsNumber(a) /\ IsNumber(b)
      BY <1>1, <1>2 DEF IsNumber
    <3> QED BY <3>1 DEF IsNumber
  <2>2. read = IF a.meaning.ok THEN Both(a, b) ELSE a.meaning.deps
    BY <1>1, <1>3 DEF Both
  <2> QED BY <1>1, <1>4, <1>6, <1>8, <1>11, <2>1, <2>2 DEF Function, Primary
<1> QED BY <1>15, <1>16

LEMMA ConditionalCorrect ==
  ASSUME NEW a, NEW b, NEW c, NEW lookup,
         Correct(a, lookup), Correct(b, lookup), Correct(c, lookup)
  PROVE  Correct(Conditional(a, b, c), lookup)
<1>1. PICK u, v, w : u = a.meaning /\ v = b.meaning /\ w = c.meaning
  OBVIOUS
<1>2. PICK e : e = IF a.meaning.value.number # 0 THEN b ELSE c
  OBVIOUS
<1>3. PICK t : t = e.meaning
  OBVIOUS
<1>4. t = IF u.value.number # 0 THEN v ELSE w
  BY <1>1, <1>2, <1>3
<1>5. PICK ok \in BOOLEAN : ok <=> u.ok /\ u.value.isNumber /\ t.ok
  OBVIOUS
<1>6. PICK read : read = u.deps \cup IF u.ok /\ u.value.isNumber THEN t.deps ELSE {}
  OBVIOUS
<1>7. PICK given : given = t.value
  OBVIOUS
<1>8. PICK meaning : /\ meaning = Meaning(ok, given, read)
                     /\ meaning.ok \in BOOLEAN /\ meaning.value.number \in Int
                     /\ meaning.ok <=> ok
                     /\ meaning.ok => meaning.value = given
                     /\ meaning.deps = read
  <2>1. given.number \in Int
    BY <1>1, <1>4, <1>7 DEF Correct
  <2> QED BY <2>1, Meant
<1>9. Chooses(u, v, w, meaning)
  <2>1. meaning.ok <=> u.ok /\ u.value.isNumber /\ t.ok
    BY <1>5, <1>8
  <2>2. meaning.ok => meaning.value = t.value
    BY <1>7, <1>8
  <2>3. meaning.deps = u.deps \cup IF u.ok /\ u.value.isNumber THEN t.deps ELSE {}
    BY <1>6, <1>8
  <2> QED BY <1>4, <2>1, <2>2, <2>3 DEF Chooses
<1>10. PICK x, y, z : x = Shown(a, 1) /\ y = Shown(b, 0) /\ z = Shown(c, 0)
  OBVIOUS
<1>11. Parses(1, x, u, lookup) /\ Parses(0, y, v, lookup) /\ Parses(0, z, w, lookup)
  <2>1. 0 \in 0..5 /\ 1 \in 0..5
    OBVIOUS
  <2> QED BY <1>1, <1>10, <2>1, ShownAt
<1>12. /\ x \in Seq(Tokens) /\ x # <<>> /\ y \in Seq(Tokens) /\ y # <<>> /\ z \in Seq(Tokens) /\ z # <<>>
       /\ Parsed(1, x, u, lookup) /\ Parsed(0, y, v, lookup) /\ Parsed(0, z, w, lookup)
  BY <1>11 DEF Parses
<1>13. PICK text : text = x \o <<Op("?")>> \o y \o <<Op(":")>> \o z
  OBVIOUS
<1>14. Parsed(0, text, meaning, lookup)
  BY <1>9, <1>12, <1>13, TernaryParsed
<1>15. text \in Seq(Tokens) /\ text # <<>> /\ Len(text) # 1
  <2>1. PICK o, d : o = Op("?") /\ d = Op(":")
    OBVIOUS
  <2>2. o \in Tokens /\ d \in Tokens
    BY <2>1, Ops DEF Words
  <2>3. PICK head : head = x \o <<o>> \o y
    OBVIOUS
  <2>4. head \in Seq(Tokens) /\ head # <<>>
    BY <1>12, <2>2, <2>3, Binary
  <2>5. text = head \o <<d>> \o z
    BY <1>13, <2>1, <2>3
  <2> QED BY <1>12, <2>2, <2>4, <2>5, Binary
<1>16. Own(0, text, meaning, lookup) /\ 0 \in 0..6
  BY <1>14 DEF Own
<1>17. Correct(Operand(0, text, meaning), lookup)
  BY <1>8, <1>15, <1>16, Composed
<1>18. Conditional(a, b, c) = Operand(0, text, meaning)
  <2>1. ok = (IsNumber(a) /\ e.meaning.ok)
    <3>1. ok <=> IsNumber(a) /\ e.meaning.ok
      BY <1>1, <1>3, <1>5 DEF IsNumber
    <3> QED BY <3>1 DEF IsNumber
  <2>2. read = IF IsNumber(a) THEN Both(a, e) ELSE a.meaning.deps
    BY <1>1, <1>3, <1>6 DEF Both, IsNumber
  <2>3. given = e.meaning.value
    BY <1>3, <1>7
  <2> QED BY <1>2, <1>8, <1>10, <1>13, <2>1, <2>2, <2>3 DEF Conditional, Ternary
<1> QED BY <1>17, <1>18

LEMMA OneToken ==
  ASSUME NEW t \in Tokens
  PROVE  <<t>> \in Seq(Tokens) /\ <<t>> # <<>> /\ Len(<<t>>) = 1 /\ <<t>>[1] = t
<1>1. <<t>> \in Seq(Tokens)
  OBVIOUS
<1>2. Len(<<t>>) = 1 /\ <<t>>[1] = t
  OBVIOUS
<1>3. <<t>> # <<>>
  OBVIOUS
<1> QED BY <1>1, <1>2, <1>3

LEMMA OwnPrimary ==
  ASSUME NEW text, NEW meaning, NEW lookup, Parsed(5, text, meaning, lookup)
  PROVE  Own(6, text, meaning, lookup) /\ 6 \in 0..6
BY DEF Own

LEMMA Blank == Text("").number \in Int /\ Token("end", "").kind = "end"
BY DEF Text, Token

LEMMA LeafCorrect ==
  ASSUME NEW t \in Tokens, NEW given, NEW read, NEW lookup, NEW leaf,
         leaf = Operand(6, <<t>>, Meaning(TRUE, given, read)), given.number \in Int,
         t.kind = "name" => /\ given = IF t.word \in DOMAIN lookup THEN lookup[t.word] ELSE Text("")
                            /\ read = {t.word},
         \A meaning : LeafMeans(meaning, given, read) => Parsed(5, <<t>>, meaning, lookup)
  PROVE  Correct(leaf, lookup)
<1>1. PICK meaning, text : /\ meaning = [ok |-> TRUE, value |-> given, deps |-> read]
                           /\ text = <<t>>
  OBVIOUS
<1>2. leaf.level = 6 /\ leaf.tokens = text /\ leaf.meaning = meaning
  BY <1>1 DEF Operand, Meaning
<1>3. LeafMeans(meaning, given, read)
  BY <1>1 DEF LeafMeans
<1>4. text \in Seq(Tokens) /\ text # <<>> /\ Len(text) = 1 /\ text[1] = t
  BY <1>1, OneToken
<1>5. Parsed(5, text, meaning, lookup)
  BY <1>1, <1>3
<1>6. Own(6, text, meaning, lookup) /\ 6 \in 0..6
  BY <1>5, OwnPrimary
<1>7. NamesVariable(leaf, lookup)
  BY <1>2, <1>3, <1>4 DEF NamesVariable, LeafMeans
<1>8. meaning.ok \in BOOLEAN /\ meaning.value.number \in Int
  BY <1>1
<1> QED BY <1>2, <1>4, <1>6, <1>7, <1>8 DEF Correct

LEMMA LeavesCorrect ==
  ASSUME bound \in [DOMAIN bound -> Bindings], NEW leaf \in Leaves
  PROVE  Correct(leaf, bound)
<1>1. CASE \E word \in DOMAIN Literals : leaf = Leaf("number", word, Number(Literals[word]), {})
  <2>1. PICK word \in DOMAIN Literals : leaf = Leaf("number", word, Number(Literals[word]), {})
    BY <1>1
  <2>2. PICK t : t = Token("number", word)
    OBVIOUS
  <2>3. t \in Tokens /\ t.kind # "name"
    BY <2>2, Tokened
  <2>4. PICK given : given = Number(Literals[word])
    OBVIOUS
  <2>5. given.number \in Int
    BY <2>4, ExpressionAssumption, Kinds
  <2>6. leaf = Operand(6, <<t>>, Meaning(TRUE, given, {}))
    BY <2>1, <2>2, <2>4 DEF Leaf, Primary
  <2>7. \A meaning : LeafMeans(meaning, given, {}) => Parsed(5, <<t>>, meaning, bound)
    BY <2>2, <2>4, NumberParsed
  <2> QED BY <2>3, <2>5, <2>6, <2>7, LeafCorrect
<1>2. CASE \E word \in Texts : leaf = Leaf("text", word, Text(word), {})
  <2>1. PICK word \in Texts : leaf = Leaf("text", word, Text(word), {})
    BY <1>2
  <2>2. PICK t : t = Token("text", word)
    OBVIOUS
  <2>3. t \in Tokens /\ t.kind # "name"
    BY <2>2, Tokened
  <2>4. PICK given : given = Text(word)
    OBVIOUS
  <2>5. given.number \in Int
    BY <2>4, Kinds
  <2>6. leaf = Operand(6, <<t>>, Meaning(TRUE, given, {}))
    BY <2>1, <2>2, <2>4 DEF Leaf, Primary
  <2>7. \A meaning : LeafMeans(meaning, given, {}) => Parsed(5, <<t>>, meaning, bound)
    BY <2>2, <2>4, TextParsed
  <2> QED BY <2>3, <2>5, <2>6, <2>7, LeafCorrect
<1>3. CASE \E v \in Variables :
             leaf = Leaf("name", v, IF v \in DOMAIN bound THEN bound[v] ELSE Text(""), {v})
  <2>1. PICK v \in Variables :
               leaf = Leaf("name", v, IF v \in DOMAIN bound THEN bound[v] ELSE Text(""), {v})
    BY <1>3
  <2>2. PICK t : t = Token("name", v)
    OBVIOUS
  <2>3. t \in Tokens /\ t.word = v
    BY <2>2, Tokened
  <2>4. PICK given : given = IF v \in DOMAIN bound THEN bound[v] ELSE Text("")
    OBVIOUS
  <2>5. given.number \in Int
    <3>1. CASE v \in DOMAIN bound
      <4>1. bound[v] \in Values
        BY <3>1, ExpressionAssumption
      <4> QED BY <2>4, <3>1, <4>1 DEF Values
    <3>2. CASE v \notin DOMAIN bound
      <4>1. given = Text("")
        BY <2>4, <3>2
      <4> QED BY <4>1, Blank
    <3> QED BY <3>1, <3>2
  <2>6. leaf = Operand(6, <<t>>, Meaning(TRUE, given, {v}))
    BY <2>1, <2>2, <2>4 DEF Leaf, Primary
  <2>7. \A meaning : LeafMeans(meaning, given, {v}) => Parsed(5, <<t>>, meaning, bound)
    BY <2>2, <2>4, NameParsed
  <2>8. given = IF t.word \in DOMAIN bound THEN bound[t.word] ELSE Text("")
    BY <2>3, <2>4
  <2>9. {v} = {t.word}
    BY <2>3
  <2> QED BY <2>3, <2>5, <2>6, <2>7, <2>8, <2>9, LeafCorrect
<1> QED BY <1>1, <1>2, <1>3 DEF Leaves

-----------------------------------------------------------------------------
(* The stack.                                                               *)
ExpressionInv ==
  /\ \E S : operands \in Seq(S)
  /\ bound \in [DOMAIN bound -> Bindings]
  /\ \A i \in 1..Len(operands) : Correct(operands[i], bound)

(* A stack holds an operand and some of another stack.                      *)
Extends(next, e, stack) ==
  /\ \E T : next \in Seq(T)
  /\ \A i \in 1..Len(next) : next[i] = e \/ (i \in 1..Len(stack) /\ next[i] = stack[i])

LEMMA Appended ==
  ASSUME NEW S, NEW rest \in Seq(S), NEW e, NEW T, T = S \cup {e}
  PROVE  /\ Append(rest, e) \in Seq(T) /\ Len(Append(rest, e)) = Len(rest) + 1
         /\ Append(rest, e)[Len(rest) + 1] = e
         /\ \A i \in 1..Len(rest) : Append(rest, e)[i] = rest[i]
<1>1. rest \in Seq(T)
  <2>1. \A i \in 1..Len(rest) : rest[i] \in T
    OBVIOUS
  <2>2. rest = [i \in 1..Len(rest) |-> rest[i]] /\ Len(rest) \in Nat
    OBVIOUS
  <2> QED BY <2>1, <2>2
<1>2. e \in T
  OBVIOUS
<1> QED BY <1>1, <1>2, AppendProperties

LEMMA Stacked ==
  ASSUME NEW stack, NEW S, stack \in Seq(S), NEW n \in Nat, n <= Len(stack), NEW e
  PROVE  Extends(Append(SubSeq(stack, 1, Len(stack) - n), e), e, stack)
<1>1. PICK k \in Nat : k = Len(stack) - n /\ k <= Len(stack)
  OBVIOUS
<1>2. PICK rest \in Seq(S) : /\ rest = SubSeq(stack, 1, k) /\ Len(rest) = k
                           /\ \A i \in 1..k : rest[i] = stack[i]
  <2>1. SubSeq(stack, 1, k) \in Seq(S) /\ Len(SubSeq(stack, 1, k)) = k
    BY <1>1
  <2>2. \A i \in 1..k : SubSeq(stack, 1, k)[i] = stack[i]
    BY <1>1
  <2> QED BY <2>1, <2>2
<1>3. PICK next : next = Append(rest, e)
  OBVIOUS
<1>4. PICK T : T = S \cup {e}
  OBVIOUS
<1>5. next \in Seq(T) /\ Len(next) = Len(rest) + 1
  BY <1>3, <1>4, Appended
<1>6. next[Len(rest) + 1] = e
  BY <1>3, <1>4, Appended
<1>7. \A i \in 1..Len(rest) : next[i] = rest[i]
  BY <1>3, <1>4, Appended
<1>8. ASSUME NEW i \in 1..Len(next)
      PROVE  next[i] = e \/ (i \in 1..Len(stack) /\ next[i] = stack[i])
  <2>1. CASE i = k + 1
    BY <1>2, <1>6, <2>1
  <2>2. CASE i # k + 1
    <3>1. i \in 1..k /\ i \in 1..Len(stack)
      <4>1. Len(next) = k + 1 /\ Len(stack) \in Nat
        BY <1>2, <1>5
      <4> QED BY <1>1, <2>2, <4>1
    <3>2. next[i] = rest[i] /\ rest[i] = stack[i]
      BY <1>2, <1>7, <3>1
    <3> QED BY <3>1, <3>2
  <2> QED BY <2>1, <2>2
<1>9. Extends(next, e, stack)
  BY <1>5, <1>8 DEF Extends
<1> QED BY <1>1, <1>2, <1>3, <1>9

LEMMA ReduceKeeps ==
  ASSUME ExpressionInv, NEW n \in Nat, NEW a, Correct(a, bound), Reduce(n, a)
  PROVE  ExpressionInv'
<1>1. PICK S : operands \in Seq(S)
  BY DEF ExpressionInv
<1>2. PICK next : next = Append(SubSeq(operands, 1, Len(operands) - n), a)
  OBVIOUS
<1>3. n <= Len(operands) /\ operands' = next /\ bound' = bound
  BY <1>1, <1>2 DEF Reduce
<1>4. Extends(next, a, operands)
  BY <1>1, <1>2, <1>3, Stacked
<1>5. \A i \in 1..Len(next) : Correct(next[i], bound)
  BY <1>4 DEF ExpressionInv, Extends
<1> QED BY <1>3, <1>4, <1>5 DEF ExpressionInv, Extends

LEMMA OperandCorrect ==
  ASSUME ExpressionInv, NEW i \in Nat, i > 0, i <= Len(operands)
  PROVE  Correct(Operands(i), bound)
<1>1. Len(operands) \in Nat
  BY DEF ExpressionInv
<1>2. Len(operands) + 1 - i \in 1..Len(operands)
  BY <1>1
<1> QED BY <1>2 DEF ExpressionInv, Operands

LEMMA Kept ==
  ASSUME ExpressionInv, [ExpressionNext]_expressionVars
  PROVE  ExpressionInv'
<1>1. ASSUME NEW names \in SUBSET Variables, NEW bindings \in [names -> Bindings], Bind(bindings)
      PROVE  ExpressionInv'
  <2>1. operands = <<>> /\ operands' = <<>> /\ bound' = bindings
    BY <1>1 DEF Bind
  <2>2. bindings \in [DOMAIN bindings -> Bindings]
    OBVIOUS
  <2>3. <<>> \in Seq({}) /\ Len(<<>>) = 0
    OBVIOUS
  <2> QED BY <2>1, <2>2, <2>3 DEF ExpressionInv
<1>2. ASSUME NEW leaf \in Leaves, Push(leaf)
      PROVE  ExpressionInv'
  <2>1. PICK S : operands \in Seq(S)
    BY DEF ExpressionInv
  <2>2. Correct(leaf, bound)
    BY LeavesCorrect DEF ExpressionInv
  <2>3. SubSeq(operands, 1, Len(operands) - 0) = operands
    BY <2>1
  <2>4. PICK next : next = Append(operands, leaf)
    OBVIOUS
  <2>5. operands' = next /\ bound' = bound
    BY <1>2, <2>4 DEF Push
  <2>6. 0 \in Nat /\ 0 <= Len(operands)
    BY <2>1
  <2>7. Extends(next, leaf, operands)
    <3>1. PICK n \in Nat : n = 0
      OBVIOUS
    <3>2. n <= Len(operands)
      BY <2>6, <3>1
    <3>3. next = Append(SubSeq(operands, 1, Len(operands) - n), leaf)
      BY <2>3, <2>4, <3>1
    <3> QED BY <2>1, <3>2, <3>3, Stacked
  <2>8. \A i \in 1..Len(next) : Correct(next[i], bound)
    BY <2>2, <2>7 DEF ExpressionInv, Extends
  <2> QED BY <2>5, <2>7, <2>8 DEF ExpressionInv, Extends
<1>3. ASSUME NEW sign \in Signs, Reduce(1, Signed(sign, Operands(1)))
      PROVE  ExpressionInv'
  <2>1. Len(operands) >= 1 /\ Len(operands) \in Nat
    BY <1>3 DEF Reduce, ExpressionInv
  <2>2. Correct(Operands(1), bound)
    BY <2>1, OperandCorrect
  <2>3. Correct(Signed(sign, Operands(1)), bound)
    BY <2>2, SignedCorrect
  <2> QED BY <1>3, <2>3, ReduceKeeps
<1>4. ASSUME Len(operands) >= 2
      PROVE  Correct(Operands(1), bound) /\ Correct(Operands(2), bound)
  <2>1. Len(operands) \in Nat
    BY DEF ExpressionInv
  <2> QED BY <1>4, <2>1, OperandCorrect
<1>5. ASSUME NEW op \in Levels[1], Reduce(2, Equated(op, Operands(2), Operands(1)))
      PROVE  ExpressionInv'
  <2>1. Len(operands) >= 2
    BY <1>5 DEF Reduce
  <2>2. Correct(Equated(op, Operands(2), Operands(1)), bound)
    BY <1>4, <2>1, EquatedCorrect
  <2> QED BY <1>5, <2>2, ReduceKeeps
<1>6. ASSUME NEW level \in 2..4, NEW op \in Levels[level],
             Reduce(2, Computed(level, op, Operands(2), Operands(1)))
      PROVE  ExpressionInv'
  <2>1. Len(operands) >= 2
    BY <1>6 DEF Reduce
  <2>2. Correct(Computed(level, op, Operands(2), Operands(1)), bound)
    BY <1>4, <2>1, ComputedCorrect
  <2> QED BY <1>6, <2>2, ReduceKeeps
<1>7. ASSUME NEW name \in {"min", "max"}, Reduce(2, Function(name, Operands(2), Operands(1)))
      PROVE  ExpressionInv'
  <2>1. Len(operands) >= 2
    BY <1>7 DEF Reduce
  <2>2. Correct(Function(name, Operands(2), Operands(1)), bound)
    BY <1>4, <2>1, FunctionCorrect
  <2> QED BY <1>7, <2>2, ReduceKeeps
<1>8. ASSUME Reduce(3, Conditional(Operands(3), Operands(2), Operands(1)))
      PROVE  ExpressionInv'
  <2>1. Len(operands) >= 3 /\ Len(operands) \in Nat
    BY <1>8 DEF Reduce, ExpressionInv
  <2>2. Correct(Operands(1), bound) /\ Correct(Operands(2), bound) /\ Correct(Operands(3), bound)
    BY <2>1, OperandCorrect
  <2>3. Correct(Conditional(Operands(3), Operands(2), Operands(1)), bound)
    BY <2>2, ConditionalCorrect
  <2> QED BY <1>8, <2>3, ReduceKeeps
<1>9. CASE UNCHANGED expressionVars
  BY <1>9 DEF expressionVars, ExpressionInv
<1> QED BY <1>1, <1>2, <1>3, <1>5, <1>6, <1>7, <1>8, <1>9 DEF ExpressionNext

LEMMA Evaluated ==
  ASSUME NEW e, NEW lookup, Correct(e, lookup), NEW found, found = Expand(e.tokens, lookup),
         NEW bare \in BOOLEAN, bare <=> Len(e.tokens) = 1 /\ e.tokens[1].kind = "name"
  PROVE  /\ found.deps = e.meaning.deps
         /\ found.ok <=> e.meaning.ok /\ (bare => e.tokens[1].word \in DOMAIN lookup)
         /\ found.ok => found.value = e.meaning.value
<1>1. CASE bare
  <2>1. PICK name, given : /\ name = e.tokens[1].word
                           /\ given = IF name \in DOMAIN lookup THEN lookup[name] ELSE Text("")
    OBVIOUS
  <2>2. LeafMeans(e.meaning, given, {name})
    BY <1>1, <2>1 DEF Correct, NamesVariable
  <2>3. PICK known \in BOOLEAN : known <=> name \in DOMAIN lookup
    OBVIOUS
  <2>4. found = [ok |-> known, pos |-> 2, value |-> given, deps |-> {name}]
    <3>1. /\ Len(e.tokens) = 1 /\ e.tokens[1].kind = "name"
      BY <1>1
    <3>2. Expand(e.tokens, lookup) = Outcome(name \in DOMAIN lookup, 2, given, {name})
      BY <2>1, <3>1 DEF Expand
    <3>3. known = (name \in DOMAIN lookup)
      BY <2>3
    <3>4. Expand(e.tokens, lookup) = Outcome(known, 2, given, {name})
      BY <3>2, <3>3
    <3>5. found = Outcome(known, 2, given, {name})
      BY <3>4
    <3> QED BY <3>5, Zenon DEF Outcome
  <2>5. e.meaning.ok /\ e.meaning.value = given /\ e.meaning.deps = {name}
    BY <2>2 DEF LeafMeans
  <2>6. found.deps = {name} /\ found.value = given /\ (found.ok <=> known)
    BY <2>4
  <2>7. bare => e.tokens[1].word = name
    BY <2>1
  <2> QED BY <1>1, <2>3, <2>5, <2>6, <2>7
<1>2. CASE ~bare
  <2>1. PICK text \in Seq(Tokens) : text = e.tokens /\ text # <<>>
    BY DEF Correct
  <2>2. PICK meaning : meaning = e.meaning
    OBVIOUS
  <2>3. PICK expr : expr = [tokens |-> text, lookup |-> lookup]
    OBVIOUS
  <2>4. expr.tokens = text /\ expr.lookup = lookup
    BY <2>3
  <2>5. Parsed(0, text, meaning, lookup)
    <3>1. e.level \in 0..6 /\ 0 \in 0..5 /\ 0 <= e.level /\ Own(e.level, text, meaning, lookup)
      BY <2>1, <2>2 DEF Correct
    <3> QED BY <2>1, <3>1, OwnAt DEF Parses
  <2>6. Len(text) \in Nat /\ Stands(text, expr, 1)
    BY <2>4 DEF Stands
  <2>7. Room(0, text, expr, StackDepth(expr))
    BY <2>4, <2>6 DEF Room, StackDepth
  <2>8. PICK last : last = 1 + Len(text)
    OBVIOUS
  <2>9. Peek(expr, last) = Token("end", "")
    <3>1. ~(last <= Len(expr.tokens))
      BY <2>4, <2>6, <2>8
    <3> QED BY <3>1 DEF Peek
  <2>10. Token("end", "") \in Ends(0)
    BY DEF Ends
  <2>11. PICK end : end = Parse(expr)[StackDepth(expr)][0][1][TRUE]
    OBVIOUS
  <2>12. Agrees(end, meaning, last, TRUE)
    BY <2>4, <2>5, <2>6, <2>7, <2>8, <2>9, <2>10, <2>11 DEF Parsed
  <2>13. /\ end.deps = meaning.deps
         /\ end.ok <=> meaning.ok
         /\ end.ok => end.pos = last
         /\ end.ok => end.value = meaning.value
    BY <2>12 DEF Agrees
  <2>14. found = Evaluate(expr)
    BY <1>2, <2>1, <2>3 DEF Expand
  <2>15. PICK failed \in BOOLEAN : failed <=> end.ok /\ Peek(expr, end.pos).kind # "end"
    OBVIOUS
  <2>16. found = [ok |-> end.ok /\ ~failed, pos |-> end.pos, value |-> end.value, deps |-> end.deps]
    BY <2>11, <2>14, <2>15 DEF Evaluate, FailIf, Outcome, Ternary
  <2>17. ~failed
    <3>1. Peek(expr, last).kind = "end"
      BY <2>9, Blank
    <3>2. CASE ~end.ok
      BY <2>15, <3>2
    <3>3. CASE end.ok
      BY <2>13, <2>15, <3>1, <3>3
    <3> QED BY <3>2, <3>3
  <2>18. /\ found.ok <=> end.ok
         /\ found.value = end.value /\ found.deps = end.deps
    <3>1. PICK ok \in BOOLEAN : ok <=> end.ok /\ ~failed
      OBVIOUS
    <3>2. ok = (end.ok /\ ~failed)
      BY <3>1
    <3>3. found = [ok |-> ok, pos |-> end.pos, value |-> end.value, deps |-> end.deps]
      BY <2>16, <3>2
    <3> QED BY <2>17, <3>1, <3>3
  <2> QED BY <1>2, <2>2, <2>13, <2>18
<1> QED BY <1>1, <1>2

LEMMA InvLazily == ExpressionInv => EvaluatesLazily
<1> SUFFICES ASSUME ExpressionInv, operands # <<>>
             PROVE  EvaluatesLazily
  BY DEF EvaluatesLazily
<1>1. Len(operands) \in Nat /\ Len(operands) > 0
  BY EmptySeq DEF ExpressionInv
<1>2. PICK e, found : e = Operands(1) /\ found = Expand(e.tokens, bound)
  OBVIOUS
<1>3. Correct(e, bound)
  BY <1>1, <1>2, OperandCorrect
<1>4. PICK bare \in BOOLEAN : bare <=> Len(e.tokens) = 1 /\ e.tokens[1].kind = "name"
  OBVIOUS
<1>5. /\ found.deps = e.meaning.deps
      /\ found.ok <=> e.meaning.ok /\ (bare => e.tokens[1].word \in DOMAIN bound)
      /\ found.ok => found.value = e.meaning.value
  BY <1>2, <1>3, <1>4, Evaluated
<1> QED BY <1>2, <1>4, <1>5 DEF EvaluatesLazily

(* An expression evaluates to what it means and records exactly the         *)
(* variables it has to read, whatever the variables, their values and the   *)
(* expression (style_expression.cpp).                                       *)
THEOREM AlwaysEvaluatesLazily == ExpressionSpec => []EvaluatesLazily
<1>1. ExpressionInit => ExpressionInv
  <2>1. <<>> \in Seq({}) /\ Len(<<>>) = 0 /\ <<>> \in [DOMAIN <<>> -> Bindings]
    OBVIOUS
  <2> QED BY <2>1 DEF ExpressionInit, ExpressionInv
<1>2. ExpressionInv /\ [ExpressionNext]_expressionVars => ExpressionInv'
  BY Kept
<1> QED BY <1>1, <1>2, InvLazily, PTL DEF ExpressionSpec

=============================================================================
