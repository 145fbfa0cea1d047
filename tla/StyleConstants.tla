---------------------------- MODULE StyleConstants ----------------------------
(* The constants of a theme (constants.cpp): `$Name` in a constant's value  *)
(* stands for another constant.  Texts and names are sequences of           *)
(* characters, since one name may begin another and the match is by         *)
(* characters; the constants are a map, which has lost the order of the     *)
(* declarations.                                                            *)
(*                                                                          *)
(* The action declares constants one by one, as the themes do: a value      *)
(* refers to earlier declarations only, and no reference is followed        *)
(* directly by a letter.                                                    *)
EXTENDS Integers, Sequences, FiniteSets, SequencesExt

CONSTANTS
  ConstantNames,  \* names: sequences of letters
  Literal,        \* a text without references
  MaxPieces       \* bound: words or references in a value

VARIABLES declared   \* the declarations so far: pairs of name and value

ConstantsInit == declared = <<>>

-----------------------------------------------------------------------------
IsAt(text, pos, word) ==
  pos + Len(word) - 1 <= Len(text) /\ SubSeq(text, pos, pos + Len(word) - 1) = word

(* ApplyStyleConstants: at every "$" the first of `constants` whose name    *)
(* follows is substituted; the substituted text is not looked at again.     *)
RECURSIVE ApplyStyleConstants(_, _)
ApplyStyleConstants(text, constants) ==
  LET hits == {i \in 1..Len(constants) : IsAt(text, 2, constants[i].name)}
      hit == constants[CHOOSE i \in hits : \A j \in hits : i <= j] IN
  IF text = <<>> THEN <<>>
  ELSE IF text[1] # "$" \/ hits = {}
  THEN <<text[1]>> \o ApplyStyleConstants(Tail(text), constants)
  ELSE hit.value \o ApplyStyleConstants(
                      SubSeq(text, 2 + Len(hit.name), Len(text)), constants)

(* A std::map's order, where "a" is below "b".                              *)
Below(x, y) ==
  \E n \in 0..Len(x) : /\ n < Len(y) /\ SubSeq(x, 1, n) = SubSeq(y, 1, n)
                       /\ n = Len(x) \/ (n < Len(x) /\ x[n + 1] = "a" /\ y[n + 1] = "b")

(* The names, longest first; equal lengths in the map's order.              *)
Sorted(constants) ==
  SetToSortSeq(constants, LAMBDA c, d :
    \/ Len(c.name) > Len(d.name)
    \/ Len(c.name) = Len(d.name) /\ Below(c.name, d.name))

(* One pass of ResolveConstants, in place: a value sees what the constants  *)
(* before it have become.                                                   *)
RECURSIVE PassFrom(_, _)
PassFrom(i, resolved) ==
  IF i > Len(resolved) THEN resolved
  ELSE PassFrom(i + 1, [resolved EXCEPT ![i].value = ApplyStyleConstants(@, resolved)])

(* A loop that takes one pass to be enough.                                 *)
PassesOnce(pass, resolved) == PassFrom(1, resolved)

kMaxPasses == 8
RECURSIVE Passes(_, _)
Passes(pass, resolved) ==
  IF pass = kMaxPasses \/ PassFrom(1, resolved) = resolved THEN resolved
  ELSE Passes(pass + 1, PassFrom(1, resolved))

ResolveConstants(constants) == Passes(0, Sorted(constants))

-----------------------------------------------------------------------------
(* A value is made of pieces, a word or a reference to an earlier           *)
(* declaration, which stand apart.                                          *)
Joined(pieces) == FoldLeft(LAMBDA text, piece : text \o piece \o <<"-">>, <<>>, pieces)

Declare(name, pieces) ==
  /\ \A i \in 1..Len(declared) : declared[i].name # name
  /\ declared' = Append(declared, [name |-> name, value |-> Joined(pieces)])

Pieces == {Literal} \cup {<<"$">> \o declared[i].name : i \in 1..Len(declared)}

ConstantsNext ==
  \E name \in ConstantNames, pieces \in UNION {[1..n -> Pieces] : n \in 1..MaxPieces} :
    Declare(name, pieces)

-----------------------------------------------------------------------------
(* Upstream's rule: each value is expanded, once, against those declared    *)
(* before it.                                                               *)
InDeclarationOrder ==
  FoldLeft(LAMBDA done, d :
             Append(done, [d EXCEPT !.value = ApplyStyleConstants(@, Sorted(ToSet(done)))]),
           <<>>, declared)

(* Iterating over the constants longest name first, with the order of the   *)
(* declarations lost, gives what expanding them in that order gives: no     *)
(* name is mistaken for a shorter one it begins with, and no reference is   *)
(* left however the chain of references runs against the order of the loop  *)
(* ("where both give the same answer").                                     *)
ResolvesAsDeclared == ToSet(ResolveConstants(ToSet(declared))) = ToSet(InDeclarationOrder)
=============================================================================
