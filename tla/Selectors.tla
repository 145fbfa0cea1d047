------------------------------ MODULE Selectors ------------------------------
(* Selectors and their match (selector.cpp, matcher.cpp).  A chain is a     *)
(* sequence of target parts, the leftmost ancestor first and the matched    *)
(* element last; a path is an element with its ancestors, the element       *)
(* first.  An element's name, index and properties are tested like its      *)
(* type, which stands for them all here.                                    *)
(*                                                                          *)
(* The two actions build every chain and every path up to the bounds.       *)
EXTENDS Integers, Sequences, FiniteSets

CONSTANTS
  Types,             \* element types
  AnyType,           \* a part that names no type
  MaxParts, MaxElements   \* bounds: parts of a chain, elements of a path

VARIABLES
  chain,         \* the parts parsed so far
  path           \* the element and its ancestors

selectorVars == <<chain, path>>

Wildcard == [kind |-> "wildcard", type |-> AnyType, group |-> FALSE]
Root == [kind |-> "root", type |-> AnyType, group |-> FALSE]
ElementParts == [kind : {"element"}, type : Types \cup {AnyType}, group : BOOLEAN]
Parts == ElementParts \cup {Wildcard, Root}

(* Only the element itself has a type that is reported for it besides its   *)
(* own; for the ancestors it is not asked.                                  *)
Element == [type : Types, reported : Types]

SelectorInit == chain = <<>> /\ path = <<>>

-----------------------------------------------------------------------------
(* ValidateChainStructure: what parsing accepts.                            *)
ValidateChainStructure(parts) ==
  LET n == Len(parts) IN
  /\ \A i \in 1..n : parts[i].kind = "wildcard" =>
       i # n /\ i # 1 /\ parts[i + 1].kind # "wildcard"
  /\ \A i \in 1..n : parts[i].kind = "root" => i # n /\ i = 1
  /\ Cardinality({i \in 1..n : parts[i].group}) <= 1

-----------------------------------------------------------------------------
(* The match.  Its result carries the group reference that was written last *)
(* (the depth of its owner), also by branches that have failed: 0 for the   *)
(* element itself, -1 for none.                                             *)
Result(ok, depth) == [ok |-> ok, group |-> depth]
NoGroup == -1

(* A test that keeps the first group it is given.                           *)
TestMatcherOnce(element, part, allowReported, depth, group) ==
  LET ok == \/ part.type \in {AnyType, element.type}
            \/ allowReported /\ part.type = element.reported IN
  Result(ok, IF ok /\ part.group /\ group = NoGroup THEN depth ELSE group)

TestMatcher(element, part, allowReported, depth, group) ==
  LET ok == \/ part.type \in {AnyType, element.type}
            \/ allowReported /\ part.type = element.reported IN
  Result(ok, IF ok /\ part.group THEN depth ELSE group)

(* The depths of the path, and the group references a match can carry.      *)
Depths == 0..Len(path) - 1
Groups == Depths \cup {NoGroup}

(* A part is tested at the element of this depth, and when it passes, the   *)
(* rest of the chain is matched from there.                                 *)
MatchFrom(part, allowReported, depth, group, rest) ==
  LET test == TestMatcher(path[depth + 1], part, allowReported, depth, group) IN
  IF test.ok THEN rest[depth][test.group] ELSE test

(* The loop of MatchParents after a wildcard: the farthest `left` ancestors *)
(* are tried one by one, and it goes on when the rest does not match.       *)
Candidates(part, rest) ==
  LET try[left \in 0..Len(path)] ==
        [group \in Groups |->
           LET match == MatchFrom(part, FALSE, Len(path) - left, group, rest) IN
           IF left = 0 THEN Result(FALSE, group)
           ELSE IF match.ok THEN match ELSE try[left - 1][match.group]]
  IN  try

(* A call of MatchParents, the k-th part of the chain being nearest to the  *)
(* element at `depth`; `next` is the call for the parts after it, `beyond`  *)
(* the one for all but the first of those.                                  *)
MatchPart(k, next, beyond) ==
  [depth \in Depths |-> [group \in Groups |->
     CASE chain[k].kind = "root" ->
            IF depth + 1 < Len(path) THEN Result(FALSE, group) ELSE next[depth][group]
       [] chain[k].kind = "wildcard" ->
            IF k = 1 \/ chain[k - 1].kind # "element" THEN Result(FALSE, group)
            ELSE Candidates(chain[k - 1], beyond)[Len(path) - depth - 1][group]
       [] OTHER ->
            IF depth + 1 >= Len(path) THEN Result(FALSE, group)
            ELSE MatchFrom(chain[k], FALSE, depth + 1, group, next)]]

(* MatchParents for the first k parts of the chain, nearest first.          *)
MatchParents ==
  LET match[k \in 0..Len(chain)] ==
        IF k = 0 THEN [depth \in Depths |-> [group \in Groups |-> Result(TRUE, group)]]
        ELSE MatchPart(k, match[k - 1], match[IF k = 1 THEN 0 ELSE k - 2])
  IN  match

MatchesChain ==
  LET n == Len(chain)
      found == MatchFrom(chain[n], TRUE, 0, NoGroup, MatchParents[n - 1]) IN
  IF n = 0 \/ chain[n].kind # "element" \/ ~found.ok THEN Result(FALSE, NoGroup)
  ELSE found

-----------------------------------------------------------------------------
(* ParseSelector appends what it has parsed; the tree is as it is.          *)
AddPart(part) ==
  /\ path = <<>> /\ Len(chain) < MaxParts
  /\ chain' = Append(chain, part)
  /\ UNCHANGED path

AddElement(element) ==
  /\ chain # <<>> /\ ValidateChainStructure(chain)
  /\ Len(path) < MaxElements
  /\ path # <<>> => element.reported = element.type
  /\ path' = Append(path, element)
  /\ UNCHANGED chain

SelectorNext ==
  \/ \E part \in Parts : AddPart(part)
  \/ \E element \in Element : AddElement(element)

SelectorSpec == SelectorInit /\ [][SelectorNext]_selectorVars

-----------------------------------------------------------------------------
(* What a match is: the element parts have places on the path, the last     *)
(* part at the element, neighbours at neighbours, the two sides of a        *)
(* wildcard anywhere above each other, the part beside the root at the top. *)
(* A wildcard beside the root matches nothing.                              *)
ElementPlaces == {i \in 1..Len(chain) : chain[i].kind = "element"}

Embeddings ==
  {place \in [ElementPlaces -> 1..Len(path)] :
     /\ \A i \in 1..Len(chain) : chain[i].kind = "wildcard" => i - 1 \in ElementPlaces
     /\ \A i \in ElementPlaces :
       /\ \/ chain[i].type \in {AnyType, path[place[i]].type}
          \/ i = Len(chain) /\ chain[i].type = path[place[i]].reported
       /\ i = Len(chain) => place[i] = 1
       /\ i + 1 \in ElementPlaces => place[i] = place[i + 1] + 1
       /\ i + 2 \in ElementPlaces /\ chain[i + 1].kind = "wildcard"
            => place[i] > place[i + 2]
       /\ i > 1 /\ chain[i - 1].kind = "root" => place[i] = Len(path)}

GroupOf(place) ==
  IF \E i \in ElementPlaces : chain[i].group
  THEN place[CHOOSE i \in ElementPlaces : chain[i].group] - 1
  ELSE NoGroup

(* A chain matches exactly when it can be laid along the path, however far  *)
(* a wildcard has to look; and the group that is reported belongs to such a *)
(* match, never to a branch that was given up.                              *)
MatchesExactly ==
  path # <<>> =>
    /\ MatchesChain.ok <=> Embeddings # {}
    /\ MatchesChain.ok => \E place \in Embeddings : MatchesChain.group = GroupOf(place)
=============================================================================
