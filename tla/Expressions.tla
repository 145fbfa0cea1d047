----------------------------- MODULE Expressions -----------------------------
(* The expressions of dynamic style values, as in {{W < 2 ? X : 1}}         *)
(* (style_expression.cpp): a recursive-descent evaluator that computes      *)
(* while it parses, and records which variables it has read.                *)
(*                                                                          *)
(* Text is a sequence of tokens; numbers are integers, and division by      *)
(* anything but zero rounds, here and in the meaning it is compared with.   *)
(* The actions build expressions on a stack, operands before operators,     *)
(* each with its text, in no more parentheses than the grammar needs, and   *)
(* with what it means.                                                      *)
EXTENDS Integers, Sequences, FiniteSets

CONSTANTS
  Variables,   \* variable names
  Bindings,    \* what a variable may be bound to
  Literals,    \* the number that a word stands for
  Texts,       \* string literals
  MaxGrowth    \* bound: operators in an expression

VARIABLES
  bound,       \* the values of the variables that are defined
  operands,    \* the stack of expressions, the last one on top
  growth       \* operators in them

expressionVars == <<bound, operands, growth>>

Values == [isNumber : BOOLEAN, number : Int, text : STRING]
Number(n) == [isNumber |-> TRUE, number |-> n, text |-> ""]
Text(s) == [isNumber |-> FALSE, number |-> 0, text |-> s]

ASSUME ExpressionAssumption ==
  Bindings \subseteq Values /\ Literals \in [DOMAIN Literals -> Int]

ExpressionInit == bound = <<>> /\ operands = <<>> /\ growth = 0

-----------------------------------------------------------------------------
(* The evaluator, with its text and its lookup in `expr`.  A call has an    *)
(* outcome: the position after it, the value, the dependencies recorded and *)
(* whether nothing has failed; `live` is FALSE in the branch of a           *)
(* conditional that is not taken.                                           *)

Token(kind, word) == [kind |-> kind, word |-> word]
Op(word) == Token("op", word)
Peek(expr, pos) == IF pos <= Len(expr.tokens) THEN expr.tokens[pos] ELSE Token("end", "")

Outcome(ok, pos, value, read) == [ok |-> ok, pos |-> pos, value |-> value, deps |-> read]
Skip(s) == Outcome(s.ok, s.pos + 1, s.value, s.deps)
Yield(s, value) == Outcome(s.ok, s.pos, value, s.deps)
FailIf(failed, s) == Outcome(s.ok /\ ~failed, s.pos, s.value, s.deps)
Take(expr, s, word) == FailIf(s.ok /\ Peek(expr, s.pos) # Op(word), Skip(s))

(* The next call, if nothing has failed.  A call knows those it makes by    *)
(* the level of the grammar, the position and `live`.                       *)
Call(call, level, s, live) ==
  LET next == call[level][s.pos][live] IN
  IF s.ok THEN Outcome(next.ok, next.pos, next.value, s.deps \cup next.deps) ELSE s

(* RequireNumber: what is not a number fails, and counts as 0 if not live.  *)
RequireNumber(s, v, live) == FailIf(live /\ ~v.isNumber, s)
AsNumber(v) == IF v.isNumber THEN v.number ELSE 0

ValuesEqual(v, w) ==
  v.isNumber = w.isNumber /\ IF v.isNumber THEN v.number = w.number ELSE v.text = w.text

Truth(b) == Number(IF b THEN 1 ELSE 0)

(* The conditional, the binary operators, level by level, the signs.        *)
Ternary == 0
Levels == <<{"==", "!="}, {"<", "<=", ">", ">="}, {"+", "-"}, {"*", "/"}>>
Unary == 5
Signs == {"+", "-"}

Apply(op, v, w) ==
  LET x == AsNumber(v)  y == AsNumber(w) IN
  CASE op = "==" -> Truth(ValuesEqual(v, w))
    [] op = "!=" -> Truth(~ValuesEqual(v, w))
    [] op = "<" -> Truth(x < y)
    [] op = "<=" -> Truth(x <= y)
    [] op = ">" -> Truth(x > y)
    [] op = ">=" -> Truth(x >= y)
    [] op = "+" -> Number(x + y)
    [] op = "-" -> Number(x - y)
    [] op = "*" -> Number(x * y)
    [] op = "/" -> Number(IF y = 0 THEN x ELSE IF y > 0 THEN x \div y ELSE (0 - x) \div (0 - y))

ApplySign(sign, v) == Number(IF sign = "-" THEN 0 - AsNumber(v) ELSE AsNumber(v))

(* A read that records what it has found only.                              *)
ReadDefined(expr, name, pos, live) ==
  LET known == name \in DOMAIN expr.lookup IN
  Outcome(TRUE, pos, IF live /\ known THEN expr.lookup[name] ELSE Text(""),
          IF live /\ known THEN {name} ELSE {})

(* A name: read, and recorded, in a live branch only; the empty text when   *)
(* it is not defined.                                                       *)
ReadVariable(expr, name, pos, live) ==
  LET known == name \in DOMAIN expr.lookup IN
  Outcome(TRUE, pos, IF live /\ known THEN expr.lookup[name] ELSE Text(""),
          IF live THEN {name} ELSE {})

(* min and max, with both arguments parsed before either must be a number.  *)
(* (No other function is called here; an unknown one fails a live branch.)  *)
Extremum(name, v, w) ==
  Number(IF (name = "min") = (AsNumber(v) < AsNumber(w)) THEN AsNumber(v) ELSE AsNumber(w))

ParseCall(expr, call, pos, live) ==
  LET first == call[Ternary][pos + 2][live]
      second == Call(call, Ternary, Take(expr, first, ","), live)
      end == Take(expr, second, ")") IN
  Yield(RequireNumber(RequireNumber(end, first.value, live), second.value, live),
        Extremum(Peek(expr, pos).word, first.value, second.value))

ParsePrimary(expr, call, pos, live) ==
  LET token == Peek(expr, pos) IN
  CASE token = Op("(") -> Take(expr, call[Ternary][pos + 1][live], ")")
    [] token.kind = "text" -> Outcome(TRUE, pos + 1, Text(token.word), {})
    [] token.kind = "number" -> Outcome(TRUE, pos + 1, Number(Literals[token.word]), {})
    [] token.kind = "name" ->
         IF Peek(expr, pos + 1) = Op("(") THEN ParseCall(expr, call, pos, live)
         ELSE ReadVariable(expr, token.word, pos + 1, live)
    [] OTHER -> Outcome(FALSE, pos, Text(""), {})

ParseUnary(expr, call, pos, live) ==
  LET operand == call[Unary][pos + 1][live] IN
  IF Peek(expr, pos) \notin {Op(sign) : sign \in Signs} THEN ParsePrimary(expr, call, pos, live)
  ELSE Yield(RequireNumber(operand, operand.value, live),
             ApplySign(Peek(expr, pos).word, operand.value))

(* ParseEquality to ParseTerm: an operand, then an operator and an operand  *)
(* of the next level as long as there are any.  A left operand must be a    *)
(* number before the right one is parsed; those of the first level need not *)
(* be.                                                                      *)
BadOperand(op, right) ==
  \/ op \notin Levels[1] /\ ~right.isNumber
  \/ op = "/" /\ AsNumber(right) = 0

ParseRest(level, expr, call, left, live) ==
  LET op == Peek(expr, left.pos)
      ready == FailIf(live /\ level # 1 /\ ~left.value.isNumber, Skip(left))
      right == Call(call, level + 1, ready, live) IN
  IF ~left.ok \/ op.kind # "op" \/ op.word \notin Levels[level] THEN left
  ELSE Yield(FailIf(live /\ right.ok /\ BadOperand(op.word, right.value), right),
             Apply(op.word, left.value, right.value))

ParseTurns(level, expr, call, pos, live) ==
  LET parsed[turn \in 0..Len(expr.tokens)] ==
        IF turn = 0 THEN call[level + 1][pos][live]
        ELSE ParseRest(level, expr, call, parsed[turn - 1], live)
  IN  parsed

ParseLevel(level, expr, call, pos, live) ==
  ParseTurns(level, expr, call, pos, live)[Len(expr.tokens)]

(* ParseTernary: both branches are parsed, the one not taken without effect. *)
ParseTernary(expr, call, pos, live) ==
  LET cond == call[1][pos][live]
      taken == AsNumber(cond.value) # 0
      then == Call(call, Ternary, RequireNumber(Skip(cond), cond.value, live), live /\ taken)
      else == Call(call, Ternary, Take(expr, then, ":"), live /\ ~taken) IN
  IF ~cond.ok \/ Peek(expr, cond.pos) # Op("?") THEN cond
  ELSE Yield(else, IF taken THEN then.value ELSE else.value)

(* The calls that can be made with a stack of this depth: before a call at  *)
(* the same level of the grammar a token is consumed.                       *)
StackDepth(expr) == 6 * (Len(expr.tokens) + 1)

Calls(expr, call) ==
  [level \in 0..Unary |-> [pos \in 1..Len(expr.tokens) + 1 |-> [live \in BOOLEAN |->
     CASE level = Ternary -> ParseTernary(expr, call, pos, live)
       [] level = Unary -> ParseUnary(expr, call, pos, live)
       [] OTHER -> ParseLevel(level, expr, call, pos, live)]]]

Parse(expr) ==
  LET parse[depth \in 0..StackDepth(expr)] == IF depth = 0 THEN <<>> ELSE Calls(expr, parse[depth - 1])
  IN  parse

(* Evaluate: nothing may be left.                                           *)
Evaluate(expr) ==
  LET end == Parse(expr)[StackDepth(expr)][Ternary][1][TRUE] IN
  FailIf(end.ok /\ Peek(expr, end.pos).kind # "end", end)

(* ExpandStyleVariables on one body: a bare name is substituted as it is,   *)
(* and skips the style when it is not defined.  (A captured object that has *)
(* no text form, which skips it too, is left out.)                          *)
Expand(tokens, lookup) ==
  LET name == tokens[1].word IN
  IF Len(tokens) = 1 /\ tokens[1].kind = "name"
  THEN Outcome(name \in DOMAIN lookup, 2,
               IF name \in DOMAIN lookup THEN lookup[name] ELSE Text(""), {name})
  ELSE Evaluate([tokens |-> tokens, lookup |-> lookup])

-----------------------------------------------------------------------------
(* Expressions: the level of the grammar they need, the text, the meaning.  *)
(* They mean what they compute from left to right, a branch that is not     *)
(* taken not at all; an operator fails as soon as an operand is not what it *)
(* needs.                                                                   *)
Operand(level, tokens, meaning) == [level |-> level, tokens |-> tokens, meaning |-> meaning]
Shown(a, level) == IF a.level < level THEN <<Op("(")>> \o a.tokens \o <<Op(")")>> ELSE a.tokens

Meaning(ok, value, read) == [ok |-> ok, value |-> IF ok THEN value ELSE Text(""), deps |-> read]
IsNumber(a) == a.meaning.ok /\ a.meaning.value.isNumber
Both(a, b) == a.meaning.deps \cup b.meaning.deps

Primary == 6
Leaf(kind, word, value, read) ==
  Operand(Primary, <<Token(kind, word)>>, Meaning(TRUE, value, read))

Leaves ==
  {Leaf("number", word, Number(Literals[word]), {}) : word \in DOMAIN Literals}
    \cup {Leaf("text", word, Text(word), {}) : word \in Texts}
    \cup {Leaf("name", v, IF v \in DOMAIN bound THEN bound[v] ELSE Text(""), {v}) : v \in Variables}

Signed(sign, a) ==
  Operand(Unary, <<Op(sign)>> \o Shown(a, Unary),
          Meaning(IsNumber(a), ApplySign(sign, a.meaning.value), a.meaning.deps))

Equated(op, a, b) ==
  Operand(1, Shown(a, 1) \o <<Op(op)>> \o Shown(b, 2),
          Meaning(a.meaning.ok /\ b.meaning.ok, Apply(op, a.meaning.value, b.meaning.value),
                  IF a.meaning.ok THEN Both(a, b) ELSE a.meaning.deps))

Computed(level, op, a, b) ==
  Operand(level, Shown(a, level) \o <<Op(op)>> \o Shown(b, level + 1),
          Meaning(/\ IsNumber(a) /\ IsNumber(b)
                  /\ op = "/" => b.meaning.value.number # 0,
                  Apply(op, a.meaning.value, b.meaning.value),
                  IF IsNumber(a) THEN Both(a, b) ELSE a.meaning.deps))

(* The number of a set that is least, or greatest.                          *)
Limit(name, numbers) ==
  CHOOSE n \in numbers : \A m \in numbers : IF name = "min" THEN n <= m ELSE n >= m

Function(name, a, b) ==
  Operand(Primary,
          <<Token("name", name), Op("(")>> \o Shown(a, 0) \o <<Op(",")>> \o Shown(b, 0) \o <<Op(")")>>,
          Meaning(IsNumber(a) /\ IsNumber(b),
                  Number(Limit(name, {a.meaning.value.number, b.meaning.value.number})),
                  IF a.meaning.ok THEN Both(a, b) ELSE a.meaning.deps))

Conditional(a, b, c) ==
  LET taken == IF a.meaning.value.number # 0 THEN b ELSE c IN
  Operand(Ternary, Shown(a, 1) \o <<Op("?")>> \o Shown(b, 0) \o <<Op(":")>> \o Shown(c, 0),
          Meaning(IsNumber(a) /\ taken.meaning.ok, taken.meaning.value,
                  IF IsNumber(a) THEN Both(a, taken) ELSE a.meaning.deps))

(* The variables are bound first; then operands are pushed, and operators   *)
(* take theirs from the top.  The operators left can join what is there.    *)
Joinable == Len(operands') <= 1 + 2 * (MaxGrowth - growth')

Bind(bindings) ==
  /\ operands = <<>>
  /\ bound' = bindings
  /\ UNCHANGED <<operands, growth>>

Push(leaf) ==
  /\ operands' = Append(operands, leaf)
  /\ UNCHANGED <<bound, growth>>
  /\ Joinable

(* The i-th operand from the top.                                           *)
Operands(i) == operands[Len(operands) + 1 - i]

Reduce(n, a) ==
  /\ Len(operands) >= n
  /\ operands' = Append(SubSeq(operands, 1, Len(operands) - n), a)
  /\ growth' = growth + 1
  /\ UNCHANGED bound
  /\ Joinable

ExpressionNext ==
  \/ \E names \in SUBSET Variables : \E bindings \in [names -> Bindings] : Bind(bindings)
  \/ \E leaf \in Leaves : Push(leaf)
  \/ \E sign \in Signs : Reduce(1, Signed(sign, Operands(1)))
  \/ \E op \in Levels[1] : Reduce(2, Equated(op, Operands(2), Operands(1)))
  \/ \E level \in 2..4 : \E op \in Levels[level] :
       Reduce(2, Computed(level, op, Operands(2), Operands(1)))
  \/ \E name \in {"min", "max"} : Reduce(2, Function(name, Operands(2), Operands(1)))
  \/ Reduce(3, Conditional(Operands(3), Operands(2), Operands(1)))

ExpressionSpec == ExpressionInit /\ [][ExpressionNext]_expressionVars

-----------------------------------------------------------------------------
(* An expression evaluates to what it means, and depends on exactly the     *)
(* variables its evaluation has to read: not on those of a branch that is   *)
(* not taken ("it cannot fail the whole expression or add a dependency"),   *)
(* and on those that are not defined yet too, so that their definition      *)
(* re-applies the style.  A bare name that is not defined fails.            *)
EvaluatesLazily ==
  operands # <<>> =>
    LET found == Expand(Operands(1).tokens, bound)
        meant == Operands(1).meaning
        bare == Len(Operands(1).tokens) = 1 /\ Operands(1).tokens[1].kind = "name" IN
    /\ found.deps = meant.deps
    /\ found.ok <=> meant.ok /\ (bare => Operands(1).tokens[1].word \in DOMAIN bound)
    /\ found.ok => found.value = meant.value
=============================================================================
