--------------------------------- MODULE Eval ---------------------------------
(***************************************************************************)
(* The expression evaluator (eval.c), which the statistics database uses   *)
(* for its formulas, DLite! for every argument and the trace ranges for    *)
(* their symbols.  It is a recursive descent over a string, one token of   *)
(* lookahead deep; the parsing operators take and return its state.        *)
(*                                                                         *)
(* A text is a sequence of characters.  Integers are W bits wide, longs,   *)
(* qwords and addresses twice that; a double is an exact fraction.         *)
(***************************************************************************)
EXTENDS Integers, Sequences, FiniteSets

CONSTANTS
  W,
  Letters, Digits, HexDigits,   \* characters; HexDigits are among the letters
  Numerals                      \* [text -> [whole, n, d]]: what strtol(), strtod() read

Reg == 2 ^ W
Wide == Reg * Reg
Signed(x, m) == LET y == x % m IN IF 2 * y >= m THEN y - m ELSE y
Quot(x, y) ==
  LET a == IF x < 0 THEN -x ELSE x
      b == IF y < 0 THEN -y ELSE y
  IN  IF (x < 0) = (y < 0) THEN a \div b ELSE -(a \div b)

Val(t, n) == [t |-> t, n |-> n, d |-> 1]
Frac(t, n, d) == [t |-> t, n |-> IF d < 0 THEN -n ELSE n, d |-> IF d < 0 THEN -d ELSE d]
err_value == Val("int", 0)

-----------------------------------------------------------------------------
(* The tokens.                                                             *)

tok_map(c) ==
  CASE c \in Letters -> "ident" [] c \in Digits \cup {"."} -> "const"
    [] c \in {"+", "-", "*", "/", "(", ")"} -> c
    [] c \in {" ", "\t"} -> "whitespace" [] OTHER -> "invalid"

First(S) == CHOOSE i \in S : \A j \in S : i <= j
\* A constant goes on over e and x, a sign after an e, and after an x hex digits.
ConstGoesOn(text, from, i) ==
  \/ tok_map(text[i]) = "const" \/ text[i] \in {"e", "x"}
  \/ text[i] \in {"+", "-"} /\ text[i - 1] = "e" /\ i - 1 > from
  \/ text[i] \in HexDigits /\ \E j \in from + 1 .. i - 1 : text[j] = "x"
IdentGoesOn(text, i) == tok_map(text[i]) \in {"ident", "const"}

\* The token that begins at a character.
TokenEnds(es, tok, at, i) ==
  \/ i > Len(es.text)
  \/ tok = "ident" /\ ~IdentGoesOn(es.text, i)
  \/ tok = "const" /\ ~ConstGoesOn(es.text, at, i)
  \/ tok \notin {"ident", "const"}
Token(es, tok, at, end) ==
  [es EXCEPT !.tok = tok, !.p = end, !.buf = SubSeq(es.text, at, end - 1)]
TokenAt(es, tok, at) ==
  Token(es, tok, at, First({i \in at + 1 .. Len(es.text) + 1 : TokenEnds(es, tok, at, i)}))
TokenIn(es, dark) ==
  IF dark = {} THEN [es EXCEPT !.tok = "eof", !.p = Len(es.text) + 1, !.buf = <<>>]
  ELSE TokenAt(es, tok_map(es.text[First(dark)]), First(dark))
get_next_token(es) ==
  IF es.peek # "invalid" THEN [es EXCEPT !.tok = es.peek, !.peek = "invalid"]
  ELSE TokenIn(es, {i \in es.p .. Len(es.text) : tok_map(es.text[i]) # "whitespace"})

\* "invalid" also says that no token has been looked at.
Peeked(es) == [es EXCEPT !.peek = es.tok]
peek_next_token(es) ==
  IF es.peek # "invalid" THEN [es EXCEPT !.tok = es.peek]
  ELSE Peeked(get_next_token([es EXCEPT !.lastp = es.p]))

-----------------------------------------------------------------------------
(* Values.                                                                 *)

result_type(t, u) ==
  LET order == <<"double", "float", "qword", "sqword", "addr", "uint", "int">>
  IN  order[First({k \in DOMAIN order : order[k] \in {t, u}})]

\* eval_as_...(); a fraction is cut off where an integer is wanted.
Whole(v) == Quot(v.n, v.d)
AsReal(v) == [n |-> v.n, d |-> v.d]
AsWide(v, t) == IF t = "sqword" THEN Signed(Whole(v), Wide) ELSE Whole(v) % Wide
AsNarrow(v, t) == IF t = "int" THEN Signed(Whole(v), Reg) ELSE Whole(v) % Reg
As(v, t) == IF t \in {"int", "uint"} THEN AsNarrow(v, t) ELSE AsWide(v, t)
InType(x, t) == As(Val(t, x), t)

Real(t) == t \in {"float", "double"}
RealSum(t, a, b) == Frac(t, a.n * b.d + b.n * a.d, a.d * b.d)
RealDifference(t, a, b) == Frac(t, a.n * b.d - b.n * a.d, a.d * b.d)
RealProduct(t, a, b) == Frac(t, a.n * b.n, a.d * b.d)
RealQuotient(t, a, b) == Frac(t, a.n * b.d, a.d * b.n)
OnReals(op, t, a, b) ==
  CASE op = "+" -> RealSum(t, a, b)       [] op = "-" -> RealDifference(t, a, b)
    [] op = "*" -> RealProduct(t, a, b)   [] op = "/" -> RealQuotient(t, a, b)
OnInts(op, x, y) ==
  CASE op = "+" -> x + y [] op = "-" -> x - y [] op = "*" -> x * y [] op = "/" -> Quot(x, y)

\* Every operator refuses a symbol and works in the type of the wider operand.
ArithIn(t, op, v, w) ==
  IF Real(t) THEN OnReals(op, t, AsReal(v), AsReal(w)) ELSE Val(t, InType(OnInts(op, As(v, t), As(w, t)), t))
Arith(es, op, v, w) ==
  IF "symbol" \in {v.t, w.t} THEN [es EXCEPT !.val = err_value, !.error = "BADEXPR"]
  ELSE [es EXCEPT !.val = ArithIn(result_type(v.t, w.t), op, v, w)]

f_add(es, v, w) == Arith(es, "+", v, w)
f_sub_Swapped(es, v, w) == Arith(es, "-", w, v)
f_sub(es, v, w) == Arith(es, "-", v, w)
f_mult(es, v, w) == Arith(es, "*", v, w)
f_div(es, v, w) == Arith(es, "/", v, w)

f_neg(es, v) ==
  LET neg == CASE Real(v.t) -> Frac(v.t, -v.n, v.d)
               [] v.t \in {"qword", "sqword"} -> Val("sqword", Signed(-v.n, Wide))
               [] v.t = "addr" -> Val("addr", (-v.n) % Wide)
               [] v.t = "uint" -> Val(IF 2 * v.n > Reg THEN "sqword" ELSE "int", -v.n)
               [] v.t = "int" -> IF 2 * v.n = -Reg THEN Val("uint", -v.n) ELSE Val("int", -v.n)
  IN  IF v.t = "symbol" THEN [es EXCEPT !.val = err_value, !.error = "BADEXPR"]
      ELSE [es EXCEPT !.val = neg]

f_eq_zero(v) == v.t # "symbol" /\ v.n = 0

\* strtol() and strtoul() read longs, which are then cut to ints.
constant(es) ==
  LET c == Numerals[es.buf]
  IN  IF es.buf \notin DOMAIN Numerals
      THEN [es EXCEPT !.val = err_value, !.error = "BADCONST"]
      ELSE [es EXCEPT !.val =
              CASE c.whole /\ 2 * c.n < Wide -> Val("int", Signed(c.n, Reg))
                [] c.whole /\ 2 * c.n >= Wide /\ c.n < Wide -> Val("uint", c.n % Reg)
                [] OTHER -> Frac("double", c.n, c.d)]

\* The caller's f_eval_ident(): env has the value of the names it knows, or the
\* error the evaluation of one ended with.
EvalIdent(es) ==
  IF es.buf \notin DOMAIN es.env
  THEN [es EXCEPT !.val = err_value, !.error = "UNDEFVAR"]
  ELSE [es EXCEPT !.val = es.env[es.buf].val, !.error = es.env[es.buf].error]

-----------------------------------------------------------------------------
(* The parser.                                                             *)

Failed(es, e) == [es EXCEPT !.val = err_value, !.error = e]
RECURSIVE expr(_), term(_), factor(_)

\* Each takes what the operand before has left.
Negation(es) == IF es.error # "NOERR" THEN es ELSE f_neg(es, es.val)
Closed(es) == IF es.tok # ")" THEN Failed(es, "UPAREN") ELSE get_next_token(es)
Group(es) == IF es.error # "NOERR" THEN es ELSE Closed(peek_next_token(es))
FactorAt(es) ==
  CASE es.tok = "(" -> Group(expr(get_next_token(es)))
    [] es.tok = "-" -> Negation(factor(get_next_token(es)))
    [] es.tok = "ident" -> EvalIdent(get_next_token(es))
    [] es.tok = "const" -> constant(get_next_token(es))
    [] OTHER -> Failed(es, "NOTERM")
factor(es) == FactorAt(peek_next_token(es))

\* A right operand in error still reaches f_add(), f_sub() and f_mult(), which
\* complain of a symbol on the left instead.
Spoiled(left, right) == IF left.val.t = "symbol" THEN Failed(right, "BADEXPR") ELSE right
Multiplied(left, right) == IF right.error # "NOERR" THEN Spoiled(left, right) ELSE f_mult(right, left.val, right.val)
Divided(left, right) ==
  IF right.error # "NOERR" THEN right
  ELSE IF f_eq_zero(right.val) THEN Failed(right, "DIV0")
  ELSE f_div(right, left.val, right.val)
TermAt(left, es) ==
  CASE es.tok = "*" -> Multiplied(left, term(get_next_token(es)))
    [] es.tok = "/" -> Divided(left, term(get_next_token(es)))
    [] OTHER -> es
TermAfter(left) == IF left.error # "NOERR" THEN left ELSE TermAt(left, peek_next_token(left))
term(es) == TermAfter(factor(es))

Added(left, right) == IF right.error # "NOERR" THEN Spoiled(left, right) ELSE f_add(right, left.val, right.val)
Subtracted(left, right) ==
  IF right.error # "NOERR" THEN Spoiled(left, right) ELSE f_sub(right, left.val, right.val)
ExprAt(left, es) ==
  CASE es.tok = "+" -> Added(left, expr(get_next_token(es)))
    [] es.tok = "-" -> Subtracted(left, expr(get_next_token(es)))
    [] OTHER -> es
ExprAfter(left) == IF left.error # "NOERR" THEN left ELSE ExprAt(left, peek_next_token(left))
expr(es) == ExprAfter(term(es))

eval_new(text, env) ==
  [text |-> text, env |-> env, p |-> 1, lastp |-> 1, tok |-> "invalid", peek |-> "invalid",
   buf |-> <<>>, val |-> err_value, error |-> "NOERR"]
\* The value, the error, and how far the text was used.
Evaluated(es) ==
  [val |-> es.val, error |-> es.error, endp |-> IF es.peek # "invalid" THEN es.lastp ELSE es.p]
eval_expr(text, env) == Evaluated(expr(eval_new(text, env)))

-----------------------------------------------------------------------------
(* What an expression means: a tree, its text in the fewest parentheses,   *)
(* and its value in the arithmetic of the integers and the fractions.      *)

CONSTANTS
  Idents,       \* [name -> value]
  Trees,        \* expressions
  Noise         \* where an illegal character may stand
VARIABLES tree, noise, text, result
evalVars == <<tree, noise, text, result>>

Leaf(t) == t.op = "leaf"
Binds(t) == CASE t.op \in {"+", "-"} -> 1 [] t.op \in {"*", "/"} -> 2 [] OTHER -> 3
RECURSIVE Text(_)
Bracketed(t, l) == IF Binds(t) < l THEN <<"(">> \o Text(t) \o <<")">> ELSE Text(t)
Text(t) ==
  CASE t.op = "leaf" -> t.word
    [] t.op = "neg" -> <<"-">> \o Bracketed(t.r, 3)
    [] OTHER -> Bracketed(t.l, Binds(t)) \o <<t.op>> \o Bracketed(t.r, Binds(t) + 1)

Known(values) == [w \in DOMAIN values |-> [val |-> values[w], error |-> "NOERR"]]
EvalInit ==
  /\ tree \in Trees /\ noise \in Noise
  /\ text = Text(tree) /\ result = [error |-> "none"]
\* An illegal character, between two tokens.
Disturb ==
  /\ result.error = "none" /\ text = Text(tree)
  /\ noise > 0 /\ noise <= Len(text) + 1
  /\ noise <= Len(text) /\ noise > 1 => ~(IdentGoesOn(text, noise) /\ IdentGoesOn(text, noise - 1))
  /\ text' = SubSeq(text, 1, noise - 1) \o <<"@">> \o SubSeq(text, noise, Len(text))
  /\ UNCHANGED <<tree, noise, result>>
Evaluate ==
  /\ result.error = "none"
  /\ result' = eval_expr(text, Known(Idents))
  /\ UNCHANGED <<tree, noise, text>>
EvalNext == Disturb \/ Evaluate
EvalSpec == EvalInit /\ [][EvalNext]_evalVars

LeafValue(values, word) ==
  IF word \in DOMAIN values THEN values[word]
  ELSE LET c == Numerals[word]
       IN  IF ~c.whole \/ c.n >= Wide THEN Frac("double", c.n, c.d)
           ELSE Val(IF 2 * c.n >= Wide THEN "uint" ELSE "int", c.n)

RECURSIVE Meaning(_, _)
\* The type and the exact value; d = 0 where a divisor is zero.
Meaning(t, values) ==
  LET a == Meaning(t.l, values)
      b == Meaning(t.r, values)
      u == result_type(a.t, b.t)
  IN  CASE t.op = "leaf" -> LeafValue(values, t.word)
        [] t.op = "neg" ->
             [b EXCEPT !.n = -@, !.t = CASE @ = "qword" -> "sqword"
                                         [] @ = "uint" -> IF 2 * b.n > Reg THEN "sqword" ELSE "int"
                                         [] @ = "int" /\ 2 * b.n = -Reg -> "uint"
                                         [] OTHER -> @]
        [] t.op \in {"+", "-", "*", "/"} /\ 0 \in {a.d, b.d} -> Frac("int", 0, 0)
        [] t.op = "/" /\ a.d # 0 /\ b.d # 0 /\ b.n = 0 -> Frac("int", 0, 0)
        [] t.op = "+" -> RealSum(u, a, b)
        [] t.op = "-" -> RealDifference(u, a, b)
        [] t.op = "*" -> RealProduct(u, a, b)
        [] t.op = "/" -> IF Real(u) THEN RealQuotient(u, a, b) ELSE Val(u, Quot(a.n, b.n))

Holds(u, v) == Real(u) \/ v.d = 0 \/ InType(v.n, u) = v.n
RECURSIVE Wraps(_, _)
\* Some value does not fit the type it is worked out in.
Wraps(t, values) ==
  LET l == Meaning(t.l, values)
      r == Meaning(t.r, values)
      u == result_type(l.t, r.t)
      v == Meaning(t, values)
  IN  \/ ~Holds(v.t, v)
      \/ t.op # "leaf" /\ Wraps(t.r, values)
      \/ t.op \notin {"leaf", "neg"} /\ (Wraps(t.l, values) \/ ~Holds(u, l) \/ ~Holds(u, r))
RECURSIVE Chains(_, _)
\* a - b - c is read a - (b - c), a / b / c and a * b / c likewise; a sum or a
\* product may wrap that way only.
Chains(t, values) ==
  \/ t.op \notin {"leaf", "neg"} /\
       \/ Chains(t.l, values)
       \/ t.l.op = "-" /\ t.op \in {"+", "-"}
       \/ t.l.op \in {"*", "/"} /\ t.op = "/"
       \/ t.l.op = "/" /\ t.op = "*"
       \/ Binds(t.l) = Binds(t) /\ Wraps([op |-> t.op, l |-> t.l.r, r |-> t.r], values)
  \/ t.op # "leaf" /\ Chains(t.r, values)
\* A number that ends in e takes the sign after it.
Glues == \E i \in 2 .. Len(text) - 1 :
           text[i] = "e" /\ text[i + 1] \in {"+", "-"} /\ text[i - 1] \in Digits \cup {"x"}

SameValue(v, w) == v.t = w.t /\ v.n * w.d = w.n * v.d

AfterOperand ==
  \E i \in 2 .. Len(text) :
    text[i] = "@" /\ (text[i - 1] = ")" \/ tok_map(text[i - 1]) \in {"ident", "const"})
\* What an accepted expression is worth is its value, unless it wraps, chains or
\* glues; a divisor of zero is refused; and an expression with an illegal
\* character in it is never taken for a whole one, but for the character that
\* stands right after an operand.
ExpressionsMeanWhatTheySay ==
  result.error # "none" /\ ~Wraps(tree, Idents) /\ ~Chains(tree, Idents) /\ ~Glues =>
    LET disturbed == text # Text(tree)
        v == Meaning(tree, Idents)
        taken == result.error = "NOERR" /\ result.endp = Len(text) + 1
    IN  /\ ~disturbed /\ v.d # 0 => taken
        /\ taken => SameValue(v, result.val) /\ v.d # 0
        /\ taken /\ disturbed => AfterOperand
=============================================================================
