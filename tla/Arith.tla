------------------------------- MODULE Arith -------------------------------
(***************************************************************************)
(* The shell's arithmetic evaluator (src/mk/mkdash.c: yylex, primary,      *)
(* binop2, binop, and, or, cond, assignment, arith, do_binop) and the      *)
(* variable reads and writes it makes (lookupvarint, setvarint, atomax).  *)
(*                                                                         *)
(* The evaluator is a recursive descent that reads its input through the   *)
(* globals arith_buf, yylval and last_token.  Each routine is translated   *)
(* to an operator from a parser state S to a record [s |-> S', v |-> the   *)
(* intmax_t it returns].  S holds the input (a sequence of one-character   *)
(* strings), arith_buf as a position in it, yylval, last_token, the        *)
(* variables (name |-> value string) and whether yyerror() has been        *)
(* raised; after that every routine returns at once, as the longjmp does.  *)
(*                                                                         *)
(* Values stay far inside the range of intmax_t for the inputs checked,   *)
(* so + - * are exact; / and % truncate as C does.                         *)
(***************************************************************************)
EXTENDS Integers, SequencesExt, Bitwise, TLC

CONSTANTS
  Inputs,   \* the expressions $(( )) may hold (sequences of characters)
  XVals,    \* the strings variable x may hold before the expansion
  Junk      \* what yylval.val reads when yylval holds a name (noeval only)

\* Token numbers (ARITH_* in mkdash.c)
ASS == 1
OR == 2
AND == 3
BAD == 4
NUM == 5
VAR == 6
NOT == 7
LE == 8
GE == 9
LT == 10
GT == 11
EQ == 12
REM == 13
BAND == 14
LSHIFT == 15
RSHIFT == 16
MUL == 17
ADD == 18
BOR == 19
SUB == 20
BXOR == 21
DIV == 22
NE == 23
LPAREN == 34
RPAREN == 35
BNOT == 36
QMARK == 37
COLON == 38
BINOP_MIN == 8
BINOP_MAX == 24
ASS_MIN == 24
ASS_MAX == 34
MAX_PREC == 8

\* the prec[] table
Prec(op) ==
  CASE op \in {MUL, DIV, REM} -> 0
    [] op \in {ADD, SUB}      -> 1
    [] op \in {LSHIFT, RSHIFT} -> 2
    [] op \in {LT, LE, GT, GE} -> 3
    [] op \in {EQ, NE}        -> 4
    [] op = BAND              -> 5
    [] op = BXOR              -> 6
    [] op = BOR               -> 7
IsBinop(op) == op >= BINOP_MIN /\ op < BINOP_MAX
HigherPrec(op1, op2) == Prec(op1) < Prec(op2)

-----------------------------------------------------------------------------
(* Characters.                                                            *)
DigitVal ==
  "0" :> 0 @@ "1" :> 1 @@ "2" :> 2 @@ "3" :> 3 @@ "4" :> 4 @@ "5" :> 5 @@
  "6" :> 6 @@ "7" :> 7 @@ "8" :> 8 @@ "9" :> 9 @@ "a" :> 10 @@ "b" :> 11 @@
  "c" :> 12 @@ "d" :> 13 @@ "e" :> 14 @@ "f" :> 15 @@ "A" :> 10 @@
  "B" :> 11 @@ "C" :> 12 @@ "D" :> 13 @@ "E" :> 14 @@ "F" :> 15
Decimal == {"0", "1", "2", "3", "4", "5", "6", "7", "8", "9"}
Letters == {"a", "b", "c", "d", "e", "f", "g", "h", "i", "j", "k", "l", "m",
            "n", "o", "p", "q", "r", "s", "t", "u", "v", "w", "x", "y", "z",
            "A", "B", "C", "D", "E", "F", "G", "H", "I", "J", "K", "L", "M",
            "N", "O", "P", "Q", "R", "S", "T", "U", "V", "W", "X", "Y", "Z", "_"}
Blank == {" ", "\t", "\n"}
\* isspace()
Space == Blank \cup {"\r", "\f"}
IsDigitIn(c, base) == c \in DOMAIN DigitVal /\ DigitVal[c] < base
\* *buf, with "" for the terminating NUL
Ch(in, i) == IF i \in 1..Len(in) THEN in[i] ELSE ""

RECURSIVE SkipIn(_, _, _)
SkipIn(in, i, set) == IF Ch(in, i) \in set THEN SkipIn(in, i + 1, set) ELSE i

RECURSIVE DigitsFrom(_, _, _, _)
DigitsFrom(in, i, base, acc) ==
  IF IsDigitIn(Ch(in, i), base)
  THEN DigitsFrom(in, i + 1, base, acc * base + DigitVal[Ch(in, i)])
  ELSE [val |-> acc, end |-> i]

(* strtoimax(s, &end, 0): blanks, a sign, then 0x hex, 0 octal or decimal *)
(* digits; with no digits the value is 0 and end is s.                    *)
StrToImax(in, i) ==
  LET j == SkipIn(in, i, Space)
      k == IF Ch(in, j) \in {"+", "-"} THEN j + 1 ELSE j
      hex == Ch(in, k) = "0" /\ Ch(in, k + 1) \in {"x", "X"} /\ IsDigitIn(Ch(in, k + 2), 16)
      r == IF hex THEN DigitsFrom(in, k + 2, 16, 0)
           ELSE DigitsFrom(in, k, IF Ch(in, k) = "0" THEN 8 ELSE 10, 0)
  IN IF r.end = k THEN [val |-> 0, end |-> i]
     ELSE [val |-> IF Ch(in, j) = "-" THEN -r.val ELSE r.val, end |-> r.end]

(* atomax(s, 0): strtoimax, then only blanks may follow, else badnum()   *)
(* raises "Illegal number".                                               *)
atomax(s) ==
  LET r == StrToImax(s, 1)
  IN [val |-> r.val, bad |-> Ch(s, SkipIn(s, r.end, Space)) # ""]

(* fmtstr(buf, len, "%jd", val): the decimal digits of val.               *)
RECURSIVE Digits10(_)
Digits10(n) == IF n < 10 THEN <<CHOOSE c \in Decimal : DigitVal[c] = n>>
               ELSE Digits10(n \div 10) \o Digits10(n % 10)
FmtDecimal(v) == IF v < 0 THEN <<"-">> \o Digits10(-v) ELSE Digits10(v)


-----------------------------------------------------------------------------
(* The lexer.  yylval is a union: storing a name makes its val field read *)
(* as the pointer, Junk.                                                  *)
IsInName(c) == c \in Letters \cup Decimal

RECURSIVE NameEnd(_, _)
NameEnd(in, i) == IF IsInName(Ch(in, i)) THEN NameEnd(in, i + 1) ELSE i

\* the characters that are a token by themselves, and those that take "="
Single == "(" :> LPAREN @@ ")" :> RPAREN @@ "~" :> BNOT @@ "?" :> QMARK @@ ":" :> COLON
WithEq == "*" :> MUL @@ "/" :> DIV @@ "%" :> REM @@ "+" :> ADD @@ "-" :> SUB @@ "^" :> BXOR

(* yylex(): skips blanks, reads one token and leaves arith_buf after it; *)
(* at NUL it returns 0 (EOF) and at any other character ARITH_BAD, both  *)
(* without advancing.                                                     *)
yylex(S) ==
  LET b == SkipIn(S.in, S.pos, Blank)
      c == Ch(S.in, b)
      n == Ch(S.in, b + 1)
      Tok(t, len) == [s |-> [S EXCEPT !.pos = b + len], t |-> t]
      OrEq(t, len) == IF Ch(S.in, b + len) = "=" THEN Tok(t + 11, len + 1) ELSE Tok(t, len)
  IN CASE c \in Decimal ->
            LET r == StrToImax(S.in, b)
            IN [s |-> [S EXCEPT !.pos = r.end, !.yylval = [val |-> r.val, name |-> <<>>]],
                t |-> NUM]
       [] c \in Letters ->
            LET e == NameEnd(S.in, b + 1)
            IN [s |-> [S EXCEPT !.pos = e, !.yylval = [val |-> Junk, name |-> SubSeq(S.in, b, e - 1)]],
                t |-> VAR]
       [] c = "" -> Tok(0, 0)
       [] c = "=" -> OrEq(ASS, 1)
       [] c = ">" /\ n = "=" -> Tok(GE, 2)
       [] c = ">" /\ n = ">" -> OrEq(RSHIFT, 2)
       [] c = ">" -> Tok(GT, 1)
       [] c = "<" /\ n = "=" -> Tok(LE, 2)
       [] c = "<" /\ n = "<" -> OrEq(LSHIFT, 2)
       [] c = "<" -> Tok(LT, 1)
       [] c = "|" /\ n = "|" -> Tok(OR, 2)
       [] c = "|" -> OrEq(BOR, 1)
       [] c = "&" /\ n = "&" -> Tok(AND, 2)
       [] c = "&" -> OrEq(BAND, 1)
       [] c = "!" /\ n = "=" -> Tok(NE, 2)
       [] c = "!" -> Tok(NOT, 1)
       [] c \in DOMAIN Single -> Tok(Single[c], 1)
       [] c \in DOMAIN WithEq -> OrEq(WithEq[c], 1)
       [] OTHER -> [s |-> S, t |-> BAD]

-----------------------------------------------------------------------------
(* Results, errors, and the variable accesses.                            *)
\* LET x == e IN F(x), e given to F as an argument
With(e, F(_)) == F(e)
Ret(S, v) == [s |-> S, v |-> v]
\* yyerror() or badnum(): sh_error() longjmps out of arith()
yyerror(S) == Ret([S EXCEPT !.err = TRUE], 0)

lookupvarint(S, name) ==
  LET a == atomax(IF name \in DOMAIN S.vars THEN S.vars[name] ELSE <<>>)
  IN IF a.bad THEN yyerror(S) ELSE Ret(S, a.val)

setvarint(S, name, v) == Ret([S EXCEPT !.vars = (name :> FmtDecimal(v)) @@ @], v)

\* intmax_t as two's complement of width IntWidth (wide enough here)
IntWidth == 24
ToBits(a) == a % 2^IntWidth
FromBits(u) == IF u >= 2^(IntWidth - 1) THEN u - 2^IntWidth ELSE u
\* C's / and %: the quotient truncates toward zero
CDiv(a, b) == LET q == (IF a < 0 THEN -a ELSE a) \div (IF b < 0 THEN -b ELSE b)
              IN IF (a < 0) = (b < 0) THEN q ELSE -q
CRem(a, b) == a - b * CDiv(a, b)
Bool(p) == IF p THEN 1 ELSE 0
\* x86-64 shifts use the count mod 64; >> of a negative value is arithmetic
ShiftR(a, b) == LET k == b % 64
                IN IF k >= IntWidth THEN (IF a < 0 THEN -1 ELSE 0) ELSE a \div 2^k

(* do_binop(): the default case is REM and DIV, where a zero divisor     *)
(* raises "division by zero".                                            *)
do_binop(S, op, a, b) ==
  CASE op = MUL -> Ret(S, a * b)
    [] op = ADD -> Ret(S, a + b)
    [] op = SUB -> Ret(S, a - b)
    [] op = LSHIFT -> Ret(S, a * 2^(b % 64))
    [] op = RSHIFT -> Ret(S, ShiftR(a, b))
    [] op = LT -> Ret(S, Bool(a < b))
    [] op = LE -> Ret(S, Bool(a <= b))
    [] op = GT -> Ret(S, Bool(a > b))
    [] op = GE -> Ret(S, Bool(a >= b))
    [] op = EQ -> Ret(S, Bool(a = b))
    [] op = NE -> Ret(S, Bool(a # b))
    [] op = BAND -> Ret(S, FromBits(ToBits(a) & ToBits(b)))
    [] op = BXOR -> Ret(S, FromBits(ToBits(a) ^^ ToBits(b)))
    [] op = BOR -> Ret(S, FromBits(ToBits(a) | ToBits(b)))
    [] OTHER -> IF b = 0 THEN yyerror(S)
                ELSE Ret(S, IF op = REM THEN CRem(a, b) ELSE CDiv(a, b))


-----------------------------------------------------------------------------
(* The parser.  Each routine is the C function of the same name; a call  *)
(* whose result has err set returns it unchanged (the longjmp).  "val"   *)
(* is the yystype the caller passes by pointer.  The routines call one   *)
(* another through Parse(name, arguments), declared here and defined    *)
(* below as a dispatch on the name.                                      *)

\* op = yylex(); result = f(token, yylval, op, ...) after "token = yylex()"
Next2(S) == LET l1 == yylex(S) l2 == yylex(l1.s)
            IN [s |-> l2.s, token |-> l1.t, val |-> l1.s.yylval, op |-> l2.t]
\* the arguments of primary, and, or and cond
Args(S, token, val, op, noeval) ==
  [S |-> S, token |-> token, val |-> val, op |-> op, noeval |-> noeval]
ArgsNext(n, noeval) == Args(n.s, n.token, n.val, n.op, noeval)

RECURSIVE Parse(_, _)

primary(S, token, val, op, noeval) ==
  CASE token = LPAREN ->
         With(Parse("assignment", [S |-> S, var |-> op, noeval |-> noeval]), LAMBDA r :
         IF r.s.err THEN r
         ELSE IF r.s.last # RPAREN THEN yyerror(r.s)
         ELSE With(yylex(r.s), LAMBDA l : Ret([l.s EXCEPT !.last = l.t], r.v)))
    [] token = NUM -> Ret([S EXCEPT !.last = op], val.val)
    [] token = VAR /\ noeval -> Ret([S EXCEPT !.last = op], val.val)
    [] token = VAR -> lookupvarint([S EXCEPT !.last = op], val.name)
    [] token = ADD ->
         With(yylex(S), LAMBDA l : Parse("primary", Args(l.s, op, S.yylval, l.t, noeval)))
    \* the other unary operators: *val = yylval; f(primary(op, val, yylex()))
    [] token \in {SUB, NOT, BNOT} ->
         With(yylex(S), LAMBDA l :
         With(Parse("primary", Args(l.s, op, S.yylval, l.t, noeval)), LAMBDA r :
         IF r.s.err THEN r
         ELSE Ret(r.s, CASE token = SUB -> -r.v
                         [] token = NOT -> Bool(r.v = 0)
                         [] OTHER -> -r.v - 1)))
    [] OTHER -> yyerror(S)

\* mutant: the loop also goes on at an operator of the caller's level
Binop2ReturnsGt(op2, prec) == ~IsBinop(op2) \/ Prec(op2) > prec

\* binop2() returns when the next operator is not one of higher
\* precedence than the level it was called for
Binop2Returns(op2, prec) == ~IsBinop(op2) \/ Prec(op2) >= prec

(* binop2(): the precedence climber.  The for(;;) loop is the tail call. *)
binop2(S, a, op, prec, noeval) ==
  With(Parse("primary", ArgsNext(Next2(S), noeval)), LAMBDA p :
  With(IF p.s.err THEN p
       ELSE IF IsBinop(p.s.last) /\ HigherPrec(p.s.last, op)
       THEN Parse("binop2", [S |-> p.s, a |-> p.v, op |-> p.s.last,
                          prec |-> Prec(op), noeval |-> noeval])
       ELSE p, LAMBDA q :
  With(IF q.s.err \/ noeval THEN q ELSE do_binop(q.s, op, a, q.v), LAMBDA d :
  IF d.s.err \/ Binop2Returns(d.s.last, prec) THEN d
  ELSE Parse("binop2", [S |-> d.s, a |-> d.v, op |-> d.s.last,
                     prec |-> prec, noeval |-> noeval]))))

binop(S, token, val, op, noeval) ==
  With(Parse("primary", Args(S, token, val, op, noeval)), LAMBDA a :
  IF a.s.err \/ ~IsBinop(a.s.last) THEN a
  ELSE Parse("binop2", [S |-> a.s, a |-> a.v, op |-> a.s.last,
                     prec |-> MAX_PREC, noeval |-> noeval]))

\* mutant: the right operand of && is evaluated whatever the left one is
AndNoevalKept(noeval, a) == noeval

\* noeval | !a: && does not evaluate its right operand after a false one
AndNoeval(noeval, a) == noeval \/ a = 0

(* and() and or(): the right operand is parsed with noeval set when the  *)
(* left one decides the result.                                           *)
and(S, token, val, op, noeval) ==
  With(Parse("binop", Args(S, token, val, op, noeval)), LAMBDA a :
  IF a.s.err \/ a.s.last # AND THEN a
  ELSE With(Parse("and", ArgsNext(Next2(a.s), AndNoeval(noeval, a.v))), LAMBDA b :
       IF b.s.err THEN b ELSE Ret(b.s, Bool(a.v # 0 /\ b.v # 0))))

or(S, token, val, op, noeval) ==
  With(Parse("and", Args(S, token, val, op, noeval)), LAMBDA a :
  IF a.s.err \/ a.s.last # OR THEN a
  ELSE With(Parse("or", ArgsNext(Next2(a.s), noeval \/ a.v # 0)), LAMBDA b :
       IF b.s.err THEN b ELSE Ret(b.s, Bool(a.v # 0 \/ b.v # 0))))

(* cond(): the middle operand is an assignment, the last a cond().       *)
cond(S, token, val, op, noeval) ==
  With(Parse("or", Args(S, token, val, op, noeval)), LAMBDA a :
  IF a.s.err \/ a.s.last # QMARK THEN a
  ELSE With(yylex(a.s), LAMBDA l :
       With(Parse("assignment", [S |-> l.s, var |-> l.t, noeval |-> noeval \/ a.v = 0]), LAMBDA b :
       IF b.s.err THEN b
       ELSE IF b.s.last # COLON THEN yyerror(b.s)
       ELSE With(Parse("cond", ArgsNext(Next2(b.s), noeval \/ a.v # 0)), LAMBDA c :
            IF c.s.err THEN c ELSE Ret(c.s, IF a.v # 0 THEN b.v ELSE c.v)))))

(* assignment(): a name followed by = or op= assigns (right-associative; *)
(* not under noeval), anything else is a cond().                          *)
assignment(S, var, noeval) ==
  With(yylex(S), LAMBDA l :
  IF var # VAR \/ (l.t # ASS /\ (l.t < ASS_MIN \/ l.t >= ASS_MAX))
  THEN Parse("cond", Args(l.s, var, S.yylval, l.t, noeval))
  ELSE With(yylex(l.s), LAMBDA l2 :
       With(Parse("assignment", [S |-> l2.s, var |-> l2.t, noeval |-> noeval]), LAMBDA r :
       IF r.s.err \/ noeval THEN r
       ELSE IF l.t = ASS THEN setvarint(r.s, S.yylval.name, r.v)
       ELSE With(lookupvarint(r.s, S.yylval.name), LAMBDA old :
            IF old.s.err THEN old
            ELSE With(do_binop(old.s, l.t - 11, old.v, r.v), LAMBDA d :
                 IF d.s.err THEN d ELSE setvarint(d.s, S.yylval.name, d.v))))))

\* the call of one routine to another by its name
Parse(fn, x) ==
  CASE fn = "primary" -> primary(x.S, x.token, x.val, x.op, x.noeval)
    [] fn = "binop2" -> binop2(x.S, x.a, x.op, x.prec, x.noeval)
    [] fn = "binop" -> binop(x.S, x.token, x.val, x.op, x.noeval)
    [] fn = "and" -> and(x.S, x.token, x.val, x.op, x.noeval)
    [] fn = "or" -> or(x.S, x.token, x.val, x.op, x.noeval)
    [] fn = "cond" -> cond(x.S, x.token, x.val, x.op, x.noeval)
    [] fn = "assignment" -> assignment(x.S, x.var, x.noeval)

(* arith(s): the whole expression must be consumed ("expecting EOF").    *)
(* yylval and last_token keep whatever an earlier call left in them;    *)
(* the parser reads neither before setting it.                            *)
arith(in, vars) ==
  With(yylex([in |-> in, pos |-> 1, yylval |-> [val |-> 0, name |-> <<>>],
              last |-> 0, vars |-> vars, err |-> FALSE]), LAMBDA l :
  With(Parse("assignment", [S |-> l.s, var |-> l.t, noeval |-> FALSE]), LAMBDA r :
  IF r.s.err THEN r
  ELSE IF r.s.last # 0 THEN yyerror(r.s)
  ELSE r))


-----------------------------------------------------------------------------
(***************************************************************************)
(* The reference: the grammar of the spec's section 4.8, read as C reads  *)
(* it.  Tokens are taken by maximal munch from the operator list; binary  *)
(* operators are left-associative on ten precedence levels below unary;  *)
(* ?: and assignment are right-associative; && and || and the branch of  *)
(* ?: that is not taken are parsed without being evaluated; a zero       *)
(* divisor is an error; a variable that is unset or not a number reads  *)
(* as 0.                                                                  *)
(***************************************************************************)
Chars(str) == [j \in 1..Len(str) |-> SubSeq(str, j, j)]
RefOps == {"<<=", ">>=", "<<", ">>", "<=", ">=", "==", "!=", "&&", "||",
           "+=", "-=", "*=", "/=", "%=", "&=", "^=", "|=", "+", "-", "*", "/",
           "%", "<", ">", "=", "&", "^", "|", "!", "~", "?", ":", "(", ")"}
RefOpChars == [o \in RefOps |-> Chars(o)]
RefAssignOps == {"=", "+=", "-=", "*=", "/=", "%=", "<<=", ">>=", "&=", "^=", "|="}
\* binary operators, from the lowest precedence level to the highest
RefLevels == <<{"||"}, {"&&"}, {"|"}, {"^"}, {"&"}, {"==", "!="},
               {"<", "<=", ">", ">="}, {"<<", ">>"}, {"+", "-"}, {"*", "/", "%"}>>

\* the token at position i: [k |-> kind or operator, v |-> value, name, len]
RefToken(in, i) ==
  LET c == Ch(in, i)
      Matches(o) == i + Len(o) - 1 <= Len(in) /\ SubSeq(in, i, i + Len(o) - 1) = RefOpChars[o]
      ops == {o \in RefOps : Matches(o)}
      hex == c = "0" /\ Ch(in, i + 1) \in {"x", "X"} /\ IsDigitIn(Ch(in, i + 2), 16)
      lit == IF hex THEN DigitsFrom(in, i + 2, 16, 0)
             ELSE DigitsFrom(in, i, IF c = "0" THEN 8 ELSE 10, 0)
  IN CASE c = "" -> [k |-> "eof", v |-> 0, name |-> <<>>, len |-> 0]
       [] c \in Decimal -> [k |-> "num", v |-> lit.val, name |-> <<>>, len |-> lit.end - i]
       [] c \in Letters -> LET e == NameEnd(in, i)
                           IN [k |-> "name", v |-> 0, name |-> SubSeq(in, i, e - 1), len |-> e - i]
       [] ops # {} -> LET o == CHOOSE o \in ops : \A o2 \in ops : Len(o2) <= Len(o)
                      IN [k |-> o, v |-> 0, name |-> <<>>, len |-> Len(o)]
       [] OTHER -> [k |-> "bad", v |-> 0, name |-> <<>>, len |-> 0]

RECURSIVE RefTokensFrom(_, _)
RefTokensFrom(in, i) ==
  LET j == SkipIn(in, i, Blank)
      t == RefToken(in, j)
  IN IF t.k \in {"eof", "bad"} THEN <<t>> ELSE <<t>> \o RefTokensFrom(in, j + t.len)


\* parser state: token index, the variables (name |-> integer), an error
\* raised, and whether a shift count outside 0..63 was evaluated (C leaves
\* the result undefined, and the spec does not define one)
RTok(T, R) == T[IF R.i <= Len(T) THEN R.i ELSE Len(T)]
Adv(R) == [R EXCEPT !.i = @ + 1]
RRet(R, v) == [r |-> R, v |-> v]
RFail(R) == [r |-> [R EXCEPT !.err = TRUE], v |-> 0]
RefLookup(R, name) == IF name \in DOMAIN R.vars THEN R.vars[name] ELSE 0
RefStore(R, name, v) == RRet([R EXCEPT !.vars = (name :> v) @@ @], v)
RefBase == "+=" :> "+" @@ "-=" :> "-" @@ "*=" :> "*" @@ "/=" :> "/" @@
           "%=" :> "%" @@ "<<=" :> "<<" @@ ">>=" :> ">>" @@ "&=" :> "&" @@
           "^=" :> "^" @@ "|=" :> "|"

RefApply(R, o, a, b) ==
  CASE o \in {"/", "%"} /\ b = 0 -> RFail(R)
    [] o \in {"<<", ">>"} /\ b \notin 0..63 -> RRet([R EXCEPT !.undef = TRUE], 0)
    [] o = "*" -> RRet(R, a * b)
    [] o = "/" -> RRet(R, CDiv(a, b))
    [] o = "%" -> RRet(R, CRem(a, b))
    [] o = "+" -> RRet(R, a + b)
    [] o = "-" -> RRet(R, a - b)
    [] o = "<<" -> RRet(R, a * 2^b)
    [] o = ">>" -> RRet(R, IF b >= IntWidth THEN (IF a < 0 THEN -1 ELSE 0) ELSE a \div 2^b)
    [] o = "<" -> RRet(R, Bool(a < b))
    [] o = "<=" -> RRet(R, Bool(a <= b))
    [] o = ">" -> RRet(R, Bool(a > b))
    [] o = ">=" -> RRet(R, Bool(a >= b))
    [] o = "==" -> RRet(R, Bool(a = b))
    [] o = "!=" -> RRet(R, Bool(a # b))
    [] o = "&" -> RRet(R, FromBits(ToBits(a) & ToBits(b)))
    [] o = "^" -> RRet(R, FromBits(ToBits(a) ^^ ToBits(b)))
    [] o = "|" -> RRet(R, FromBits(ToBits(a) | ToBits(b)))

RECURSIVE RefAssign(_, _, _), RefCond(_, _, _), RefLevel(_, _, _, _),
          RefMore(_, _, _, _, _), RefUnary(_, _, _)

\* assignment: name op= assignment, or a conditional expression
RefAssign(T, R, ne) ==
  With(RTok(T, R), LAMBDA t :
  With(RTok(T, Adv(R)).k, LAMBDA o :
  IF t.k # "name" \/ o \notin RefAssignOps THEN RefCond(T, R, ne)
  ELSE With(RefAssign(T, Adv(Adv(R)), ne), LAMBDA rhs :
       IF rhs.r.err \/ ne THEN rhs
       ELSE IF o = "=" THEN RefStore(rhs.r, t.name, rhs.v)
       ELSE With(RefApply(rhs.r, RefBase[o], RefLookup(rhs.r, t.name), rhs.v), LAMBDA app :
            IF app.r.err THEN app ELSE RefStore(app.r, t.name, app.v)))))

\* cond: lor [ ? assignment : cond ]; only the branch taken is evaluated
RefCond(T, R, ne) ==
  With(RefLevel(T, R, 1, ne), LAMBDA a :
  IF a.r.err \/ RTok(T, a.r).k # "?" THEN a
  ELSE With(RefAssign(T, Adv(a.r), ne \/ a.v = 0), LAMBDA b :
       IF b.r.err THEN b
       ELSE IF RTok(T, b.r).k # ":" THEN RFail(b.r)
       ELSE With(RefCond(T, Adv(b.r), ne \/ a.v # 0), LAMBDA c :
            IF c.r.err THEN c ELSE RRet(c.r, IF a.v # 0 THEN b.v ELSE c.v))))

\* level k: operands of level k+1 joined left to right by its operators
RefLevel(T, R, k, ne) ==
  IF k > Len(RefLevels) THEN RefUnary(T, R, ne)
  ELSE With(RefLevel(T, R, k + 1, ne), LAMBDA a :
       IF a.r.err THEN a ELSE RefMore(T, a.r, k, a.v, ne))

RefMore(T, R, k, a, ne) ==
  With(RTok(T, R).k, LAMBDA o :
  IF o \notin RefLevels[k] THEN RRet(R, a)
  ELSE With(ne \/ (o = "&&" /\ a = 0) \/ (o = "||" /\ a # 0), LAMBDA rne :
       With(RefLevel(T, Adv(R), k + 1, rne), LAMBDA b :
       IF b.r.err THEN b
       ELSE With(CASE ne -> RRet(b.r, 0)
                   [] o = "&&" -> RRet(b.r, Bool(a # 0 /\ b.v # 0))
                   [] o = "||" -> RRet(b.r, Bool(a # 0 \/ b.v # 0))
                   [] OTHER -> RefApply(b.r, o, a, b.v), LAMBDA c :
            IF c.r.err THEN c ELSE RefMore(T, c.r, k, c.v, ne)))))

\* unary operators, literals, variables and parentheses
RefUnary(T, R, ne) ==
  With(RTok(T, R), LAMBDA t :
  CASE t.k \in {"+", "-", "!", "~"} ->
         With(RefUnary(T, Adv(R), ne), LAMBDA u :
         IF u.r.err THEN u
         ELSE RRet(u.r, CASE t.k = "+" -> u.v [] t.k = "-" -> -u.v
                          [] t.k = "!" -> Bool(u.v = 0) [] t.k = "~" -> -u.v - 1))
    [] t.k = "num" -> RRet(Adv(R), t.v)
    [] t.k = "name" -> RRet(Adv(R), IF ne THEN 0 ELSE RefLookup(R, t.name))
    [] t.k = "(" -> With(RefAssign(T, Adv(R), ne), LAMBDA e :
                    IF e.r.err THEN e
                    ELSE IF RTok(T, e.r).k # ")" THEN RFail(e.r)
                    ELSE RRet(Adv(e.r), e.v))
    [] OTHER -> RFail(R))

\* a variable's value: a literal, possibly signed, else 0
RefNumeric(str) ==
  LET T == RefTokensFrom(str, 1)
  IN CASE Len(T) = 2 /\ T[1].k = "num" /\ T[2].k = "eof" -> T[1].v
       [] Len(T) = 3 /\ T[1].k \in {"+", "-"} /\ T[2].k = "num" /\ T[3].k = "eof" ->
            IF T[1].k = "-" THEN -T[2].v ELSE T[2].v
       [] OTHER -> 0

RefEval(in, vars) ==
  LET T == RefTokensFrom(in, 1)
      a == RefAssign(T, [i |-> 1, vars |-> [n \in DOMAIN vars |-> RefNumeric(vars[n])],
                         err |-> FALSE, undef |-> FALSE], FALSE)
  IN IF a.r.err THEN a
     ELSE IF RTok(T, a.r).k # "eof" THEN RFail(a.r)
     ELSE a

=============================================================================
