------------------------------ MODULE MCArith ------------------------------
(***************************************************************************)
(* Checks the arithmetic evaluator against the reference grammar over     *)
(* every expression of a bounded set.  A state is an expansion $((expr))  *)
(* about to run with variable x holding the string "before"; Evaluate     *)
(* runs arith() on it, SetX is the shell assigning x before the next one. *)
(***************************************************************************)
EXTENDS Arith

\* the pieces expressions are made of; adjacent pieces may lex as one
\* token ("=" "=" is "=="), which exercises the lexer
Atoms == {"0", "2", "x"}
Units == Atoms \cup {"(", ")", "-", "!", "~", "+", "/", ">", "=", "&", "|",
                     "?", ":", " ", "$"}
\* binary operators of every precedence class, logical ones, assignments
ChainOps == {"-", "/", "%", ">>", "==", "&", "^", "|", "&&", "||", "=", "+="}
Cat(us) == FoldLeft(LAMBDA acc, u : acc \o Chars(u), <<>>, us)

\* every string of at most three pieces
Short == UNION {{Cat(us) : us \in [1..k -> Units]} : k \in 1..3}
\* a o a o a: every pair of operators, precedence and associativity
Chains == {Cat(<<a1, o1, a2, o2, a3>>) : a1, a2, a3 \in Atoms, o1, o2 \in ChainOps}
\* a o a o a o a over one operator of four precedence classes and &&
Chain3Ops == {"-", "/", ">", "&", "&&"}
Chains3 == {Cat(<<a1, o1, a2, o2, a3, o3, a4>>) : a1, a2, a3, a4 \in {"2", "x"},
                                                  o1, o2, o3 \in Chain3Ops}
\* ?: with an operator in one of its operands
Ternaries == {Cat(<<a1, "?", a2, o, a3, ":", a4>>) : a1, a2, a3, a4 \in {"0", "x"}, o \in ChainOps}
             \cup {Cat(<<a1, o, a2, "?", a3, ":", a4>>) : a1, a2, a3, a4 \in {"0", "x"}, o \in ChainOps}
             \cup {Cat(<<a1, "?", a2, ":", a3, o, a4>>) : a1, a2, a3, a4 \in {"0", "x"}, o \in ChainOps}
\* parentheses on either side of an operator
ParenOps == {"-", "/", "&&", "=", "?"}
Parens == {Cat(<<"(", a1, o1, a2, ")", o2, a3>>) : a1, a2, a3 \in Atoms, o1, o2 \in ParenOps}
          \cup {Cat(<<a1, o1, "(", a2, o2, a3, ")">>) : a1, a2, a3 \in Atoms, o1, o2 \in ParenOps}
MCInputs == Short \cup Chains \cup Chains3 \cup Ternaries \cup Parens

\* x empty (reads as 0), and negative with blanks around it
MCXVals == {<<>>, <<" ", "-", "2", " ">>}
\* x set to a string that is not a number
MCXValsText == {<<>>, <<"a">>}
MCJunk == 4096

NotYet == [done |-> FALSE, err |-> FALSE, v |-> 0, vars |-> <<>>]

VARIABLES expr, before, out
vars == <<expr, before, out>>

\* the variables x = b leaves before the expansion
XVarsOf(b) == <<"x">> :> b
XVars == XVarsOf(before)

\* arith() and the reference on every input, each computed once
ArithOf == [e \in Inputs, b \in XVals |-> arith(e, XVarsOf(b))]
RefOf == [e \in Inputs, b \in XVals |-> RefEval(e, XVarsOf(b))]

\* x starts empty, as the shell's own assignment x= leaves it
Init ==
  /\ expr \in Inputs
  /\ before = <<>>
  /\ out = NotYet

Evaluate ==
  /\ out = NotYet
  /\ out' = With(ArithOf[expr, before], LAMBDA r :
              [done |-> TRUE, err |-> r.s.err, v |-> r.v, vars |-> r.s.vars])
  /\ UNCHANGED <<expr, before>>

SetX ==
  /\ \E v \in XVals : before' = v
  /\ out' = NotYet
  /\ UNCHANGED expr

Next == Evaluate \/ SetX

Spec == Init /\ [][Next]_vars

(* The result of $((expr)), whether it fails, and the variables it leaves *)
(* agree with the spec's grammar (section 4.8): precedence climbing in    *)
(* binop2, the noeval flag threaded through and/or/cond, right-to-left    *)
(* assignment, and the lexer's operator matching.                         *)
ArithMatchesReference ==
  out.done =>
    With(RefOf[expr, before], LAMBDA r :
       \/ r.r.undef
       \/ /\ out.err = r.r.err
          /\ ~out.err => /\ out.v = r.v
                         /\ DOMAIN out.vars = DOMAIN r.r.vars
                         /\ \A n \in DOMAIN out.vars : atomax(out.vars[n]).val = r.r.vars[n])
=============================================================================
