----------------------------- MODULE VarScopes -----------------------------
(***************************************************************************)
(* What dash's variable store promises to a script (spec.md, "variable    *)
(* store" and "pop_locals"): every variable has a value or is unset, and  *)
(* may be exported or readonly; a readonly variable keeps its value until  *)
(* the scope that made it local ends.  `local` and the assignments in     *)
(* front of a command record the current value in a scope; when a scope   *)
(* ends, the values it recorded come back, the first record of a name    *)
(* winning.  An error ends the scopes above the point that catches it.    *)
(*                                                                         *)
(* `last` is the command the step ran, as the detailed model reports it:  *)
(* each step below says what that command may do.                         *)
(***************************************************************************)
EXTENDS Naturals, Sequences, FiniteSets

CONSTANTS Names, Vals, Opts, NoVal, NoEq

OptKey == "-"
Keys == Names \cup {OptKey}

\* The abstract value of a variable.
Value == [set : BOOLEAN, v : Vals \cup {NoVal}, exp : BOOLEAN, ro : BOOLEAN]
Unset == [set |-> FALSE, v |-> NoVal, exp |-> FALSE, ro |-> FALSE]

VARIABLES vals,    \* Keys -> Value (Names) or Opts (the key "-")
          frames,  \* Seq of functions from the recorded keys to the saved values
          last     \* the command of the last step

vars == <<vals, frames, last>>

Cmds == {"assign", "prefix", "local", "export", "readonly", "unset", "setopt",
         "call", "notfound", "enter", "return", "leave", "defun", "unsetf", "error", "none"}

TypeOK ==
    /\ \A n \in Names : vals[n] \in Value
    /\ vals[OptKey] \in Opts
    /\ \A i \in DOMAIN frames : DOMAIN frames[i] \subseteq Keys
    /\ last.op \in Cmds

\* The value after a successful `n=v` (the export flag is kept).
Assigned(old, v) == [old EXCEPT !.set = TRUE, !.v = v]

\* A key recorded in some scope (dash has marked it VSTRFIXED).
Recorded(k) == \E i \in DOMAIN frames : k \in DOMAIN frames[i]

\* Restore the scopes above depth d: the innermost ends first, so the value
\* in the outermost record of a name is the one left.
RECURSIVE RestoreAbove(_, _, _)
RestoreAbove(val, fs, d) ==
    IF Len(fs) <= d THEN val
    ELSE LET top == fs[Len(fs)]
         IN  RestoreAbove([k \in Keys |-> IF k \in DOMAIN top THEN top[k] ELSE val[k]],
                          SubSeq(fs, 1, Len(fs) - 1), d)

PopTo(d) ==
    /\ d <= Len(frames)
    /\ vals' = RestoreAbove(vals, frames, d)
    /\ frames' = SubSeq(frames, 1, d)

\* Record k in frame f unless f already has it.
Record(f, k) == IF k \in DOMAIN f THEN f ELSE [x \in DOMAIN f \cup {k} |-> IF x = k THEN vals[k] ELSE f[x]]

RO(n) == n \in Names /\ vals[n].ro

\* A successful command.
Ok(c) == last' = c /\ c.ok

Assign(n, v) ==
    /\ Ok([op |-> "assign", k |-> n, v |-> v, ok |-> TRUE])
    /\ vals' = [vals EXCEPT ![n] = Assigned(@, v)]
    /\ UNCHANGED frames

\* `n=v cmd` for a regular builtin, and a function that is not defined:
\* the assignment is undone when the command ends.
Prefix(op, n, v) ==
    /\ op \in {"prefix", "notfound"}
    /\ Ok([op |-> op, k |-> n, v |-> v, ok |-> TRUE])
    /\ UNCHANGED <<vals, frames>>

Local(k, v) ==
    /\ frames # <<>>
    /\ Ok([op |-> "local", k |-> k, v |-> v, ok |-> TRUE])
    /\ frames' = [frames EXCEPT ![Len(frames)] = Record(@, k)]
    /\ vals' = IF v = NoEq THEN vals ELSE [vals EXCEPT ![k] = Assigned(@, v)]

\* export/readonly, with or without a value.
Flag(op, n, v) ==
    /\ Ok([op |-> op, k |-> n, v |-> v, ok |-> TRUE])
    /\ LET flagged == [vals[n] EXCEPT !.exp = @ \/ op = "export", !.ro = @ \/ op = "readonly"]
       IN vals' = [vals EXCEPT ![n] = IF v = NoEq THEN flagged ELSE Assigned(flagged, v)]
    /\ UNCHANGED frames

\* `unset n`: a variable some scope has recorded keeps its export flag.
UnsetVar(n) ==
    /\ Ok([op |-> "unset", k |-> n, v |-> NoEq, ok |-> TRUE])
    /\ vals' = [vals EXCEPT ![n] = [Unset EXCEPT !.exp = vals[n].exp /\ Recorded(n)]]
    /\ UNCHANGED frames

SetOpt(o) ==
    /\ Ok([op |-> "setopt", k |-> OptKey, v |-> o, ok |-> TRUE])
    /\ vals' = [vals EXCEPT ![OptKey] = o]
    /\ UNCHANGED frames

\* `[n=v] f` for a defined function: the assignment stays, a scope opens.
Call(n, v) ==
    /\ Ok([op |-> "call", k |-> n, v |-> v, ok |-> TRUE])
    /\ vals' = IF v = NoEq THEN vals ELSE [vals EXCEPT ![n] = Assigned(@, v)]
    /\ frames' = Append(frames, <<>>)

\* `[n=v] command eval ...`: a scope opens that records the assignment.
Enter(n, v) ==
    /\ Ok([op |-> "enter", k |-> n, v |-> v, ok |-> TRUE])
    /\ IF v = NoEq
       THEN /\ frames' = Append(frames, <<>>)
            /\ vals' = vals
       ELSE /\ frames' = Append(frames, [x \in {n} |-> vals[n]])
            /\ vals' = [vals EXCEPT ![n] = Assigned(@, v)]

\* A function returns, or the commands of an eval end: one scope ends.
Leave(op) ==
    /\ op \in {"return", "leave"}
    /\ Ok([op |-> op, k |-> NoEq, v |-> NoEq, ok |-> TRUE])
    /\ frames # <<>>
    /\ PopTo(Len(frames) - 1)

\* Defining or removing a function leaves the variables alone.
FuncCmd(op) ==
    /\ op \in {"defun", "unsetf"}
    /\ Ok([op |-> op, k |-> NoEq, v |-> NoEq, ok |-> TRUE])
    /\ UNCHANGED <<vals, frames>>

\* A command fails only for a reason: a value given to a readonly variable,
\* `local` outside any scope, or a command that fails by itself; the scopes
\* above the catching point end.
MayFail(c) ==
    \/ c.op = "error"
    \/ c.op \in {"assign", "prefix", "notfound", "call", "enter", "export", "readonly", "local"}
       /\ c.v \notin {NoEq} \cup Opts
       /\ RO(c.k)
    \/ c.op = "unset" /\ RO(c.k)
    \/ c.op = "local" /\ frames = <<>>

Fail ==
    /\ last'.ok = FALSE
    /\ MayFail(last')
    /\ \E d \in 0..Len(frames) : PopTo(d)

\* A successful command never changes a readonly variable's value.
Allowed(c) == c.v \in Vals => ~RO(c.k)

Next ==
    \/ \E n \in Names, v \in Vals : Assign(n, v) /\ Allowed(last')
    \/ \E op \in {"prefix", "notfound"}, n \in Names, v \in Vals \cup {NoEq} : Prefix(op, n, v) /\ Allowed(last')
    \/ \E n \in Names, v \in Vals \cup {NoEq} : Local(n, v) /\ Allowed(last')
    \/ Local(OptKey, NoEq)
    \/ \E op \in {"export", "readonly"}, n \in Names, v \in Vals \cup {NoEq} : Flag(op, n, v) /\ Allowed(last')
    \/ \E n \in Names : UnsetVar(n) /\ ~RO(n)
    \/ \E o \in Opts : SetOpt(o)
    \/ \E n \in Names, v \in Vals \cup {NoEq} : Call(n, v) /\ Allowed(last')
    \/ \E n \in Names, v \in Vals \cup {NoEq} : Enter(n, v) /\ Allowed(last')
    \/ \E op \in {"return", "leave"} : Leave(op)
    \/ \E op \in {"defun", "unsetf"} : FuncCmd(op)
    \/ Fail

Init ==
    /\ DOMAIN vals = Keys
    /\ \A n \in Names : vals[n] \in Value
    /\ vals[OptKey] \in Opts
    /\ frames = <<>>
    /\ last.op = "none"

Spec == Init /\ [][Next]_vars

=============================================================================
