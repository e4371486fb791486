------------------------------ MODULE RedirStack ------------------------------
(***************************************************************************)
(* What the redirection code promises the evaluator, without descriptors  *)
(* >= 10 or renamed[] codes: `fds` is what each descriptor a script can    *)
(* name refers to, `saved` a stack of frames.  A redirection list acts on  *)
(* fds node by node: n>file makes n the file, n>&m makes n refer to what m *)
(* does, n>&- closes n.  A block's list pushes a frame holding the values  *)
(* of the descriptors it names and then acts; popping frames puts those    *)
(* values back and leaves the others as they are.  `exec`'s list acts     *)
(* without a frame, and what it does stays.  A command's own list is      *)
(* undone when the command ends, so it is no step here at all.            *)
(***************************************************************************)
EXTENDS Integers, Sequences

CONSTANTS
  Fds,          \* the descriptors a script names
  Values,       \* what a descriptor may refer to
  InitTable,    \* fds when the shell starts
  ClosedV,      \* the value of a closed descriptor
  FileV,        \* the value of a descriptor a redirection opened a file on
  ExecLists,    \* the redirection lists of `exec`
  BlockLists    \* the redirection lists of `{ ...; } >f` blocks

VARIABLES fds, saved

vars == <<fds, saved>>

Init == fds = InitTable /\ saved = <<>>

(* One node on table f: the new table, whether it fails (n>&m with m     *)
(* closed; the open of a file fails when `fails`), and whether n has     *)
(* been touched.  n>&m that fails leaves n closed unless an earlier node  *)
(* of the same list named n: its value was moved away to be saved.       *)
Act(f, n, fails, named) ==
  CASE n.op = "file" /\ fails -> [f |-> f, err |-> TRUE, touched |-> FALSE]
    [] n.op = "file" -> [f |-> [f EXCEPT ![n.fd] = FileV], err |-> FALSE, touched |-> TRUE]
    [] n.op = "close" -> [f |-> [f EXCEPT ![n.fd] = ClosedV], err |-> FALSE, touched |-> TRUE]
    [] n.dupfd = n.fd -> [f |-> f, err |-> FALSE, touched |-> FALSE]
    [] f[n.dupfd] = ClosedV ->
         [f |-> IF n.fd \in named THEN f ELSE [f EXCEPT ![n.fd] = ClosedV],
          err |-> TRUE, touched |-> TRUE]
    [] OTHER -> [f |-> [f EXCEPT ![n.fd] = f[n.dupfd]], err |-> FALSE, touched |-> TRUE]

(* The list l on table f up to its first failure; node `fail` is a file  *)
(* that cannot be opened (0: none).  `named` is the set of descriptors  *)
(* the nodes that ran touched.                                          *)
RECURSIVE RunFrom(_, _, _, _, _)
RunFrom(f, l, fail, k, named) ==
  IF k > Len(l) THEN [f |-> f, err |-> FALSE, named |-> named]
  ELSE LET a == Act(f, l[k], k = fail, named)
           nm == IF a.touched THEN named \cup {l[k].fd} ELSE named
       IN IF a.err THEN [f |-> a.f, err |-> TRUE, named |-> nm]
          ELSE RunFrom(a.f, l, fail, k + 1, nm)
Run(f, l, fail) == RunFrom(f, l, fail, 1, {})

FailChoice(l) == 0..Len(l)

Frame(S) == [d \in S |-> fds[d]]

\* a block's list succeeds: its frame is pushed, its nodes act
Push ==
  \E l \in BlockLists : \E fail \in FailChoice(l) :
    LET r == Run(fds, l, fail)
    IN /\ ~r.err
       /\ saved' = Append(saved, Frame(r.named))
       /\ fds' = r.f

\* exec's list succeeds: its nodes act and stay
Exec ==
  \E l \in ExecLists : \E fail \in FailChoice(l) :
    LET r == Run(fds, l, fail)
    IN /\ ~r.err
       /\ fds' = r.f
       /\ UNCHANGED saved

\* exec's list fails where nothing unwinds (the shell is on its way out):
\* what ran stays, under a frame of the descriptors it touched
ExecFails ==
  \E l \in ExecLists : \E fail \in FailChoice(l) :
    LET r == Run(fds, l, fail)
    IN /\ r.err
       /\ saved' = Append(saved, Frame(r.named))
       /\ fds' = r.f

\* the value frame k of `saved` gives back to d when the frames above
\* depth k are popped, innermost first: the outermost frame recording d
\* wins; none recording d leaves it as it is
Restored(d, k) ==
  LET ks == {j \in k + 1..Len(saved) : d \in DOMAIN saved[j]}
  IN IF ks = {} THEN fds[d]
     ELSE saved[CHOOSE j \in ks : \A i \in ks : j <= i][d]

\* pop every frame above depth k (k = Len(saved) - 1 is a single pop)
PopTo(k) ==
  /\ fds' = [d \in Fds |-> Restored(d, k)]
  /\ saved' = SubSeq(saved, 1, k)

Next == Push \/ Exec \/ ExecFails \/ \E k \in 0..Len(saved) - 1 : PopTo(k)

Spec == Init /\ [][Next]_vars
====
