------------------------------- MODULE MCVars -------------------------------
EXTENDS Vars, TLC

\* One variable, in the environment with value v1.
MCInitVal == [n \in Names |-> "v1"]

\* Heap blocks and funcnodes are told apart only by being allocated.
MCSymmetry == Permutations(Heap) \cup Permutations(FuncIds)

\* Successors never read `last` (only the refinement reads last'), so states
\* that differ only in it have the same behaviours from there on.
MCView == <<vartab, localvars, heap, nlv, lostlv, bad, stranded, optlist, tab, fcount, flive, calls>>

=============================================================================
