------------------------------ MODULE MCInput ------------------------------
(* Model-checking instance of Input: alias names and string addresses are *)
(* model values, interchangeable in every action.                         *)
EXTENDS Input, TLC

MCSymmetry == Permutations(Names) \cup Permutations(Strs)
====
