------------------------------- MODULE MCJobs -------------------------------
(* Instantiation of Jobs for TLC.  The pids are model values given in the  *)
(* .cfg files; the job table grows by 4 slots as growjobtab() does and the  *)
(* model allows one growth, so slots 1..4 exist.                           *)
EXTENDS Jobs

MCJobTabGrow == 4
MCMaxJobSlots == 4
MCExitCodes == {0, 1}
\* For the liveness runs: whether a job ends does not depend on its code.
MCOneExitCode == {1}

\* Pids are interchangeable: no definition orders or names a particular pid.
PidSymmetry == Permutations(Pids)
====
