\* A script shell without job control: fg/bg jobs, pipelines, wait, and
\* fork() failing; children only exit.  Safety and liveness together (no
\* symmetry, so that the liveness check is sound).
CONSTANTS
  Pids = {p1, p2}
  ExitCodes <- MCExitCodes
  MaxJobSlots <- MCMaxJobSlots
  JobTabGrow <- MCJobTabGrow
  MaxStages = 2
  JobCtl = FALSE
  ReusePids = FALSE
  ForkMayFail = TRUE
  PipeMayFail = FALSE
  ExternalSignals = FALSE
  Interactive = TRUE
SPECIFICATION Spec
INVARIANTS
  TypeOK
  CurjobChainIsTable
  ShellViewSound
PROPERTIES
  WaitReturnsOnlyWhenIdle
  ShellReturnsToPrompt
