\* A shell with job control (set -m), interactive: children are stopped and
\* continued by signals from outside and fg and bg restart them.
\* Safety and liveness together; one exit code keeps the liveness check
\* within bounds (whether a job ends does not depend on its code).
CONSTANTS
  Pids = {p1, p2}
  ExitCodes <- MCOneExitCode
  MaxJobSlots <- MCMaxJobSlots
  JobTabGrow <- MCJobTabGrow
  MaxStages = 2
  JobCtl = TRUE
  ReusePids = FALSE
  ForkMayFail = FALSE
  PipeMayFail = FALSE
  ExternalSignals = TRUE
  Interactive = TRUE
SPECIFICATION Spec
INVARIANTS
  CurjobChainIsTable
  ShellViewSound
PROPERTIES
  ShellReturnsToPrompt
