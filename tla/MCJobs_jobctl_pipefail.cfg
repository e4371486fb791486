\* A shell with job control where pipe() fails before the first stage of a
\* pipeline is forked: the job stays with no process.  The shell is
\* interactive; fg or bg on such a job kills it (pc = "crash"), a state
\* with no successor.  One pid keeps the table of such jobs small.
CONSTANTS
  Pids = {p1}
  ExitCodes <- MCExitCodes
  MaxJobSlots <- MCMaxJobSlots
  JobTabGrow <- MCJobTabGrow
  MaxStages = 2
  JobCtl = TRUE
  ReusePids = FALSE
  ForkMayFail = FALSE
  PipeMayFail = TRUE
  ExternalSignals = TRUE
  Interactive = TRUE
SPECIFICATION Spec
INVARIANTS
  CurjobChainIsTable
  ShellViewSound
CHECK_DEADLOCK FALSE
