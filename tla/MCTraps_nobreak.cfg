\* Scripts whose traps and commands never break or return: dotrap() never
\* stops early.  Two signals may arrive, so that one comes while the other's
\* trap runs.
CONSTANTS
  NSig = 2
  Actions <- MCCmdAction
  ExitCodes <- MCExitCodes
  BreakCmd = FALSE
  MaxLoopNest = 1
  MaxSignals = 2
  UserFds <- MCUserFds
  SaveFds = {}
  InitFiles <- MCInitFiles
  RedirLists <- MCNoRedirs
  BlockLists <- MCNoRedirs
  MaxRedirNest = 0
  Interactive = FALSE
SPECIFICATION Spec
INVARIANTS
  FlaggedSignalIsPending
PROPERTIES
  SignalEventuallyHandled
