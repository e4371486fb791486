\* `break` in a loop while two trapped signals are flagged.
CONSTANTS
  NSig = 2
  Actions <- MCCmdAction
  ExitCodes <- MCExitCodes
  BreakCmd = TRUE
  MaxLoopNest = 1
  MaxSignals = 2
  UserFds <- MCUserFds
  SaveFds = {}
  InitFiles <- MCInitFiles
  RedirLists <- MCNoRedirs
  BlockLists <- MCNoRedirs
  MaxRedirNest = 0
  Interactive = FALSE
SPECIFICATION Spec
INVARIANTS
  FlaggedSignalIsPending
