\* One trapped signal, delivered at most twice (so that it can come again
\* while its own trap runs), every kind of trap action, `break`, errors
\* raised in commands and in trap actions of an interactive shell, and
\* redirections: commands, exec and one level of `{ ...; } >f` block.
\* Four descriptors >= 10 are enough for a block and a command inside it
\* (two saves each).
CONSTANTS
  NSig = 1
  Actions <- MCAllActions
  ExitCodes <- MCExitCodes
  BreakCmd = TRUE
  MaxLoopNest = 1
  MaxSignals = 2
  UserFds <- MCUserFds
  SaveFds = {10, 11, 12, 13}
  InitFiles <- MCInitFiles
  RedirLists <- MCRedirLists
  BlockLists <- MCBlockLists
  MaxRedirNest = 1
  Interactive = TRUE
SPECIFICATION Spec
INVARIANTS
  TypeOK
  TrapcntCounts
  RedirtabPerBlock
PROPERTIES
  
  RedirRefinesStack
