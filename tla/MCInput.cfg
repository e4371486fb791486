\* Two aliases, four string addresses (a value and a replaced value being
\* read for each alias; a freed address is handed out again), eval two deep on
\* the base file, two alias frames per file; `command eval` catches errors.
\* The shell stops when cmdloop(1) reads the end of a string file.
CONSTANTS
  Names = {a1, a2}
  Strs = {s1, s2, s3, s4}
  Null = Null
  MaxFiles = 3
  MaxPush = 2
  Interactive = TRUE
SPECIFICATION Spec
SYMMETRY MCSymmetry
INVARIANTS
  TypeOK
  NoDanglingString
  AliasInUseOncePushed
  DeadOnlyInUse
CHECK_DEADLOCK FALSE
PROPERTIES
  AliasesChangeOnlyByCommand
