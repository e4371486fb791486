CONSTANTS
  Inputs <- MCInputs
  XVals <- MCXVals
  Junk <- MCJunk
SPECIFICATION Spec
INVARIANT ArithMatchesReference
