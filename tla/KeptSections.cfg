CONSTANTS
  p1 = p1
  p2 = p2
  pBad = pBad
  Params <- MCParams
  BadParams <- MCBadParams
  Contents = {f1, fBad}
  BadContents = {fBad}
  Unset = Unset
  Workspaces = {w1}
  MaxEpoch = 2
  MaxChanges = 2
  NestedExpressions = FALSE
SPECIFICATION Spec
SYMMETRY Interchangeable
INVARIANTS
  TypeOK
  EvalDependsOnArguments
  SolveReadsBuffer
  FaultReported
PROPERTY
  ConstPrimesOnce
