CONSTANTS
  Params = {p1, pBad}
  BadParams = {pBad}
  Contents = {f1, fBad}
  BadContents = {fBad}
  Unset = Unset
  Workspaces = {w1}
  MaxEpoch = 2
  MaxChanges = 3
  NestedExpressions = TRUE
SPECIFICATION Spec
INVARIANT FaultReported
