SPECIFICATION Spec
CONSTANTS
  Unknowns <- MCUnknowns
  Params <- MCParams
  Update <- MCUpdate
  Sources <- MCSources
  Others <- MCOthers
  Malformed <- MCMalformed
  Nodes <- MCNodes
  Sets <- MCSets
  Models <- MCModels
  None = None
INVARIANTS
  TypeOK
  MemoIsJoin
  ObservedCyclesRefused
  SetCyclesRefused
  OutputsFollowClasses
