SPECIFICATION Spec
CONSTANTS
  Projects <- MCProjects
  Literals <- MCLiterals
  MaxDepth = 3
  None = None
INVARIANTS
  MeaningIsKept
  CallsResolve
  ImportCyclesRefused
  ConflictsAreReal
