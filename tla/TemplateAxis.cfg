SPECIFICATION Spec
CONSTANTS
  Projects <- AxisProjects
  Literals <- MCLiterals
  MaxDepth = 3
  None = None
INVARIANT MeaningIsKept
