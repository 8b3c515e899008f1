SPECIFICATION Spec
CONSTANTS
  Projects <- CaptureProjects
  Literals <- MCLiterals
  MaxDepth = 3
  None = None
INVARIANT MeaningIsKept
