SPECIFICATION Spec
CONSTANTS
  Projects <- SpellingProjects
  Literals <- MCLiterals
  MaxDepth = 3
  None = None
INVARIANT MeaningIsKept
