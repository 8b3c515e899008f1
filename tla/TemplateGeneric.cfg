SPECIFICATION Spec
CONSTANTS
  Projects <- GenericProjects
  Literals <- MCLiterals
  MaxDepth = 3
  None = None
INVARIANT GenericLoadStaysOpen
