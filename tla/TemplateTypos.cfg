SPECIFICATION Spec
CONSTANTS
  Projects <- TypoProjects
  Literals <- MCLiterals
  MaxDepth = 3
  None = None
INVARIANT BindingTyposRefused
