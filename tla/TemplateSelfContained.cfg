SPECIFICATION Spec
CONSTANTS
  Projects <- SelfContainedProjects
  Literals <- MCLiterals
  MaxDepth = 3
  None = None
INVARIANT LibraryIsSelfContained
