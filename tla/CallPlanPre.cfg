SPECIFICATION Spec
CONSTANTS
  Align = 2
  MinShare = 1
  MinWork = 2
  MoveMax = 3
  DyBlock = 6
  DyLen = 24
  DyPhase = 1
  MaxCalls = 2
  Widths = {1, 2, 3}
  Programs <- AbsorbingPrograms
INVARIANT
  PhasesOrderConflicts
