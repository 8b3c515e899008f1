SPECIFICATION Spec
CONSTANTS
  u = u
  w = w
  x = x
  y = y
  solve = solve
  step = step
  early = early
  late = late
  Vars = {u, w, x, y}
  Clients = {solve, step, early, late}
  Nobody = Nobody
  Horizon = 6
  From <- SpanStarts
  Grid <- StepGrid
  Anchors <- MixedAnchors
  Memory = {u, y}
  AnyTime = {}
  WithDefault = {u, w}
  Unreadable = {u, w, y}
  Refusable = {w, x}
INVARIANTS SolveReadsRecordInEffect PrimedBufferInEffect NoneSkipIsSafe SteppingChangesNothing
PROPERTIES KeepsPromise
