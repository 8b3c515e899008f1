SPECIFICATION Spec
CONSTANTS
  u = u
  w = w
  x = x
  y = y
  solve = solve
  step = step
  early = early
  late = late
  Vars = {u, w}
  Clients = {solve, step, early, late}
  Nobody = Nobody
  Horizon = 6
  From <- SpanStarts
  Grid <- StepGrid
  Anchors <- LateAnchors
  Memory = {u}
  AnyTime = {}
  WithDefault = {u, w}
  Unreadable = {}
  Refusable = {}
INVARIANTS SolveReadsRecordInEffect
