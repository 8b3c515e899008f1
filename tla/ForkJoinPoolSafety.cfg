SPECIFICATION Spec
CONSTANTS
  c1 = c1
  c2 = c2
  Callers = {c1, c2}
  NoCaller = NoCaller
  MaxWant = 3
  WaysCap = 3
  MaxEpoch = 2
SYMMETRY CallerSymmetry
INVARIANTS TypeOK JobOutlivesShares OneDispatchAtATime PendingCountsOutstanding PanicStaysInItsDispatch
PROPERTIES DrainedBeforeRepublish KeepsPromise
