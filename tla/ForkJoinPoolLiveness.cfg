SPECIFICATION FairSpec
CONSTANTS
  c1 = c1
  Callers = {c1}
  NoCaller = NoCaller
  MaxWant = 4
  WaysCap = 3
  MaxEpoch = 4
PROPERTIES EveryCallReturns
