SPECIFICATION Spec
CONSTANTS
  t1 = t1
  t2 = t2
  t3 = t3
  Threads = {t1, t2, t3}
  NoThread = NoThread
  Seq = Seq
  All = All
  Two = Two
  Settings = {Seq, All, Two}
  Sequential = Seq
  MaxDepth = 2
INVARIANTS ExplicitIsSequential QuietIsRestored
