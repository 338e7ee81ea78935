CONSTANTS
  t1 = t1
  t2 = t2
  t3 = t3
  t4 = t4
  a = a
  b = b
  Threads <- ThreeThreads
  Items <- TwoItems
  Ops <- EveryOp
  Capacities = {1, 2}
  InitCapacity = 1
SPECIFICATION Spec
SYMMETRY Symmetry
INVARIANTS TypeOK NoStrandedPop NoStrandedPush
PROPERTY Linearizable
