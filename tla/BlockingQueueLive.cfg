CONSTANTS
  t1 = t1
  t2 = t2
  t3 = t3
  t4 = t4
  a = a
  b = b
  Threads <- FourThreads
  Items <- OneItem
  Ops <- UntimedOps
  Capacities = {}
  InitCapacity = 2
SPECIFICATION FairSpec
PROPERTIES PopServed PushServed
