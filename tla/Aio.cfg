CONSTANTS
  r1 = r1
  r2 = r2
  c1 = c1
  c2 = c2
  k1 = k1
  k2 = k2
  None = None
  Requests <- TwoRequests
  CmdsOf <- SharedFd
  FollowUp <- Chain
  Clients = {c1, c2}
  Controllers = {k1, k2}
  IoArgs <- OneOrPerCpu
  PioArgs = {1}
  CpuNum = 2
  MaxStarts = 2
SPECIFICATION Spec
INVARIANTS CallbackExact FifoPerFd Drained SafeAccess
CHECK_DEADLOCK FALSE
