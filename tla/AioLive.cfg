CONSTANTS
  r1 = r1
  r2 = r2
  c1 = c1
  c2 = c2
  k1 = k1
  k2 = k2
  None = None
  Requests <- TwoRequests
  CmdsOf <- TwoFds
  FollowUp <- Chain
  Clients = {c1}
  Controllers = {k1}
  IoArgs <- OneOrPerCpu
  PioArgs = {1}
  CpuNum = 2
  MaxStarts = 1
SPECIFICATION FairSpec
PROPERTIES StopCompletes CallbackEventually
CHECK_DEADLOCK FALSE
