SPECIFICATION FairSpec
CONSTANTS
  Threads = {t1, t2, t3}
  t1 = t1
  t2 = t2
  t3 = t3
  Addrs <- MCAddrs
  Calls <- MCCalls
  Width = 2
CHECK_DEADLOCK FALSE
INVARIANTS
  TypeOK
  TicketsDistinct
  SwapConserves
PROPERTIES
  Linearizable
  WaitFree
