\* Up to four packets of two flows; one buffer and its clean-up goroutine.
CONSTANTS
  flow1 = flow1
  flow2 = flow2
  zero = zero
  Nil = Nil
  ZeroFlow = zero
  Program = {"gateway", "main1", "main2", "main3", "main4", "ip2ip", "tcp"}
  Packets = 4
  Arrivals <- MCArrivals
  FlowOf <- MCFlowOf
  Header <- MCHeader
  PoolSize = 1
  PerCleaner = 1
SPECIFICATION LiveSpec
INVARIANTS
  Faithful
  InOrder
  NoSecondDial
  Conserved
  ZeroedInPool
  ReleaseNeverBlocks
PROPERTIES
  ImplementsLease
  
  
\* The packets end, and a program may end.
CHECK_DEADLOCK FALSE
