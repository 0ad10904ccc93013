\* Two calls find ports of their own.  The third meets the end of the ports:
\* both helpers compete for the last one, a block runs over the end, or no
\* port is left.
CONSTANTS
  x = x
  y = y
  None = None
  Calls = 3
  Ports = 10
  Chunk = 2
  Lower = 1
  Upper = 5
  Word = 5
  Port = {1}
  Addr = {x, y}
  Timer = {1, 2}
  AddrOf <- MCAddrOf
  MaxReleases = 1
SPECIFICATION Spec
INVARIANTS
  PortsExclusive
  LeasedStaysMarked
  NobodyWaitsInVain
  Watched
  ReplacedEverywhere
\* All calls may have returned and all leases ended.
CHECK_DEADLOCK FALSE
