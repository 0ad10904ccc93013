\* Two packets of one flow; each of two containers is deleted by its lease timer.
CONSTANTS
  a = a
  b = b
  flow = flow
  p1 = p1
  p2 = p2
  lease = lease
  scale = scale
  Nil = Nil
  Absent = Absent
  Elem = {a, b}
  Deletion <- MCLeaseOnly
  Crc = {flow}
  Packet = {p1, p2}
  MaxFluxes = 0
  DialResult = {TRUE}
SPECIFICATION Spec
SYMMETRY MCSymmetry
INVARIANTS
  RoutesTracked
  RoutesWatched
  FluxesExact
  SendersHaveLock
\* A gateway that has panicked has no further step.
CHECK_DEADLOCK FALSE
