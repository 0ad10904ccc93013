CONSTANTS
  a = a
  b = b
  flow = flow
  p1 = p1
  p2 = p2
  lease = lease
  scale = scale
  Nil = Nil
  Absent = Absent
  Elem = {a, b}
  Deletion <- MCLeaseOnly
  Crc = {flow}
  Packet = {p1, p2}
  MaxFluxes = 0
  DialResult = {TRUE}
SPECIFICATION Spec
INVARIANT NoRouteToDeleted
CHECK_DEADLOCK FALSE
