\* A dial may fail, and a is deleted by its lease timer and by the scale-down.
CONSTANTS
  a = a
  b = b
  flow = flow
  p1 = p1
  p2 = p2
  lease = lease
  scale = scale
  Nil = Nil
  Absent = Absent
  Elem = {a, b}
  Deletion <- MCMixed
  Crc = {flow}
  Packet = {p1}
  MaxFluxes = 0
  DialResult = {TRUE, FALSE}
SPECIFICATION Spec
INVARIANTS
  
  PanicsExplained
PROPERTY UsesPool
\* A gateway that has panicked has no further step.
CHECK_DEADLOCK FALSE
