\* Two packets of one flow; a is deleted by its lease timer, b stays.
CONSTANTS
  a = a
  b = b
  flow = flow
  p1 = p1
  p2 = p2
  lease = lease
  scale = scale
  Nil = Nil
  Absent = Absent
  Elem = {a, b}
  Deletion <- MCOnlyA
  Crc = {flow}
  Packet = {p1, p2}
  MaxFluxes = 0
  DialResult = {TRUE}
SPECIFICATION LiveSpec
PROPERTY IdleFlowExpires
PROPERTY LoadDrains
CHECK_DEADLOCK FALSE
