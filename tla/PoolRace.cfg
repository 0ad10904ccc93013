\* Three containers, each deleted by its lease timer and by the scale-down.
CONSTANTS
  a = a
  b = b
  c = c
  d = d
  lease = lease
  scale = scale
  Nil = Nil
  Elem = {a, b, c}
  Deletion <- MCDeletion
SPECIFICATION PoolSpec
SYMMETRY MCSymmetry
 
INVARIANT RingOK
INVARIANT PoolPanics
\* A gateway that has panicked has no further step.
CHECK_DEADLOCK FALSE
