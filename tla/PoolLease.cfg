\* Four replica containers: only the lease timer of each deletes it.
CONSTANTS
  a = a
  b = b
  c = c
  d = d
  lease = lease
  scale = scale
  Nil = Nil
  Elem = {a, b, c, d}
  Deletion <- MCLeaseOnly
SPECIFICATION BusyPoolSpec
PROPERTY ImplementsRoundRobin
PROPERTY NobodyOvertaken
PROPERTY EveryoneServed
\* A gateway that has panicked has no further step.
CHECK_DEADLOCK FALSE
