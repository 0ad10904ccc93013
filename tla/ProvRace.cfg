\* A replica and a container of one Instance; the lease of both may end.
CONSTANTS
  r1 = r1
  c1 = c1
  i1 = i1
  Nil = Nil
  Cnt = {r1, c1}
  Inst = {i1}
  Asker <- MCAsker
  Leased = {r1, c1}
  Fluxes <- MCFluxes
SPECIFICATION Spec
INVARIANTS
  
  NoGhosts
  
  LoadCounts
  Steady
\* A gateway that has panicked has no further step.
CHECK_DEADLOCK FALSE
