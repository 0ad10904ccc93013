CONSTANTS
  r1 = r1
  c1 = c1
  i1 = i1
  Nil = Nil
  Cnt = {r1, c1}
  Inst = {i1}
  Asker <- MCAsker
  Leased = {c1}
  Fluxes <- MCFluxes
SPECIFICATION Spec
INVARIANT StaleOrderIgnored
\* A gateway that has panicked has no further step.
CHECK_DEADLOCK FALSE
