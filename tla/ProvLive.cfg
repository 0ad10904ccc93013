\* A replica and a container of one Instance, whose lease may end.
CONSTANTS
  r1 = r1
  c1 = c1
  i1 = i1
  Nil = Nil
  Cnt = {r1, c1}
  Inst = {i1}
  Asker <- MCAsker
  Leased = {c1}
  Fluxes <- MCFluxes
SPECIFICATION LiveSpec
PROPERTY ScanEnds
PROPERTY OrderObeyed
\* A gateway that has panicked has no further step.
CHECK_DEADLOCK FALSE
