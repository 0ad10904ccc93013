----------------------------- MODULE PoolTurns ------------------------------
(***************************************************************************)
(* ConnPool as a round robin: the refinement, and whose turn comes.        *)
(***************************************************************************)
EXTENDS ConnPool

(* When the list is empty the cursor points to the element deleted last,   *)
(* or to nothing; it is nobody's turn.                                     *)
RR == INSTANCE RoundRobin
        WITH queue <- order, turn <- IF order = <<>> THEN Nil ELSE curr

(* The linked list with its cursor implements the round robin: Add joins,  *)
(* Next serves, the first critical section of Delete leaves, every other   *)
(* step is invisible.                                                      *)
ImplementsRoundRobin == RR!RRSpec

(* The place of e in the list q, and how many calls of Next come before    *)
(* the one that returns it when the cursor is at t.                        *)
Place(q, e) == CHOOSE i \in 1..Len(q) : q[i] = e

Wait(q, t, e) ==
  LET ahead == Place(q, e) - Place(q, t)
  IN  IF ahead >= 0 THEN ahead ELSE ahead + Len(q)

(* Nobody is overtaken: each call of Next brings every container that it   *)
(* does not return one turn nearer, no Delete sends a container back, and  *)
(* an Add lets at most the new container in front.                         *)
NobodyOvertaken ==
  [][\A e \in Linked \cap Linked' :
       /\ order' = order /\ curr' # curr /\ e # curr
            => Wait(order', curr', e) = Wait(order, curr, e) - 1
       /\ order' # order
            => Wait(order', curr', e)
                 <= Wait(order, curr, e) + (IF elems' = elems THEN 0 ELSE 1)]_poolVars

(* Next is called again and again, as long as packets of new flows arrive. *)
BusyPoolSpec == PoolSpec /\ WF_poolVars(PoolServe)

(* Every container in service gets its turn: whatever is added and deleted *)
(* meanwhile, the cursor comes round to it, or it is deleted.              *)
EveryoneServed ==
  \A e \in Elem : e \in Linked ~> (curr = e \/ e \notin Linked)

=============================================================================
