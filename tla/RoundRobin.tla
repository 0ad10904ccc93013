----------------------------- MODULE RoundRobin -----------------------------
(***************************************************************************)
(* What ConnPool promises its callers: the containers in service stand in  *)
(* the order they joined, and are handed out in turn, round and round; one *)
(* that leaves passes its turn to the one behind it.                       *)
(***************************************************************************)
EXTENDS Integers, Sequences, SequencesExt

CONSTANTS Elem, Nil

VARIABLES
  queue,  \* the containers in service
  turn    \* the one that is handed out next, Nil when there is none

rrVars == <<queue, turn>>

(* The one behind e in the queue q, round the corner at its end.           *)
Behind(q, e) ==
  LET i == CHOOSE k \in 1..Len(q) : q[k] = e
  IN  q[IF i = Len(q) THEN 1 ELSE i + 1]

RRInit == queue = <<>> /\ turn = Nil

Join(e) ==
  /\ e \notin ToSet(queue)
  /\ queue' = Append(queue, e)
  /\ turn' = IF queue = <<>> THEN e ELSE turn

Serve ==
  /\ queue # <<>>
  /\ turn' = Behind(queue, turn)
  /\ UNCHANGED queue

Leave(e) ==
  /\ \E i \in 1..Len(queue) : queue[i] = e /\ queue' = RemoveAt(queue, i)
  /\ turn' = IF Len(queue) = 1 THEN Nil
             ELSE IF turn = e THEN Behind(queue, e) ELSE turn

RRStep ==
  \/ \E e \in Elem : Join(e) \/ Leave(e)
  \/ Serve

RRSpec == RRInit /\ [][RRStep]_rrVars
=============================================================================
