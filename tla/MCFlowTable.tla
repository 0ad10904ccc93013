---------------------------- MODULE MCFlowTable ----------------------------
(* Instances of FlowTable for TLC. *)
EXTENDS FlowTable, TLC

CONSTANTS a, b, flow, p1, p2, lease, scale

(* Each container is deleted by its lease timer only. *)
MCLeaseOnly == Elem \X {lease}

(* a runs until its lease ends or the load drops, b is a replica. *)
MCMixed == {<<a, lease>>, <<a, scale>>, <<b, lease>>}

(* Only a is deleted. *)
MCOnlyA == {<<a, lease>>}

MCSymmetry == Permutations(Packet) \cup Permutations(Elem)
=============================================================================
