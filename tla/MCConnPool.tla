---------------------------- MODULE MCConnPool ----------------------------
(* Instances of ConnPool for TLC. *)
EXTENDS PoolTurns, TLC

CONSTANTS a, b, c, d, lease, scale

(* Every element can be deleted by its lease timer and by the scale-down. *)
MCDeletion == Elem \X {lease, scale}

(* Replica containers are deleted by their lease timer only. *)
MCLeaseOnly == Elem \X {lease}

MCSymmetry == Permutations(Elem)
=============================================================================
