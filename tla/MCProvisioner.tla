--------------------------- MODULE MCProvisioner ---------------------------
(* Instances of Provisioner for TLC. *)
EXTENDS Provisioner

CONSTANTS r1, c1, i1

(* One replica; the other ids belong to one Instance. *)
MCAsker == [c \in Cnt |-> IF c = r1 THEN "min" ELSE i1]

(* A counter that has wrapped, one below the maximum, one that reached it. *)
MCFluxes == {-128, 9, 10}
=============================================================================
