---------------------------- MODULE ScalingDelta ----------------------------
(***************************************************************************)
(* calculateScalingDelta of cnt/provisioner.go and GetLoadPercentage of    *)
(* cnt/containerlist.go, with the parameters that ActionHandler and        *)
(* InitRuleMap give them.  Fractions are percentages; a load s of zero     *)
(* containers is 0/0, a NaN that fails every comparison.                   *)
(***************************************************************************)
EXTENDS Integers, Folds

UpThr == 60
DownThr == 30
UpInc == 50
DownDec == 40
Min == 1
MaxFluxes == 10

(* Mutants: the lower bound is not kept; the quotient is rounded up.       *)
NoFloor(s, dec) == -dec
RoundedUp(f) == (f + MaxFluxes - 1) \div MaxFluxes

(* cnt.Fluxes/cnt.MaxFluxes: Go truncates towards zero.                    *)
Quotient(f) ==
  IF f >= 0 THEN f \div MaxFluxes ELSE -((-f) \div MaxFluxes)

Term(f) == IF 1 < Quotient(f) THEN 1 ELSE Quotient(f)

(* A negative sum is above 4000000000 as a uint32; Huge, more than a list  *)
(* ever holds, stands for it.                                              *)
Huge == 1000

Uint32(n) == IF n >= 0 THEN n ELSE Huge

(* GetLoadPercentage: the sum over the containers' counters fl.            *)
Load(fl) ==
  Uint32(MapThenFoldSet(+, 0, LAMBDA c : Term(fl[c]),
                        LAMBDA s : CHOOSE c \in s : TRUE, DOMAIN fl))

(* math.Max(math.Floor(s * downDec), 1.0)                                  *)
Decrement(s) ==
  LET d == (s * DownDec) \div 100 IN IF d > 1 THEN d ELSE 1

KeepMin(s, dec) == IF s - dec >= Min THEN -dec ELSE 0

(* s containers, full of which have reached their maximum of fluxes.       *)
Delta(s, full) ==
  IF s = 0 THEN 0
  ELSE IF 100 * full >= UpThr * s THEN (s * UpInc + 99) \div 100
  ELSE IF 100 * full <= DownThr * s THEN KeepMin(s, Decrement(s))
  ELSE 0

(* What calculateScalingDelta promises for s containers with full of them  *)
(* busy: a scale-down leaves Min containers and keeps the busy ones, and   *)
(* does not bring the load to where the next check scales up again; a      *)
(* scale-up does not bring it to where the next check scales down.         *)
SteadyAt(s, full) ==
  LET d == Delta(s, full) IN
  /\ d < 0 => s + d >= Min /\ full <= s + d /\ Delta(s + d, full) <= 0
  /\ d > 0 => Delta(s + d, full) >= 0
=============================================================================
