------------------------------ MODULE MCRelays ------------------------------
(* An instance of Relays for TLC. *)
EXTENDS Relays, TLC

CONSTANTS flow1, flow2, zero

(* Two packets of one flow, with another flow's in between. *)
MCFlowOf == <<flow1, flow2, flow1, flow1>>

(* The second packet is headed to port 67, the third is no UDP. *)
MCHeader ==
  LET H(protocol, port) == 9 :> protocol @@ 23 :> port
  IN  <<H(17, 80), H(17, 67), H(6, 80), H(17, 80)>>

(* Two packets suffice to use the one buffer of the TCP handler again. *)
MCArrivals ==
  [p \in Program |-> CASE p = "tcp" -> 2 [] p = "ip2ip" -> 3 [] OTHER -> 4]
=============================================================================
