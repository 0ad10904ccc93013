----------------------------- MODULE NatContext -----------------------------
(***************************************************************************)
(* The two tables of nat/context.go together: ReleasePorts gives back the  *)
(* ports of a function that nobody has leased.                             *)
(***************************************************************************)
EXTENDS NatPorts, PortLeases

CONSTANTS
  AddrOf,      \* the address of the container of each function
  MaxReleases  \* bound on the calls of ReleasePorts for one function

ASSUME ContextAssumption == AddrOf \in [Fun -> Addr] /\ MaxReleases \in Nat

VARIABLE released     \* the calls of ReleasePorts so far for each function

vars == <<natVars, leaseVars, released>>

Init == NatInit /\ LeaseInit /\ released = [f \in Fun |-> 0]

(* The ports in an entry of cp.am.                                         *)
PortsOf(f) == {am[f][k] : k \in 1..Len(am[f])}

Leased(k) == k \in Port /\ im[k] # None

(* Mutant: leases are not looked at.                                       *)
ReleasableAll(f) == PortsOf(f)

Releasable(f) == {k \in PortsOf(f) : ~Leased(k)}

(* ReleasePorts, under both locks.  The entry stays in cp.am.              *)
Release(f) ==
  /\ am[f] # <<>> /\ mu = 0
  /\ released[f] < MaxReleases
  /\ bSet' = bSet \ Releasable(f)
  /\ released' = [released EXCEPT ![f] = @ + 1]
  /\ UNCHANGED <<length, mu, am, call, helper, crowded, leaseVars>>

(* The container of a function leases one of the function's ports; once    *)
(* these are released it is gone.                                          *)
Lease(f) ==
  /\ call[f] = "made" /\ released[f] = 0
  /\ \E t \in Timer, p \in Port \cap PortsOf(f) : Set(t, p, AddrOf[f])
  /\ UNCHANGED <<natVars, released>>

Next ==
  \/ NatNext /\ UNCHANGED <<leaseVars, released>>
  \/ (LeaseChange \/ \E t \in Timer : TimerStep(t))
     /\ UNCHANGED <<natVars, released>>
  \/ \E f \in Fun : Lease(f) \/ Release(f)

Spec == Init /\ [][Next]_vars

-----------------------------------------------------------------------------
Held(f) == am[f] # <<>> /\ released[f] = 0

(* As long as every block fits in its helper's own region, no port is in   *)
(* the lists of two functions that hold their ports, and every port that a *)
(* function holds is marked as used, although the helpers of a call write  *)
(* the bit set without a lock.  The 0s that fill up a block are no ports.  *)
PortsExclusive ==
  crowded \/
    /\ \A f \in Fun : Held(f) => PortsOf(f) \subseteq bSet \cup {0}
    /\ \A f, g \in Fun :
         f # g /\ Held(f) /\ Held(g) => PortsOf(f) \cap PortsOf(g) \subseteq {0}

(* Under the same condition ReleasePorts never frees a port that is still  *)
(* leased, so AssignPorts cannot give it to another function.              *)
LeasedStaysMarked == crowded \/ \A p \in Port : Leased(p) => p \in bSet

(* AssignPorts, which holds cp.mu while it waits for a block, waits for a  *)
(* helper that has yet to send it: also when no port is left, and a helper *)
(* ends up in a second send that nobody receives.                          *)
NobodyWaitsInVain ==
  \A f \in Fun, s \in {"lower", "upper"} :
    call[f] = s => ~helper[<<f, s>>].sent /\ helper[<<f, s>>].pc # "off"

=============================================================================
