----------------------------- MODULE PortLeases -----------------------------
(***************************************************************************)
(* PortCntMapping of nat/context.go: the container address each leased     *)
(* port leads to.  Set starts a timer that removes the lease once it has   *)
(* not been renewed for leaseTimeout.                                      *)
(*                                                                         *)
(* im and rm hold pointers: the ports of one address share a cell, and     *)
(* Replace writes the cell.  A cell is made once for a key of rm, and so   *)
(* is known by that key.  Every operation is one critical section of pc.mu,*)
(* except the timer, which checks under the read lock and deletes under    *)
(* the write lock.                                                         *)
(***************************************************************************)
EXTENDS Integers

CONSTANTS
  Port,   \* the ports that may be leased
  Addr,   \* the addresses of containers
  Timer,  \* the calls of Set, each with its timer
  None    \* no entry

ASSUME LeaseAssumption == None \notin Addr /\ None \notin Port

VARIABLES
  im,     \* pc.im: the cell of each port
  rm,     \* the keys of pc.rm
  cell,   \* the address in each cell
  lum,    \* pc.lum: "fresh", "stale" (older than leaseTimeout) or None
  timer,  \* the timer of each call of Set: [pc, port]
  moved   \* history variable: the calls of Replace that found a cell

leaseVars == <<im, rm, cell, lum, timer, moved>>

LeaseInit ==
  /\ im = [p \in Port |-> None] /\ rm = {}
  /\ cell = [a \in Addr |-> a]
  /\ lum = [p \in Port |-> None]
  /\ timer = [t \in Timer |-> [pc |-> "idle", port |-> None]]
  /\ moved = {}

(* Mutants: the timer does not sleep again; Replace changes nothing.       *)
ReturnIfRenewed(t) == "done"
RewriteNone(old, new) == cell

-----------------------------------------------------------------------------
Set(t, p, a) ==
  /\ timer[t].pc = "idle"
  /\ rm' = rm \cup {a}
  /\ im' = [im EXCEPT ![p] = a]
  /\ lum' = [lum EXCEPT ![p] = "fresh"]
  /\ timer' = [timer EXCEPT ![t] = [pc |-> "wait", port |-> p]]
  /\ UNCHANGED <<cell, moved>>

(* leaseTimeout passes without a Set of the port.                          *)
Age(p) ==
  /\ lum[p] = "fresh"
  /\ lum' = [lum EXCEPT ![p] = "stale"]
  /\ UNCHANGED <<im, rm, cell, timer, moved>>

(* The timer, under the read lock: the time of a port without an entry is  *)
(* the zero time, which is long past.                                      *)
Sleep(t) == "wait"

Check(t) ==
  /\ timer[t].pc = "wait"
  /\ timer' = [timer EXCEPT ![t].pc =
                 IF lum[timer[t].port] = "fresh" THEN Sleep(t) ELSE "delete"]
  /\ UNCHANGED <<im, rm, cell, lum, moved>>

(* The timer, under the write lock.                                        *)
Expire(t) ==
  LET p == timer[t].port IN
  /\ timer[t].pc = "delete"
  /\ im' = [im EXCEPT ![p] = None]
  /\ lum' = [lum EXCEPT ![p] = None]
  /\ timer' = [timer EXCEPT ![t].pc = "done"]
  /\ UNCHANGED <<rm, cell, moved>>

Rewrite(old, new) == [cell EXCEPT ![old] = new]

Replace(old, new) ==
  /\ old \in rm
  /\ cell' = Rewrite(old, new)
  /\ moved' = moved \cup {<<old, new>>}
  /\ UNCHANGED <<im, rm, lum, timer>>

Delete(p) ==
  /\ im' = [im EXCEPT ![p] = None]
  /\ UNCHANGED <<rm, cell, lum, timer, moved>>

(* Get: the address a port leads to; 0 in the code when there is none.     *)
Get(p) == IF im[p] = None THEN None ELSE cell[im[p]]

TimerStep(t) == Check(t) \/ Expire(t)

(* What happens to leases without a timer.                                 *)
LeaseChange ==
  \/ \E p \in Port : Age(p) \/ Delete(p)
  \/ \E old, new \in Addr : old # new /\ Replace(old, new)

LeaseNext ==
  \/ \E t \in Timer, p \in Port, a \in Addr : Set(t, p, a)
  \/ \E t \in Timer : TimerStep(t)
  \/ LeaseChange

LeaseSpec == LeaseInit /\ [][LeaseNext]_leaseVars

-----------------------------------------------------------------------------
(* Every leased port is watched by a timer that will look at it again:     *)
(* whatever Set, Delete and other timers of the port do in between, no     *)
(* lease is forgotten.                                                     *)
Watched ==
  \A p \in Port : im[p] # None =>
    \E t \in Timer : timer[t].port = p /\ timer[t].pc \in {"wait", "delete"}

(* After Replace no port leads to the old address, not even one leased     *)
(* later for the old address; unless the old address is itself what        *)
(* another address was replaced by, for Replace finds only the cell that   *)
(* was made for it.                                                        *)
ReplacedEverywhere ==
  \A p \in Port, a \in Addr :
    Get(p) = a /\ (\E b \in Addr : <<a, b>> \in moved)
      => \E b \in Addr : <<b, a>> \in moved

=============================================================================
