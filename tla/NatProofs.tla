----------------------------- MODULE NatProofs ------------------------------
(***************************************************************************)
(* The NAT tables for any number of functions, ports, leases and timers:   *)
(* first the leases of PortCntMapping by themselves, then the composition. *)
(***************************************************************************)
EXTENDS NatContext, TLAPS

LeaseTypeOK ==
  /\ im \in [Port -> Addr \cup {None}]
  /\ rm \subseteq Addr
  /\ cell \in [Addr -> Addr]
  /\ lum \in [Port -> {"fresh", "stale", None}]
  /\ timer \in [Timer -> [pc : {"idle", "wait", "delete", "done"},
                          port : Port \cup {None}]]
  /\ \A t \in Timer : timer[t].pc # "idle" => timer[t].port \in Port

(* A cell holds the address it was made for until a Replace of that        *)
(* address has written it, and from then on what a Replace wrote.          *)
CellsTracked ==
  \A a \in Addr :
    /\ <<a, cell[a]>> \in moved \/ cell[a] = a
    /\ (\E b \in Addr : <<a, b>> \in moved) => <<a, cell[a]>> \in moved

LeaseInv == LeaseTypeOK /\ Watched /\ CellsTracked

LEMMA LeaseInitInv == LeaseInit => LeaseInv
BY LeaseAssumption DEF LeaseInit, LeaseInv, LeaseTypeOK, Watched, CellsTracked

LEMMA SetInv ==
  ASSUME LeaseInv, NEW t \in Timer, NEW p \in Port, NEW a \in Addr, Set(t, p, a)
  PROVE  LeaseInv'
<1> USE DEF LeaseInv, Set
<1>1. LeaseTypeOK'
  BY DEF LeaseTypeOK
<1>2. Watched'
  <2> SUFFICES ASSUME NEW q \in Port, im'[q] # None
               PROVE  \E u \in Timer : timer'[u].port = q
                                       /\ timer'[u].pc \in {"wait", "delete"}
    BY DEF Watched
  <2>1. CASE q = p
    BY <2>1 DEF LeaseTypeOK
  <2>2. CASE q # p
    <3>1. im[q] # None
      BY <2>2 DEF LeaseTypeOK
    <3>2. PICK u \in Timer : timer[u].port = q /\ timer[u].pc \in {"wait", "delete"}
      BY <3>1 DEF Watched
    <3>3. u # t
      BY <3>2
    <3> QED BY <3>2, <3>3 DEF LeaseTypeOK
  <2> QED BY <2>1, <2>2
<1>3. CellsTracked'
  BY DEF CellsTracked
<1> QED BY <1>1, <1>2, <1>3

LEMMA CheckInv ==
  ASSUME LeaseInv, NEW t \in Timer, Check(t)
  PROVE  LeaseInv'
<1> USE DEF LeaseInv, Check, Sleep
<1>1. LeaseTypeOK'
  BY DEF LeaseTypeOK
<1>2. Watched'
  <2> SUFFICES ASSUME NEW q \in Port, im[q] # None
               PROVE  \E u \in Timer : timer'[u].port = q
                                       /\ timer'[u].pc \in {"wait", "delete"}
    BY DEF Watched
  <2>1. PICK u \in Timer : timer[u].port = q /\ timer[u].pc \in {"wait", "delete"}
    BY DEF Watched
  <2> QED BY <2>1 DEF LeaseTypeOK
<1>3. CellsTracked'
  BY DEF CellsTracked
<1> QED BY <1>1, <1>2, <1>3

(* The timer that deletes an entry watched its port, and no other.         *)
LEMMA ExpireInv ==
  ASSUME LeaseInv, NEW t \in Timer, Expire(t)
  PROVE  LeaseInv'
<1> USE DEF LeaseInv, Expire
<1>1. LeaseTypeOK'
  BY DEF LeaseTypeOK
<1>2. Watched'
  <2> SUFFICES ASSUME NEW q \in Port, im'[q] # None
               PROVE  \E u \in Timer : timer'[u].port = q
                                       /\ timer'[u].pc \in {"wait", "delete"}
    BY DEF Watched
  <2>1. q # timer[t].port /\ im[q] # None
    BY DEF LeaseTypeOK
  <2>2. PICK u \in Timer : timer[u].port = q /\ timer[u].pc \in {"wait", "delete"}
    BY <2>1 DEF Watched
  <2>3. u # t
    BY <2>1, <2>2
  <2> QED BY <2>2, <2>3 DEF LeaseTypeOK
<1>3. CellsTracked'
  BY DEF CellsTracked
<1> QED BY <1>1, <1>2, <1>3

LEMMA ReplaceInv ==
  ASSUME LeaseInv, NEW old \in Addr, NEW new \in Addr, Replace(old, new)
  PROVE  LeaseInv'
<1> USE DEF LeaseInv, Replace, Rewrite
<1>1. LeaseTypeOK' /\ Watched'
  BY DEF LeaseTypeOK, Watched
<1>2. CellsTracked'
  BY DEF CellsTracked, LeaseTypeOK
<1> QED BY <1>1, <1>2

(* Time passes, or Delete removes an entry.                                *)
LEMMA PortInv ==
  ASSUME LeaseInv, NEW p \in Port, Age(p) \/ Delete(p)
  PROVE  LeaseInv'
<1>1. CASE Age(p)
  BY <1>1 DEF LeaseInv, Age, LeaseTypeOK, Watched, CellsTracked
<1>2. CASE Delete(p)
  BY <1>2 DEF LeaseInv, Delete, LeaseTypeOK, Watched, CellsTracked
<1> QED BY <1>1, <1>2

LEMMA LeaseStepInv == LeaseInv /\ [LeaseNext]_leaseVars => LeaseInv'
<1> SUFFICES ASSUME LeaseInv, [LeaseNext]_leaseVars PROVE LeaseInv'
  OBVIOUS
<1>1. CASE UNCHANGED leaseVars
  BY <1>1 DEF leaseVars, LeaseInv, LeaseTypeOK, Watched, CellsTracked
<1>2. CASE \E t \in Timer, p \in Port, a \in Addr : Set(t, p, a)
  BY <1>2, SetInv
<1>3. CASE \E t \in Timer : TimerStep(t)
  BY <1>3, CheckInv, ExpireInv DEF TimerStep
<1>4. CASE LeaseChange
  BY <1>4, PortInv, ReplaceInv DEF LeaseChange
<1> QED BY <1>1, <1>2, <1>3, <1>4 DEF LeaseNext

(* The tracked cells are what makes the replacement reach every port.      *)
LEMMA TrackedReplaced == LeaseInv => ReplacedEverywhere
<1> SUFFICES ASSUME LeaseInv, NEW p \in Port, NEW a \in Addr, Get(p) = a,
                    \E b \in Addr : <<a, b>> \in moved
             PROVE  \E c \in Addr : <<c, a>> \in moved
  BY DEF ReplacedEverywhere
<1>1. im[p] \in Addr /\ cell[im[p]] = a
  BY LeaseAssumption DEF LeaseInv, LeaseTypeOK, Get
<1>2. CASE im[p] = a
  BY <1>1, <1>2 DEF LeaseInv, CellsTracked
<1>3. CASE im[p] # a
  BY <1>1, <1>3 DEF LeaseInv, CellsTracked
<1> QED BY <1>2, <1>3

(* Whatever Set, Delete, Replace and the timers of any number of leases do,*)
(* every leased port is watched by a timer.                                *)
THEOREM LeasesWatched == LeaseSpec => []Watched
<1>1. LeaseInv => Watched
  BY DEF LeaseInv
<1> QED BY LeaseInitInv, LeaseStepInv, <1>1, PTL DEF LeaseSpec

(* After Replace no port leads to the old address, now or later, unless    *)
(* that address is itself what another one was replaced by.                *)
THEOREM ReplaceReachesAll == LeaseSpec => []ReplacedEverywhere
BY LeaseInitInv, LeaseStepInv, TrackedReplaced, PTL DEF LeaseSpec

-----------------------------------------------------------------------------
HelperType ==
  [pc : {"off", "scan", "test", "load", "store", "send"}, idx : Nat, limit : Nat,
   n : Nat, acc : [1..Chunk -> Nat], word : SUBSET Nat, avail : BOOLEAN,
   sent : BOOLEAN]

NatTypeOK ==
  /\ bSet \subseteq Nat /\ length \in Nat
  /\ call \in [Fun -> {"idle", "lower", "upper", "append", "post", "made", "failed"}]
  /\ helper \in [Helper -> HelperType]

(* A helper has yet to send its block to the call that waits for it.       *)
Owes(h) == ~helper[h].sent /\ helper[h].pc # "off"

(* While a call waits for the lower block, both helpers owe it theirs.     *)
Owed ==
  \A f \in Fun :
    /\ call[f] = "lower" => Owes(<<f, "lower">>) /\ Owes(<<f, "upper">>)
    /\ call[f] = "upper" => Owes(<<f, "upper">>)

NatInv == NatTypeOK /\ Owed

LEMMA NatInitInv == NatInit => NatInv
<1> SUFFICES ASSUME NatInit PROVE NatInv
  OBVIOUS
<1>1. NoHelper \in HelperType
  BY NatAssumption DEF NoHelper, HelperType, Zeros
<1>2. NatTypeOK
  BY <1>1, NatAssumption DEF NatInit, NatTypeOK
<1>3. Owed
  BY DEF NatInit, Owed
<1> QED BY <1>2, <1>3 DEF NatInv

LEMMA AssignInv ==
  ASSUME NatInv, NEW f \in Fun, Assign(f)
  PROVE  NatInv'
<1> USE DEF NatInv
<1> DEFINE new == [NoHelper EXCEPT !.pc = "scan"]
<1>1. new \in HelperType /\ new.pc = "scan" /\ ~new.sent
  BY NatAssumption DEF NoHelper, HelperType, Zeros
<1>2. \A h \in Helper : helper'[h] = IF h[1] = f THEN new ELSE helper[h]
  BY DEF Assign
<1>3. /\ helper' = [h \in Helper |-> IF h[1] = f THEN new ELSE helper[h]]
      /\ call' = [call EXCEPT ![f] = "lower"]
      /\ UNCHANGED <<bSet, length>>
  BY DEF Assign, Goto
<1> HIDE DEF new
<1>4. NatTypeOK'
  BY <1>1, <1>3 DEF NatTypeOK
<1>5. Owed'
  <2> SUFFICES ASSUME NEW g \in Fun
               PROVE  /\ call'[g] = "lower" => /\ Owes(<<g, "lower">>)'
                                               /\ Owes(<<g, "upper">>)'
                      /\ call'[g] = "upper" => Owes(<<g, "upper">>)'
    BY DEF Owed
  <2>1. <<g, "lower">> \in Helper /\ <<g, "upper">> \in Helper
    BY DEF Helper
  <2>2. CASE g = f
    BY <1>1, <1>2, <2>1, <2>2 DEF Owes
  <2>3. CASE g # f
    BY <1>2, <1>3, <2>1, <2>3 DEF Owes, Owed, NatTypeOK
  <2> QED BY <2>2, <2>3
<1> QED BY <1>4, <1>5

(* A step of a helper that keeps its debt.                                 *)
LEMMA OneHelper ==
  ASSUME NatInv, NEW h \in Helper, NEW r \in HelperType,
         helper' = [helper EXCEPT ![h] = r],
         r.pc # "off", r.sent = helper[h].sent,
         UNCHANGED call, bSet' \subseteq Nat, length' \in Nat
  PROVE  NatInv'
<1>1. NatTypeOK'
  BY DEF NatInv, NatTypeOK
<1>2. \A k \in Helper : Owes(k) => Owes(k)'
  BY DEF NatInv, NatTypeOK, Owes
<1>3. Owed'
  BY <1>2 DEF NatInv, Owed, Helper
<1> QED BY <1>1, <1>3 DEF NatInv

LEMMA HelperInv ==
  ASSUME NatInv, NEW h \in Helper, HelperStep(h)
  PROVE  NatInv'
<1> DEFINE s == helper[h]
<1>0. /\ s \in HelperType /\ bSet \subseteq Nat /\ length \in Nat
      /\ helper \in [Helper -> HelperType]
  BY DEF NatInv, NatTypeOK
<1>1. CASE Scan(h)
  <2>1. CASE helper' = [helper EXCEPT ![h].pc = WhenFull(h), ![h].limit = Chunk,
                                      ![h].avail = FALSE]
    <3> DEFINE r == [s EXCEPT !.pc = "send", !.limit = Chunk, !.avail = FALSE]
    <3>1. r \in HelperType /\ r.pc # "off" /\ r.sent = s.sent
      BY <1>0, NatAssumption DEF HelperType
    <3>2. helper' = [helper EXCEPT ![h] = r]
      BY <2>1, <1>0 DEF WhenFull
    <3> QED BY <3>1, <3>2, <1>0, <1>1, OneHelper DEF Scan
  <2>2. ASSUME NEW i \in Clear(h),
               helper' = [helper EXCEPT ![h].pc = "test", ![h].idx = i,
                                        ![h].limit = i + Chunk]
        PROVE  NatInv'
    <3> DEFINE r == [s EXCEPT !.pc = "test", !.idx = i, !.limit = i + Chunk]
    <3>1. i \in Nat /\ i + Chunk \in Nat
      BY <1>0, NatAssumption DEF Clear, Offset
    <3>2. r \in HelperType /\ r.pc # "off" /\ r.sent = s.sent
      BY <1>0, <3>1 DEF HelperType
    <3>3. helper' = [helper EXCEPT ![h] = r]
      BY <2>2, <1>0
    <3> QED BY <3>2, <3>3, <1>0, <1>1, OneHelper DEF Scan
  <2> QED BY <1>1, <2>1, <2>2 DEF Scan
<1>2. CASE Test(h)
  <2> DEFINE r == IF s.idx = s.limit THEN [s EXCEPT !.pc = "send"]
                  ELSE IF s.idx \in bSet THEN [s EXCEPT !.idx = s.idx + 1]
                  ELSE [s EXCEPT !.pc = "load"]
  <2>1. s.pc = "test" /\ s.idx + 1 \in Nat /\ UNCHANGED <<bSet, length, call>>
    BY <1>0, <1>2 DEF Test, HelperType
  <2>2. r \in HelperType /\ r.pc # "off" /\ r.sent = s.sent
    <3>1. CASE s.idx = s.limit
      BY <1>0, <3>1 DEF HelperType
    <3>2. CASE s.idx # s.limit /\ s.idx \in bSet
      BY <1>0, <2>1, <3>2 DEF HelperType
    <3>3. CASE s.idx # s.limit /\ s.idx \notin bSet
      BY <1>0, <3>3 DEF HelperType
    <3> QED BY <3>1, <3>2, <3>3
  <2>3. helper' = [helper EXCEPT ![h] = r]
    BY <1>0, <1>2 DEF Test
  <2> QED BY <2>1, <2>2, <2>3, <1>0, OneHelper
<1>3. CASE Load(h)
  <2> DEFINE r == [s EXCEPT !.pc = "store", !.word = bSet \cap Copied(s.idx)]
  <2>1. UNCHANGED <<bSet, length, call>> /\ helper' = [helper EXCEPT ![h] = r]
    BY <1>0, <1>3 DEF Load
  <2>2. r \in HelperType /\ r.pc # "off" /\ r.sent = s.sent
    BY <1>0 DEF HelperType
  <2> QED BY <2>1, <2>2, <1>0, OneHelper
<1>4. CASE Store(h)
  <2> DEFINE r == [s EXCEPT !.pc = "test", !.idx = s.idx + 1, !.n = s.n + 1,
                            !.acc = [s.acc EXCEPT ![s.n + 1] = s.idx % Ports],
                            !.word = {}]
  <2>1. UNCHANGED call /\ helper' = [helper EXCEPT ![h] = r]
    BY <1>0, <1>4 DEF Store
  <2>2. s.idx % Ports \in Nat /\ s.idx + 1 \in Nat /\ s.n + 1 \in Nat
    BY <1>0, NatAssumption DEF HelperType
  <2>3. [s.acc EXCEPT ![s.n + 1] = s.idx % Ports] \in [1..Chunk -> Nat]
    BY <1>0, <2>2 DEF HelperType
  <2>4. r \in HelperType /\ r.pc # "off" /\ r.sent = s.sent
    BY <1>0, <2>2, <2>3 DEF HelperType
  <2>5. bSet' \subseteq Nat /\ length' \in Nat
    BY <1>0, <1>4 DEF Store, Stored, HelperType
  <2> QED BY <2>1, <2>4, <2>5, <1>0, OneHelper
<1> QED BY <1>1, <1>2, <1>3, <1>4 DEF HelperStep

(* A call receives what it is owed, and waits for the other helper or for  *)
(* nobody.                                                                 *)
LEMMA ReceiveInv ==
  ASSUME NatInv, NEW f \in Fun, NEW s \in {"lower", "upper"}, Receive(f, s)
  PROVE  NatInv'
<1> DEFINE h == <<f, s>>
           r == [helper[h] EXCEPT !.sent = TRUE,
                                  !.pc = IF helper[h].avail THEN "off" ELSE "test"]
           l == IF s = "lower" THEN "upper" ELSE "append"
<1>0. /\ h \in Helper
      /\ \A g \in Fun : <<g, "lower">> \in Helper /\ <<g, "upper">> \in Helper
  BY DEF Helper
<1>1. /\ helper[h] \in HelperType /\ helper \in [Helper -> HelperType]
      /\ bSet \subseteq Nat /\ length \in Nat /\ call[f] = s
  BY <1>0 DEF NatInv, NatTypeOK, Receive
<1>2. r \in HelperType
  BY <1>1 DEF HelperType
<1>3. /\ helper' = [helper EXCEPT ![h] = r] /\ call' = [call EXCEPT ![f] = l]
      /\ UNCHANGED <<bSet, length>>
  BY <1>0, <1>1 DEF Receive, Goto
<1> HIDE DEF r
<1>4. NatTypeOK'
  BY <1>0, <1>1, <1>2, <1>3 DEF NatInv, NatTypeOK
<1>5. \A k \in Helper : k # h /\ Owes(k) => Owes(k)'
  BY <1>0, <1>1, <1>3 DEF Owes
<1>6. Owed'
  <2> SUFFICES ASSUME NEW g \in Fun
               PROVE  /\ call'[g] = "lower" => /\ Owes(<<g, "lower">>)'
                                               /\ Owes(<<g, "upper">>)'
                      /\ call'[g] = "upper" => Owes(<<g, "upper">>)'
    BY DEF Owed
  <2>1. CASE g # f
    BY <1>0, <1>3, <1>5, <2>1 DEF NatInv, NatTypeOK, Owed
  <2>2. CASE g = f
    BY <1>0, <1>1, <1>3, <1>5, <2>2 DEF NatInv, NatTypeOK, Owed
  <2> QED BY <2>1, <2>2
<1> QED BY <1>4, <1>6 DEF NatInv

LEMMA AfterwardsInv ==
  ASSUME NatInv, NEW f \in Fun, Enter(f) \/ Post(f)
  PROVE  NatInv'
<1> USE DEF NatInv
<1>1. PICK l \in {"post", "made", "failed"} : call' = [call EXCEPT ![f] = l]
  BY DEF Enter, Post, Goto
<1>2. UNCHANGED <<bSet, length, helper>>
  BY DEF Enter, Post
<1>3. NatTypeOK'
  BY <1>1, <1>2 DEF NatTypeOK
<1>4. Owed'
  BY <1>1, <1>2 DEF Owed, Owes, NatTypeOK
<1> QED BY <1>3, <1>4

LEMMA NatStepInv == NatInv /\ [Next]_vars => NatInv'
<1> SUFFICES ASSUME NatInv, [Next]_vars PROVE NatInv'
  OBVIOUS
<1>1. CASE NatNext
  BY <1>1, AssignInv, ReceiveInv, AfterwardsInv, HelperInv DEF NatNext, CallStep
<1>2. CASE UNCHANGED natVars
  BY <1>2 DEF natVars, NatInv, NatTypeOK, Owed, Owes
<1>3. ASSUME NEW f \in Fun, Release(f) PROVE NatInv'
  BY <1>3 DEF Release, NatInv, NatTypeOK, Owed, Owes
<1> QED BY <1>1, <1>2, <1>3 DEF Next, vars, Lease

(* AssignPorts holds cp.mu while it waits; it always waits for a helper    *)
(* that has not sent its block yet, also when no port is left.             *)
THEOREM AssignNeverWaitsInVain == Spec => []NobodyWaitsInVain
<1>1. Init => NatInv
  BY NatInitInv DEF Init
<1>2. NatInv => NobodyWaitsInVain
  BY DEF NatInv, Owed, Owes, NobodyWaitsInVain
<1> QED BY <1>1, NatStepInv, <1>2, PTL DEF Spec

-----------------------------------------------------------------------------
(* The tables together use the leases only as PortLeases allows.           *)
LEMMA ContextLeases == Spec => LeaseSpec
<1>1. Init => LeaseInit
  BY DEF Init
<1>2. [Next]_vars => [LeaseNext]_leaseVars
  BY ContextAssumption DEF Next, vars, Lease, Release, LeaseNext, LeaseChange
<1> QED BY <1>1, <1>2, PTL DEF Spec, LeaseSpec

(* In the composition too, every leased port is watched by a timer.        *)
THEOREM ContextWatched == Spec => []Watched
BY ContextLeases, LeasesWatched, PTL

(* In the composition too, a replaced address is gone from every port.     *)
THEOREM ContextReplaced == Spec => []ReplacedEverywhere
BY ContextLeases, ReplaceReachesAll, PTL

-----------------------------------------------------------------------------
-----------------------------------------------------------------------------
(* Exclusiveness of the ports.  A call that runs has cp.mu; its helpers    *)
(* work in words of their own, as long as their blocks fit there, and so   *)
(* neither loses a bit that the other one sets.                            *)
Busy == {"lower", "upper", "append"}

(* The ports in the block of a helper.                                     *)
Noted(h) == {helper[h].acc[k] : k \in 1..Chunk}

InRegion(h) ==
  /\ Offset(h) <= helper[h].idx /\ helper[h].idx <= helper[h].limit
  /\ IF h[2] = "lower" THEN (helper[h].limit - 1) \div Word < Upper \div Word
                       ELSE helper[h].limit <= Ports

HelperOK(h) ==
  /\ helper[h].avail
  /\ helper[h].pc # "off" => call[h[1]] \in {"lower", h[2]}
  /\ helper[h].pc \in {"test", "load", "store"} => InRegion(h)
  /\ helper[h].pc \in {"load", "store"}
       => helper[h].idx < helper[h].limit /\ helper[h].idx \notin bSet
  /\ helper[h].pc = "store" => helper[h].word = bSet \cap Copied(helper[h].idx)

CallOK(f) ==
  /\ call[f] \in Busy => mu = f
  /\ call[f] \in Busy \cup {"idle"} => am[f] = <<>>

(* What a call has taken so far is marked, and no function holds it.       *)
NotedOK(h) ==
  call[h[1]] \in Busy =>
    /\ Noted(h) \subseteq bSet \cup {0}
    /\ \A g \in Fun : Held(g) => Noted(h) \cap PortsOf(g) \subseteq {0}

HeldOK(f) ==
  Held(f) =>
    /\ PortsOf(f) \subseteq bSet \cup {0}
    /\ \A g \in Fun : g # f /\ Held(g) => PortsOf(f) \cap PortsOf(g) \subseteq {0}

Uncrowded ==
  /\ length = Ports
  /\ \A h \in Helper : HelperOK(h) /\ NotedOK(h)
  /\ \A f \in Fun : CallOK(f) /\ HeldOK(f)

ExclInv ==
  /\ NatTypeOK /\ released \in [Fun -> Nat] /\ am \in [Fun -> Seq(Nat)]
  /\ crowded \in BOOLEAN
  /\ crowded \/ Uncrowded

(* A smaller number lies in the same word or in an earlier one.            *)
LEMMA DivMono ==
  ASSUME NEW a \in Nat, NEW b \in Nat, a <= b
  PROVE  a \div Word \in Nat /\ b \div Word \in Nat /\ a \div Word <= b \div Word
BY NatAssumption

(* The bit a helper is about to set: within the ports, in a word that the  *)
(* other helper of the call does not touch.                                *)
LEMMA BitInRegion ==
  ASSUME NatTypeOK, length = Ports, NEW h \in Helper, HelperOK(h),
         helper[h].pc \in {"load", "store"}
  PROVE  LET i == helper[h].idx IN
         /\ i \in Nat /\ 0 < i /\ i < Ports /\ i % Ports = i
         /\ h[2] = "lower" => i \div Word < Upper \div Word
         /\ h[2] = "upper" => Upper \div Word <= i \div Word
         /\ Copied(i) = {b \in 0..i + Word : b \div Word = i \div Word}
<1> DEFINE i == helper[h].idx
           l == helper[h].limit
<1>1. i \in Nat /\ l \in Nat
  BY DEF NatTypeOK, HelperType
<1>2. /\ Offset(h) <= i /\ i < l
      /\ IF h[2] = "lower" THEN (l - 1) \div Word < Upper \div Word ELSE l <= Ports
  BY DEF HelperOK, InRegion
<1> HIDE DEF i, l
<1>3. h[2] \in {"lower", "upper"}
  BY DEF Helper
<1>4. 0 < i
  BY <1>1, <1>2, NatAssumption DEF Offset
<1>5. CASE h[2] = "lower"
  <2>1. (l - 1) \div Word < Upper \div Word /\ l - 1 \in Nat /\ i <= l - 1
    BY <1>1, <1>2, <1>5
  <2>2. i \div Word < Upper \div Word /\ i \div Word \in Nat /\ Upper \div Word \in Nat
    BY <1>1, <2>1, DivMono, NatAssumption
  <2>3. i < Upper
    BY <1>1, <2>2, DivMono, NatAssumption
  <2>4. i < Ports
    BY <1>1, <2>3, NatAssumption
  <2> QED BY <1>1, <1>4, <1>5, <2>2, <2>4, NatAssumption DEF Copied, i
<1>6. CASE h[2] = "upper"
  <2>1. i < Ports /\ Upper <= i
    BY <1>1, <1>2, <1>6, NatAssumption DEF Offset
  <2>2. Upper \div Word <= i \div Word
    BY <1>1, <2>1, DivMono, NatAssumption
  <2> QED BY <1>1, <1>4, <1>6, <2>1, <2>2, NatAssumption DEF Copied, i
<1> QED BY <1>3, <1>5, <1>6

(* The two helpers of a call never set bits of one word.                   *)
LEMMA WordsApart ==
  ASSUME NatTypeOK, length = Ports, NEW h \in Helper, NEW k \in Helper, h # k,
         HelperOK(h), HelperOK(k), CallOK(h[1]), CallOK(k[1]),
         helper[h].pc \in {"load", "store"}, helper[k].pc \in {"load", "store"}
  PROVE  helper[h].idx \notin Copied(helper[k].idx) /\ helper[h].idx # helper[k].idx
<1>1. PICK f \in Fun, s \in {"lower", "upper"} : h = <<f, s>>
  BY DEF Helper
<1>2. PICK g \in Fun, t \in {"lower", "upper"} : k = <<g, t>>
  BY DEF Helper
<1>3. call[f] \in Busy /\ call[g] \in Busy
  BY <1>1, <1>2 DEF HelperOK, Busy
<1>4. f = g
  BY <1>1, <1>2, <1>3 DEF CallOK
<1>5. s # t
  BY <1>1, <1>2, <1>4
<1> DEFINE i == helper[h].idx
           j == helper[k].idx
<1>6. i \div Word # j \div Word
  <2>1. i \in Nat /\ j \in Nat /\ Upper \in Nat
    BY BitInRegion, NatAssumption
  <2>2. i \div Word \in Nat /\ j \div Word \in Nat /\ Upper \div Word \in Nat
    BY <2>1, DivMono
  <2>3. \/ i \div Word < Upper \div Word /\ Upper \div Word <= j \div Word
        \/ j \div Word < Upper \div Word /\ Upper \div Word <= i \div Word
    BY <1>1, <1>2, <1>5, BitInRegion
  <2> HIDE DEF i, j
  <2> QED BY <2>2, <2>3
<1> QED BY <1>6, BitInRegion

(* Nobody runs while cp.mu is free.                                        *)
LEMMA NobodyBusy ==
  ASSUME Uncrowded, mu = 0, NEW f \in Fun
  PROVE  call[f] \notin Busy
BY DEF Uncrowded, CallOK, Fun

(* Functions keep their ports as long as no bit is cleared.                *)
LEMMA HeldKept ==
  ASSUME Uncrowded, UNCHANGED <<am, released>>, bSet \subseteq bSet'
  PROVE  \A f \in Fun : HeldOK(f)' /\ Held(f)' = Held(f) /\ PortsOf(f)' = PortsOf(f)
<1>1. \A f \in Fun : (Held(f)' <=> Held(f)) /\ PortsOf(f)' = PortsOf(f)
  BY DEF Held, PortsOf
<1>2. ASSUME NEW f \in Fun PROVE HeldOK(f)'
  <2>1. HeldOK(f)
    BY DEF Uncrowded
  <2> SUFFICES ASSUME Held(f)'
               PROVE  /\ PortsOf(f)' \subseteq bSet' \cup {0}
                      /\ \A g \in Fun :
                           g # f /\ Held(g)' => PortsOf(f)' \cap PortsOf(g)' \subseteq {0}
    BY DEF HeldOK
  <2> QED BY <1>1, <2>1 DEF HeldOK
<1> QED BY <1>1, <1>2 DEF Held

LEMMA ExclAssign ==
  ASSUME NatTypeOK, Uncrowded, NEW f \in Fun, Assign(f), UNCHANGED released
  PROVE  Uncrowded'
<1> DEFINE new == [NoHelper EXCEPT !.pc = "scan"]
<1>1. new.pc = "scan" /\ new.avail /\ new.acc = Zeros
  BY NatAssumption DEF NoHelper, HelperType, Zeros
<1>2. /\ helper' = [h \in Helper |-> IF h[1] = f THEN new ELSE helper[h]]
      /\ call' = [call EXCEPT ![f] = "lower"] /\ mu' = f /\ mu = 0 /\ call[f] = "idle"
      /\ UNCHANGED <<bSet, length, am>>
  BY DEF Assign, Goto
<1> HIDE DEF new
<1>3. \A g \in Fun : g # f => call'[g] = call[g] /\ call[g] \notin Busy
  BY <1>2, NobodyBusy DEF NatTypeOK
<1>4. call'[f] = "lower"
  BY <1>2 DEF NatTypeOK
<1>5. UNCHANGED <<bSet, length, am, released>>
  BY <1>2
<1>6. ASSUME NEW h \in Helper PROVE (HelperOK(h) /\ NotedOK(h))'
  <2>0. h[1] \in Fun
    BY DEF Helper
  <2>1. CASE h[1] = f
    <3>1. helper'[h] = new
      BY <1>2, <2>1
    <3>2. Noted(h)' \subseteq {0}
      BY <1>1, <3>1 DEF Noted, Zeros
    <3>3. HelperOK(h)'
      BY <1>1, <1>4, <2>1, <3>1 DEF HelperOK
    <3> QED BY <3>2, <3>3 DEF NotedOK
  <2>2. CASE h[1] # f
    <3>1. helper'[h] = helper[h] /\ call'[h[1]] = call[h[1]] /\ call[h[1]] \notin Busy
      BY <1>2, <1>3, <2>0, <2>2
    <3>2. HelperOK(h)'
      BY <1>5, <3>1 DEF Uncrowded, HelperOK, InRegion, Copied
    <3> QED BY <3>1, <3>2 DEF NotedOK
  <2> QED BY <2>1, <2>2
<1>7. ASSUME NEW g \in Fun PROVE (CallOK(g) /\ HeldOK(g))'
  <2>1. CallOK(g)'
    BY <1>2, <1>3, <1>4 DEF Uncrowded, CallOK, Busy
  <2>2. HeldOK(g)'
    BY <1>5, HeldKept
  <2> QED BY <2>1, <2>2
<1> QED BY <1>5, <1>6, <1>7 DEF Uncrowded

(* A step of a helper that sets no bit.                                    *)
LEMMA ExclHelper ==
  ASSUME NatTypeOK, Uncrowded, NEW h \in Helper, NEW r \in HelperType,
         helper' = [helper EXCEPT ![h] = r], r.acc = helper[h].acc,
         UNCHANGED <<bSet, length, mu, am, call, released>>, HelperOK(h)'
  PROVE  Uncrowded'
<1>0. helper \in [Helper -> HelperType]
  BY DEF NatTypeOK
<1>1. ASSUME NEW k \in Helper PROVE (HelperOK(k) /\ NotedOK(k))'
  <2>1. Noted(k)' = Noted(k)
    BY <1>0 DEF Noted
  <2>2. NotedOK(k)'
    BY <2>1 DEF Uncrowded, NotedOK, Held, PortsOf
  <2>3. CASE k # h
    <3>1. helper'[k] = helper[k]
      BY <1>0, <2>3
    <3> QED BY <2>2, <3>1 DEF Uncrowded, HelperOK, InRegion, Copied
  <2> QED BY <2>2, <2>3
<1>2. ASSUME NEW f \in Fun PROVE (CallOK(f) /\ HeldOK(f))'
  BY HeldKept DEF Uncrowded, CallOK
<1> QED BY <1>1, <1>2 DEF Uncrowded

LEMMA ExclScan ==
  ASSUME NatTypeOK, Uncrowded, NEW h \in Helper, Scan(h), ~crowded', UNCHANGED released
  PROVE  Uncrowded'
<1> DEFINE s == helper[h]
<1>0. s \in HelperType /\ helper \in [Helper -> HelperType] /\ bSet \subseteq Nat
      /\ length \in Nat
  BY DEF NatTypeOK
<1>1. PICK i \in Clear(h) :
        /\ helper' = [helper EXCEPT ![h].pc = "test", ![h].idx = i,
                                    ![h].limit = i + Chunk]
        /\ crowded' = (crowded \/ ~Fits(h, i))
  BY DEF Scan
<1>2. Fits(h, i)
  BY <1>1
<1>3. i \in Nat /\ i + Chunk \in Nat /\ Offset(h) <= i
  BY <1>0, NatAssumption DEF Clear, Offset
<1> DEFINE n == i + Chunk
           r == [s EXCEPT !.pc = "test", !.idx = i, !.limit = n]
<1>4. helper' = [helper EXCEPT ![h] = r]
  BY <1>0, <1>1
<1>5. /\ r \in HelperType /\ r.acc = s.acc /\ r.pc = "test" /\ r.idx = i /\ r.limit = n
      /\ r.avail = s.avail
  <2> HIDE DEF n
  <2> QED BY <1>0, <1>3 DEF HelperType, n
<1>6. UNCHANGED <<bSet, length, mu, am, call>> /\ s.pc = "scan"
  BY DEF Scan
<1> HIDE DEF r
<1>7. helper'[h] = r
  BY <1>0, <1>4
<1>8. i <= n /\ n - 1 = i + Chunk - 1
  BY <1>3, NatAssumption
<1>9. InRegion(h)'
  BY <1>2, <1>3, <1>5, <1>7, <1>8 DEF InRegion, Fits, Offset
<1>10. HelperOK(h)'
  BY <1>5, <1>6, <1>7, <1>9 DEF Uncrowded, HelperOK
<1> QED BY <1>4, <1>5, <1>6, <1>10, ExclHelper

LEMMA ExclTest ==
  ASSUME NatTypeOK, Uncrowded, NEW h \in Helper, Test(h), UNCHANGED released
  PROVE  Uncrowded'
<1> DEFINE s == helper[h]
           i == s.idx
<1>0. /\ s \in HelperType /\ helper \in [Helper -> HelperType]
      /\ i \in Nat /\ s.limit \in Nat
  BY DEF NatTypeOK, HelperType
<1>1. UNCHANGED <<bSet, length, mu, am, call>> /\ s.pc = "test" /\ HelperOK(h)
  BY DEF Test, Uncrowded
<1>2. InRegion(h)
  BY <1>1 DEF HelperOK
<1>3. CASE i = s.limit
  <2> DEFINE r == [s EXCEPT !.pc = "send"]
  <2>1. helper' = [helper EXCEPT ![h] = r]
    BY <1>0, <1>3 DEF Test
  <2>2. r \in HelperType /\ r.acc = s.acc /\ r.pc = "send" /\ r.avail = s.avail
    BY <1>0 DEF HelperType
  <2> HIDE DEF r
  <2>3. helper'[h] = r
    BY <1>0, <2>1
  <2>4. HelperOK(h)'
    BY <1>1, <2>2, <2>3 DEF HelperOK
  <2> QED BY <1>1, <2>1, <2>2, <2>4, ExclHelper
<1>4. CASE i # s.limit /\ i \in bSet
  <2> DEFINE n == i + 1
             r == [s EXCEPT !.idx = n]
  <2>1. helper' = [helper EXCEPT ![h] = r]
    BY <1>0, <1>4 DEF Test
  <2>2. n \in Nat /\ n <= s.limit /\ i <= n
    BY <1>0, <1>2, <1>4 DEF InRegion
  <2>3. /\ r \in HelperType /\ r.acc = s.acc /\ r.pc = "test" /\ r.avail = s.avail
        /\ r.idx = n /\ r.limit = s.limit
    <3> HIDE DEF n
    <3> QED BY <1>0, <1>1, <2>2 DEF HelperType
  <2> HIDE DEF r
  <2>4. helper'[h] = r
    BY <1>0, <2>1
  <2>5. Offset(h) \in Nat /\ Offset(h) <= n
    BY <1>0, <1>2, <2>2, NatAssumption DEF InRegion, Offset
  <2> HIDE DEF n
  <2>6. InRegion(h)'
    BY <1>2, <2>2, <2>3, <2>4, <2>5 DEF InRegion, Offset
  <2>7. HelperOK(h)'
    BY <1>1, <2>3, <2>4, <2>6 DEF HelperOK
  <2> QED BY <1>1, <2>1, <2>3, <2>7, ExclHelper
<1>5. CASE i # s.limit /\ i \notin bSet
  <2> DEFINE r == [s EXCEPT !.pc = "load"]
  <2>1. helper' = [helper EXCEPT ![h] = r]
    BY <1>0, <1>5 DEF Test
  <2>2. /\ r \in HelperType /\ r.acc = s.acc /\ r.pc = "load" /\ r.avail = s.avail
        /\ r.idx = i /\ r.limit = s.limit
    BY <1>0 DEF HelperType
  <2> HIDE DEF r
  <2>3. helper'[h] = r
    BY <1>0, <2>1
  <2>4. i < s.limit
    BY <1>0, <1>2, <1>5 DEF InRegion
  <2>5. InRegion(h)'
    BY <1>2, <2>2, <2>3 DEF InRegion, Offset
  <2>6. HelperOK(h)'
    BY <1>1, <1>5, <2>2, <2>3, <2>4, <2>5 DEF HelperOK
  <2> QED BY <1>1, <2>1, <2>2, <2>6, ExclHelper
<1> QED BY <1>3, <1>4, <1>5

LEMMA ExclLoad ==
  ASSUME NatTypeOK, Uncrowded, NEW h \in Helper, Load(h), UNCHANGED released
  PROVE  Uncrowded'
<1> DEFINE s == helper[h]
           w == bSet \cap Copied(s.idx)
           r == [s EXCEPT !.pc = "store", !.word = w]
<1>0. s \in HelperType /\ helper \in [Helper -> HelperType] /\ w \in SUBSET Nat
  BY DEF NatTypeOK
<1>1. UNCHANGED <<bSet, length, mu, am, call>> /\ s.pc = "load" /\ HelperOK(h)
  BY DEF Load, Uncrowded
<1>2. helper' = [helper EXCEPT ![h] = r]
  BY <1>0 DEF Load
<1>3. /\ r \in HelperType /\ r.acc = s.acc /\ r.pc = "store" /\ r.avail = s.avail
      /\ r.idx = s.idx /\ r.limit = s.limit /\ r.word = w
  <2> HIDE DEF w
  <2> QED BY <1>0 DEF HelperType
<1> HIDE DEF r
<1>4. helper'[h] = r
  BY <1>0, <1>2
<1>5. InRegion(h)'
  BY <1>1, <1>3, <1>4 DEF HelperOK, InRegion, Offset
<1>6. HelperOK(h)'
  BY <1>1, <1>3, <1>4, <1>5 DEF HelperOK, Copied
<1> QED BY <1>1, <1>2, <1>3, <1>6, ExclHelper

(* Set loses no bit: what the helper loaded is what the word still holds.  *)
LEMMA StoreAdds ==
  ASSUME NatTypeOK, Uncrowded, NEW h \in Helper, Store(h)
  PROVE  /\ bSet' = bSet \cup {helper[h].idx} /\ length' = length
         /\ UNCHANGED <<mu, am, call, crowded>>
<1>1. helper[h].pc = "store" /\ HelperOK(h) /\ length = Ports
  BY DEF Store, Uncrowded
<1>2. helper[h].word = bSet \cap Copied(helper[h].idx) /\ helper[h].idx < Ports
  BY <1>1, BitInRegion DEF HelperOK
<1> QED BY <1>1, <1>2 DEF Store, Stored

LEMMA ExclStore ==
  ASSUME NatTypeOK, Uncrowded, NEW h \in Helper, Store(h), UNCHANGED released
  PROVE  Uncrowded'
<1> DEFINE s == helper[h]
           i == s.idx
           n == s.n + 1
           v == i % Ports
           a == [s.acc EXCEPT ![n] = v]
           j == i + 1
           r == [s EXCEPT !.pc = "test", !.idx = j, !.n = n, !.acc = a, !.word = {}]
<1>0. /\ s \in HelperType /\ helper \in [Helper -> HelperType] /\ i \in Nat
      /\ s.limit \in Nat /\ s.acc \in [1..Chunk -> Nat] /\ n \in Nat
  BY DEF NatTypeOK, HelperType
<1>1. s.pc = "store" /\ HelperOK(h) /\ length = Ports
  BY DEF Store, Uncrowded
<1>2. InRegion(h) /\ i < s.limit /\ i \notin bSet /\ 0 < i /\ i < Ports /\ v = i
  BY <1>1, BitInRegion DEF HelperOK
<1>3. helper' = [helper EXCEPT ![h] = r]
  BY <1>0 DEF Store
<1>4. /\ bSet' = bSet \cup {i}
      /\ UNCHANGED <<length, mu, am, call, released>>
  BY StoreAdds
<1>5. a \in [1..Chunk -> Nat] /\ j \in Nat /\ j <= s.limit /\ i <= j
  <2>1. j \in Nat /\ j <= s.limit /\ i <= j /\ v \in Nat
    BY <1>0, <1>2
  <2> HIDE DEF n, v, j
  <2> QED BY <1>0, <2>1
<1>6. /\ r.pc = "test" /\ r.idx = j /\ r.limit = s.limit /\ r.acc = a
      /\ r.avail = s.avail
  <2> HIDE DEF a, j, n
  <2> QED BY <1>0, <1>5 DEF HelperType
<1>7. \A k \in 1..Chunk : a[k] = i \/ a[k] = s.acc[k]
  BY <1>0, <1>2
<1> HIDE DEF r, a, n, v
<1>8. helper'[h] = r
  BY <1>0, <1>3
<1>9. HelperOK(h)'
  <2>1. Offset(h) \in Nat /\ Offset(h) <= j
    BY <1>0, <1>2, <1>5, NatAssumption DEF InRegion, Offset
  <2> HIDE DEF j
  <2>2. InRegion(h)'
    BY <1>2, <1>5, <1>6, <1>8, <2>1 DEF InRegion, Offset
  <2> QED BY <1>1, <1>4, <1>6, <1>8, <2>2 DEF HelperOK
<1>10. ASSUME NEW k \in Helper, k # h PROVE HelperOK(k)'
  <2>0. helper'[k] = helper[k] /\ HelperOK(k) /\ h[1] \in Fun /\ k[1] \in Fun
    BY <1>0, <1>3, <1>10 DEF Uncrowded, Helper
  <2>1. CASE helper[k].pc \in {"load", "store"}
    <3>1. i \notin Copied(helper[k].idx) /\ i # helper[k].idx
      BY <1>1, <1>10, <2>0, <2>1, WordsApart DEF Uncrowded
    <3> HIDE DEF i
    <3> QED BY <1>4, <2>0, <2>1, <3>1 DEF HelperOK, InRegion, Copied
  <2>2. CASE helper[k].pc \notin {"load", "store"}
    BY <1>4, <2>0, <2>2 DEF HelperOK, InRegion
  <2> QED BY <2>1, <2>2
<1>11. \A f \in Fun : HeldOK(f)' /\ Held(f)' = Held(f) /\ PortsOf(f)' = PortsOf(f)
  BY <1>4, HeldKept
<1>12. ASSUME NEW k \in Helper PROVE NotedOK(k)'
  <2>1. Noted(k)' \subseteq Noted(k) \cup {i}
    <3>1. CASE k = h
      BY <1>6, <1>7, <1>8, <3>1 DEF Noted
    <3>2. CASE k # h
      BY <1>0, <1>3, <3>2 DEF Noted
    <3> QED BY <3>1, <3>2
  <2>2. \A g \in Fun : Held(g) => i \notin PortsOf(g)
    BY <1>2 DEF Uncrowded, HeldOK
  <2>3. NotedOK(k)
    BY DEF Uncrowded
  <2> SUFFICES ASSUME call[k[1]] \in Busy
               PROVE  /\ Noted(k)' \subseteq bSet' \cup {0}
                      /\ \A g \in Fun :
                           Held(g) => Noted(k)' \cap PortsOf(g) \subseteq {0}
    BY <1>4, <1>11 DEF NotedOK
  <2> HIDE DEF i
  <2> QED BY <1>4, <2>1, <2>2, <2>3 DEF NotedOK
<1>13. \A f \in Fun : CallOK(f)'
  BY <1>4 DEF Uncrowded, CallOK
<1> QED BY <1>4, <1>1, <1>9, <1>10, <1>11, <1>12, <1>13 DEF Uncrowded

LEMMA ExclReceive ==
  ASSUME NatTypeOK, Uncrowded, NEW f \in Fun, NEW t \in {"lower", "upper"},
         Receive(f, t), UNCHANGED released
  PROVE  Uncrowded'
<1> DEFINE h == <<f, t>>
           s == helper[h]
           l == IF t = "lower" THEN "upper" ELSE "append"
           r == [s EXCEPT !.sent = TRUE, !.pc = "off"]
<1>0. /\ h \in Helper /\ s \in HelperType /\ helper \in [Helper -> HelperType]
      /\ call \in [Fun -> {"idle", "lower", "upper", "append", "post", "made", "failed"}]
  BY DEF NatTypeOK, Helper
<1>1. s.avail /\ call[f] = t /\ UNCHANGED <<bSet, length, mu, am>>
  BY <1>0 DEF Receive, Uncrowded, HelperOK
<1>2. helper' = [helper EXCEPT ![h] = r] /\ call' = [call EXCEPT ![f] = l]
  BY <1>0, <1>1 DEF Receive, Goto
<1>3. r.pc = "off" /\ r.avail /\ r.acc = s.acc
  BY <1>0, <1>1 DEF HelperType
<1> HIDE DEF r
<1>4. helper'[h] = r /\ \A k \in Helper : k # h => helper'[k] = helper[k]
  BY <1>0, <1>2
<1>5. call'[f] = l /\ \A g \in Fun : g # f => call'[g] = call[g]
  BY <1>0, <1>2
<1>6. call[f] \in Busy /\ call'[f] \in Busy
  BY <1>1, <1>5 DEF Busy
<1>7. \A g \in Fun : HeldOK(g)' /\ Held(g)' = Held(g) /\ PortsOf(g)' = PortsOf(g)
  BY <1>1, HeldKept
<1>8. ASSUME NEW k \in Helper PROVE HelperOK(k)'
  <2>1. CASE k = h
    BY <1>3, <1>4, <2>1 DEF HelperOK
  <2>2. CASE k # h
    <3>1. PICK g \in Fun, u \in {"lower", "upper"} : k = <<g, u>>
      BY DEF Helper
    <3>2. HelperOK(k) /\ helper'[k] = helper[k]
      BY <1>4, <2>2 DEF Uncrowded
    <3>3. helper[k].pc # "off" => call'[g] \in {"lower", u}
      BY <1>1, <1>5, <2>2, <3>1, <3>2 DEF HelperOK
    <3> QED BY <1>1, <3>1, <3>2, <3>3 DEF HelperOK, InRegion, Copied
  <2> QED BY <2>1, <2>2
<1>9. ASSUME NEW k \in Helper PROVE NotedOK(k)'
  <2>1. Noted(k)' = Noted(k)
    BY <1>3, <1>4 DEF Noted
  <2>2. k[1] \in Fun /\ (call'[k[1]] \in Busy => call[k[1]] \in Busy)
    BY <1>5, <1>6 DEF Helper
  <2>3. NotedOK(k)
    BY DEF Uncrowded
  <2> QED BY <1>1, <1>7, <2>1, <2>2, <2>3 DEF NotedOK
<1>10. ASSUME NEW g \in Fun PROVE CallOK(g)'
  BY <1>1, <1>5, <1>6 DEF Uncrowded, CallOK
<1> QED BY <1>1, <1>7, <1>8, <1>9, <1>10 DEF Uncrowded

(* What the concatenation of two sequences holds.                          *)
LEMMA ListConcat ==
  ASSUME NEW S, NEW s \in Seq(S), NEW t \in Seq(S)
  PROVE  /\ s \o t \in Seq(S) /\ Len(s \o t) = Len(s) + Len(t)
         /\ \A i \in 1..(Len(s) + Len(t)) :
              (s \o t)[i] = IF i <= Len(s) THEN s[i] ELSE t[i - Len(s)]
OBVIOUS

(* The list of ports of a function holds what its two helpers noted.       *)
LEMMA EnterPorts ==
  ASSUME NatTypeOK, am \in [Fun -> Seq(Nat)], NEW f \in Fun, Enter(f)
  PROVE  /\ am' \in [Fun -> Seq(Nat)]
         /\ PortsOf(f)' \subseteq Noted(<<f, "lower">>) \cup Noted(<<f, "upper">>)
         /\ \A g \in Fun : g # f => am'[g] = am[g]
<1> DEFINE l == helper[<<f, "lower">>].acc
           u == helper[<<f, "upper">>].acc
<1>1. l \in [1..Chunk -> Nat] /\ u \in [1..Chunk -> Nat] /\ Chunk \in Nat
  BY NatAssumption DEF NatTypeOK, HelperType, Helper
<1>2. am' = [am EXCEPT ![f] = l \o u]
  BY DEF Enter
<1>3. Noted(<<f, "lower">>) = {l[k] : k \in 1..Chunk}
      /\ Noted(<<f, "upper">>) = {u[k] : k \in 1..Chunk}
  BY DEF Noted
<1> HIDE DEF l, u
<1>4. l \in Seq(Nat) /\ u \in Seq(Nat) /\ Len(l) = Chunk /\ Len(u) = Chunk
  BY <1>1
<1> DEFINE q == l \o u
<1>5. /\ q \in Seq(Nat) /\ Len(q) = Len(l) + Len(u)
      /\ \A k \in 1..Len(l) + Len(u) : q[k] = IF k <= Len(l) THEN l[k] ELSE u[k - Len(l)]
  BY <1>4, ListConcat
<1> HIDE DEF q
<1>6. \A k \in 1..Len(q) : q[k] \in {l[n] : n \in 1..Chunk} \cup {u[n] : n \in 1..Chunk}
  <2> SUFFICES ASSUME NEW k \in 1..Len(q)
               PROVE  q[k] \in {l[n] : n \in 1..Chunk} \cup {u[n] : n \in 1..Chunk}
    OBVIOUS
  <2>1. CASE k <= Chunk
    BY <1>1, <1>4, <1>5, <2>1
  <2>2. CASE ~(k <= Chunk)
    <3>1. k \in 1..Len(l) + Len(u) /\ k - Chunk \in 1..Chunk
      BY <1>1, <1>4, <1>5, <2>2
    <3>2. q[k] = u[k - Chunk]
      BY <1>4, <1>5, <2>2, <3>1
    <3> QED BY <3>1, <3>2
  <2> QED BY <2>1, <2>2
<1>7. am'[f] = q /\ am' \in [Fun -> Seq(Nat)]
  BY <1>2, <1>5 DEF q
<1> QED BY <1>2, <1>3, <1>6, <1>7 DEF PortsOf

LEMMA ExclEnter ==
  ASSUME NatTypeOK, am \in [Fun -> Seq(Nat)], Uncrowded, NEW f \in Fun, Enter(f),
         UNCHANGED released
  PROVE  Uncrowded'
<1> DEFINE lo == <<f, "lower">>
           up == <<f, "upper">>
<1>0. /\ lo \in Helper /\ up \in Helper /\ call[f] = "append" /\ call[f] \in Busy
      /\ UNCHANGED <<bSet, length, helper>> /\ mu' = 0 /\ mu = f
      /\ call' = [call EXCEPT ![f] = "post"]
  BY DEF Enter, Goto, Helper, Busy, Uncrowded, CallOK
<1>1. /\ call'[f] = "post" /\ \A g \in Fun : g # f => call'[g] = call[g]
  BY <1>0 DEF NatTypeOK
<1>2. /\ PortsOf(f)' \subseteq Noted(lo) \cup Noted(up)
      /\ \A g \in Fun : g # f => am'[g] = am[g]
  BY EnterPorts
<1>3. \A g \in Fun : g # f => (Held(g)' <=> Held(g)) /\ PortsOf(g)' = PortsOf(g)
  BY <1>2 DEF Held, PortsOf
<1>4. /\ Noted(lo) \cup Noted(up) \subseteq bSet \cup {0}
      /\ \A g \in Fun :
           Held(g) => (Noted(lo) \cup Noted(up)) \cap PortsOf(g) \subseteq {0}
  BY <1>0 DEF Uncrowded, NotedOK
<1>5. ASSUME NEW g \in Fun PROVE g # f => call[g] \notin Busy
  BY <1>0 DEF Uncrowded, CallOK
<1>6. ASSUME NEW g \in Fun PROVE HeldOK(g)'
  <2>1. HeldOK(g)
    BY DEF Uncrowded
  <2>2. CASE g = f
    <3>1. \A k \in Fun : k # f /\ Held(k)' => PortsOf(f)' \cap PortsOf(k)' \subseteq {0}
      BY <1>2, <1>3, <1>4
    <3>2. PortsOf(f)' \subseteq bSet' \cup {0}
      BY <1>0, <1>2, <1>4
    <3> QED BY <2>2, <3>1, <3>2 DEF HeldOK
  <2>3. CASE g # f
    <3>1. Held(g)' => PortsOf(g)' \subseteq bSet' \cup {0}
      BY <1>0, <1>3, <2>1, <2>3 DEF HeldOK
    <3>2. ASSUME Held(g)', NEW k \in Fun, k # g, Held(k)'
          PROVE  PortsOf(g)' \cap PortsOf(k)' \subseteq {0}
      <4>1. CASE k = f
        BY <1>2, <1>3, <1>4, <2>3, <3>2, <4>1
      <4>2. CASE k # f
        BY <1>3, <2>1, <2>3, <3>2, <4>2 DEF HeldOK
      <4> QED BY <4>1, <4>2
    <3> QED BY <3>1, <3>2 DEF HeldOK
  <2> QED BY <2>2, <2>3
<1>7. ASSUME NEW h \in Helper PROVE (HelperOK(h) /\ NotedOK(h))'
  <2>1. PICK g \in Fun, t \in {"lower", "upper"} : h = <<g, t>>
    BY DEF Helper
  <2>2. call'[g] \notin Busy
    BY <1>1, <1>5 DEF Busy
  <2>3. HelperOK(h) /\ call[g] \notin {"lower", t}
    BY <1>0, <1>5, <2>1 DEF Uncrowded, Busy
  <2> QED BY <1>0, <2>1, <2>2, <2>3 DEF HelperOK, NotedOK
<1>8. ASSUME NEW g \in Fun PROVE CallOK(g)'
  BY <1>1, <1>2, <1>5 DEF Uncrowded, CallOK, Busy
<1> QED BY <1>0, <1>6, <1>7, <1>8 DEF Uncrowded

LEMMA ExclPost ==
  ASSUME NatTypeOK, Uncrowded, NEW f \in Fun, Post(f), UNCHANGED released
  PROVE  Uncrowded'
<1>0. PICK l \in {"made", "failed"} : call' = [call EXCEPT ![f] = l]
  BY DEF Post, Goto
<1>1. call[f] = "post" /\ UNCHANGED <<bSet, length, mu, am, helper>>
  BY DEF Post
<1>2. call'[f] \in {"made", "failed"} /\ \A g \in Fun : g # f => call'[g] = call[g]
  BY <1>0 DEF NatTypeOK
<1>3. \A g \in Fun : HeldOK(g)' /\ Held(g)' = Held(g) /\ PortsOf(g)' = PortsOf(g)
  BY <1>1, HeldKept
<1>4. ASSUME NEW h \in Helper PROVE (HelperOK(h) /\ NotedOK(h))'
  <2>1. PICK g \in Fun, t \in {"lower", "upper"} : h = <<g, t>>
    BY DEF Helper
  <2>2. Noted(h)' = Noted(h)
    BY <1>1 DEF Noted
  <2>3. HelperOK(h) /\ NotedOK(h)
    BY DEF Uncrowded
  <2>4. NotedOK(h)'
    BY <1>1, <1>2, <1>3, <2>1, <2>2, <2>3 DEF NotedOK, Busy
  <2>5. HelperOK(h)'
    BY <1>1, <1>2, <2>1, <2>3 DEF HelperOK, InRegion, Copied
  <2> QED BY <2>4, <2>5
<1>5. ASSUME NEW g \in Fun PROVE CallOK(g)'
  BY <1>1, <1>2 DEF Uncrowded, CallOK, Busy
<1> QED BY <1>1, <1>3, <1>4, <1>5 DEF Uncrowded

LEMMA ExclRelease ==
  ASSUME NatTypeOK, released \in [Fun -> Nat], MaxReleases <= 1, Uncrowded,
         NEW f \in Fun, Release(f)
  PROVE  Uncrowded'
<1>0. /\ am[f] # <<>> /\ mu = 0 /\ released[f] < MaxReleases
      /\ bSet' = bSet \ Releasable(f)
      /\ released' = [released EXCEPT ![f] = released[f] + 1]
      /\ UNCHANGED <<length, mu, am, call, helper>>
  BY DEF Release
<1>1. /\ released[f] = 0 /\ released'[f] = 1
      /\ \A g \in Fun : g # f => released'[g] = released[g]
  BY <1>0, ContextAssumption
<1>2. /\ Held(f) /\ ~Held(f)'
      /\ \A g \in Fun : g # f => (Held(g)' <=> Held(g))
      /\ \A g \in Fun : PortsOf(g)' = PortsOf(g)
  BY <1>0, <1>1 DEF Held, PortsOf
<1>3. Releasable(f) \subseteq PortsOf(f)
  BY DEF Releasable
<1>4. ASSUME NEW g \in Fun PROVE HeldOK(g)'
  <2>1. HeldOK(g)
    BY DEF Uncrowded
  <2> SUFFICES ASSUME Held(g)'
               PROVE  /\ PortsOf(g)' \subseteq bSet' \cup {0}
                      /\ \A k \in Fun :
                           k # g /\ Held(k)' => PortsOf(g)' \cap PortsOf(k)' \subseteq {0}
    BY DEF HeldOK
  <2>2. g # f /\ Held(g) /\ PortsOf(g) \cap PortsOf(f) \subseteq {0}
    BY <1>2, <2>1 DEF HeldOK
  <2>3. PortsOf(g)' \subseteq bSet' \cup {0}
    BY <1>0, <1>2, <1>3, <2>1, <2>2 DEF HeldOK
  <2>4. \A k \in Fun : k # g /\ Held(k)' => Held(k)
    BY <1>2
  <2> QED BY <1>2, <2>1, <2>2, <2>3, <2>4 DEF HeldOK
<1>5. ASSUME NEW h \in Helper PROVE (HelperOK(h) /\ NotedOK(h))'
  <2>1. PICK g \in Fun, t \in {"lower", "upper"} : h = <<g, t>>
    BY DEF Helper
  <2>2. call'[g] \notin Busy /\ call[g] \notin Busy
    BY <1>0, NobodyBusy
  <2>3. HelperOK(h)
    BY DEF Uncrowded
  <2>4. helper[h].avail /\ helper[h].pc = "off"
    BY <2>1, <2>2, <2>3 DEF HelperOK, Busy
  <2> QED BY <1>0, <2>1, <2>2, <2>4 DEF HelperOK, NotedOK
<1>6. \A g \in Fun : CallOK(g)'
  BY <1>0 DEF Uncrowded, CallOK
<1> QED BY <1>0, <1>4, <1>5, <1>6 DEF Uncrowded

-----------------------------------------------------------------------------
LEMMA ExclInit == Init => ExclInv
<1> SUFFICES ASSUME Init PROVE ExclInv
  OBVIOUS
<1>1. /\ length = Ports /\ am = [f \in Fun |-> <<>>] /\ call = [f \in Fun |-> "idle"]
      /\ helper = [h \in Helper |-> NoHelper] /\ crowded = FALSE
      /\ released = [f \in Fun |-> 0]
  BY DEF Init, NatInit
<1>2. NatTypeOK
  BY NatInitInv DEF Init, NatInv
<1>3. NoHelper.avail /\ NoHelper.pc = "off"
  BY DEF NoHelper
<1>4. \A f \in Fun : ~Held(f) /\ call[f] \notin Busy /\ am[f] = <<>>
  BY <1>1 DEF Held, Busy
<1>5. \A h \in Helper : HelperOK(h) /\ NotedOK(h)
  BY <1>1, <1>3, <1>4 DEF HelperOK, NotedOK, Helper
<1>6. Uncrowded
  BY <1>1, <1>4, <1>5 DEF Uncrowded, CallOK, HeldOK
<1>7. am \in [Fun -> Seq(Nat)] /\ released \in [Fun -> Nat]
  <2>1. <<>> \in Seq(Nat)
    OBVIOUS
  <2> QED BY <1>1, <2>1
<1>8. crowded \in BOOLEAN
  BY <1>1
<1> QED BY <1>2, <1>6, <1>7, <1>8 DEF ExclInv

(* A call that no longer finds a block in its own region is never undone.  *)
LEMMA CrowdedStays ==
  ASSUME crowded \in BOOLEAN, [Next]_vars
  PROVE  crowded' \in BOOLEAN /\ (crowded => crowded')
BY DEF Next, vars, NatNext, natVars, CallStep, HelperStep, Assign, Receive, Enter, Post,
       Scan, Test, Load, Store, Lease, Release

LEMMA ExclTypes ==
  ASSUME ExclInv, [Next]_vars
  PROVE  released' \in [Fun -> Nat] /\ am' \in [Fun -> Seq(Nat)]
<1>0. NatTypeOK /\ released \in [Fun -> Nat] /\ am \in [Fun -> Seq(Nat)]
  BY DEF ExclInv
<1>1. ASSUME NEW f \in Fun, Release(f) PROVE released' \in [Fun -> Nat] /\ am' = am
  BY <1>0, <1>1 DEF Release
<1>2. ASSUME NEW f \in Fun, Enter(f) PROVE am' \in [Fun -> Seq(Nat)]
  BY <1>0, <1>2, EnterPorts
<1>3. CASE NatNext /\ UNCHANGED released
  <2>1. am' = am \/ \E f \in Fun : Enter(f)
    BY <1>3
    DEF NatNext, CallStep, HelperStep, Assign, Receive, Post, Scan, Test, Load, Store
  <2> QED BY <1>0, <1>2, <1>3, <2>1
<1>4. CASE UNCHANGED <<natVars, released>>
  BY <1>0, <1>4 DEF natVars
<1> QED BY <1>0, <1>1, <1>3, <1>4 DEF Next, vars, Lease

LEMMA ExclStep ==
  ASSUME MaxReleases <= 1, ExclInv, NatTypeOK', [Next]_vars
  PROVE  ExclInv'
<1>0. NatTypeOK /\ released \in [Fun -> Nat] /\ am \in [Fun -> Seq(Nat)]
  BY DEF ExclInv
<1>1. crowded' \in BOOLEAN /\ (crowded => crowded')
  BY CrowdedStays DEF ExclInv
<1>2. ASSUME ~crowded' PROVE Uncrowded'
  <2>0. Uncrowded
    BY <1>1, <1>2 DEF ExclInv
  <2>1. ASSUME NEW f \in Fun, CallStep(f), UNCHANGED released PROVE Uncrowded'
    <3>1. CASE Assign(f)
      BY <1>0, <2>0, <2>1, <3>1, ExclAssign
    <3>2. CASE Receive(f, "lower")
      BY <1>0, <2>0, <2>1, <3>2, ExclReceive
    <3>3. CASE Receive(f, "upper")
      BY <1>0, <2>0, <2>1, <3>3, ExclReceive
    <3>4. CASE Enter(f)
      BY <1>0, <2>0, <2>1, <3>4, ExclEnter
    <3>5. CASE Post(f)
      BY <1>0, <2>0, <2>1, <3>5, ExclPost
    <3> QED BY <2>1, <3>1, <3>2, <3>3, <3>4, <3>5 DEF CallStep
  <2>2. ASSUME NEW h \in Helper, HelperStep(h), UNCHANGED released PROVE Uncrowded'
    <3>1. CASE Scan(h)
      BY <1>0, <1>2, <2>0, <2>2, <3>1, ExclScan
    <3>2. CASE Test(h)
      BY <1>0, <2>0, <2>2, <3>2, ExclTest
    <3>3. CASE Load(h)
      BY <1>0, <2>0, <2>2, <3>3, ExclLoad
    <3>4. CASE Store(h)
      BY <1>0, <2>0, <2>2, <3>4, ExclStore
    <3> QED BY <2>2, <3>1, <3>2, <3>3, <3>4 DEF HelperStep
  <2>3. ASSUME NEW f \in Fun, Release(f) PROVE Uncrowded'
    BY <1>0, <2>0, <2>3, ExclRelease
  <2>4. CASE UNCHANGED <<natVars, released>>
    <3>1. UNCHANGED <<bSet, length, mu, am, call, helper, released>>
      BY <2>4 DEF natVars
    <3>2. \A f \in Fun : HeldOK(f)' /\ Held(f)' = Held(f) /\ PortsOf(f)' = PortsOf(f)
      BY <2>0, <3>1, HeldKept
    <3>3. ASSUME NEW h \in Helper PROVE HelperOK(h)'
      BY <2>0, <3>1 DEF Uncrowded, HelperOK, InRegion, Copied
    <3>4. ASSUME NEW h \in Helper PROVE NotedOK(h)'
      <4>1. Noted(h)' = Noted(h) /\ NotedOK(h)
        BY <2>0, <3>1 DEF Noted, Uncrowded
      <4> QED BY <3>1, <3>2, <4>1 DEF NotedOK
    <3>5. \A f \in Fun : CallOK(f)'
      BY <2>0, <3>1 DEF Uncrowded, CallOK
    <3> QED BY <2>0, <3>1, <3>2, <3>3, <3>4, <3>5 DEF Uncrowded
  <2> QED BY <2>1, <2>2, <2>3, <2>4 DEF Next, NatNext, vars, Lease
<1> QED BY <1>1, <1>2, ExclTypes DEF ExclInv

LEMMA ExclInvariant ==
  ASSUME MaxReleases <= 1
  PROVE  Spec => [](NatInv /\ ExclInv)
<1>1. Init => NatInv /\ ExclInv
  BY NatInitInv, ExclInit DEF Init
<1>2. NatInv /\ ExclInv /\ [Next]_vars => (NatInv /\ ExclInv)'
  BY NatStepInv, ExclStep DEF NatInv
<1> QED BY <1>1, <1>2, PTL DEF Spec

(* As long as every block fits in its helper's own region, no port is in   *)
(* the lists of two functions that hold their ports, and every port held   *)
(* is marked as used; for calls of ReleasePorts at most once per function. *)
THEOREM ContextPortsExclusive ==
  ASSUME MaxReleases <= 1
  PROVE  Spec => []PortsExclusive
<1>1. ExclInv => PortsExclusive
  BY DEF ExclInv, Uncrowded, HeldOK, PortsExclusive
<1> QED BY <1>1, ExclInvariant, PTL

(* Under the same conditions ReleasePorts never frees a port that is still *)
(* leased.  Ports are numbered from 1: a 0 in a list only fills up a block. *)
THEOREM ContextLeasedStaysMarked ==
  ASSUME MaxReleases <= 1, 0 \notin Port
  PROVE  Spec => []LeasedStaysMarked
<1>1. Init => LeasedStaysMarked
  BY DEF Init, LeaseInit, LeasedStaysMarked, Leased
<1>2. ExclInv /\ LeaseInv /\ LeasedStaysMarked /\ [Next]_vars
        => LeasedStaysMarked'
  <2> SUFFICES ASSUME ExclInv, LeaseInv, LeasedStaysMarked, [Next]_vars, ~crowded',
                      NEW p \in Port, Leased(p)'
               PROVE  p \in bSet'
    BY DEF LeasedStaysMarked
  <2>0. Uncrowded /\ NatTypeOK /\ ~crowded
    BY CrowdedStays DEF ExclInv
  <2>1. CASE NatNext /\ UNCHANGED <<leaseVars, released>>
    <3>1. p \in bSet
      BY <2>0, <2>1 DEF leaseVars, Leased, LeasedStaysMarked
    <3>2. bSet' = bSet \/ \E h \in Helper : Store(h)
      BY <2>1
      DEF NatNext, CallStep, HelperStep, Assign, Receive, Enter, Post, Scan, Test, Load
    <3> QED BY <2>0, <3>1, <3>2, StoreAdds
  <2>2. ASSUME NEW f \in Fun, Release(f) PROVE p \in bSet'
    <3>1. Leased(p) /\ bSet' = bSet \ Releasable(f)
      BY <2>2 DEF Release, leaseVars, Leased
    <3> QED BY <2>0, <3>1 DEF Releasable, LeasedStaysMarked
  <2>3. ASSUME NEW f \in Fun, Lease(f) PROVE p \in bSet'
    <3>1. PICK t \in Timer, q \in Port \cap PortsOf(f) : Set(t, q, AddrOf[f])
      BY <2>3 DEF Lease
    <3>2. Leased(p) \/ p = q
      BY <3>1 DEF Set, Leased
    <3>3. q \in bSet
      <4>1. released[f] = 0 /\ q \in PortsOf(f)
        BY <2>3, <3>1 DEF Lease
      <4>2. am[f] # <<>>
        BY <4>1 DEF PortsOf
      <4>3. Held(f)
        BY <4>1, <4>2 DEF Held
      <4> QED BY <2>0, <4>1, <4>3 DEF Uncrowded, HeldOK
    <3>4. bSet' = bSet
      BY <2>3 DEF Lease, natVars
    <3> QED BY <2>0, <3>2, <3>3, <3>4 DEF LeasedStaysMarked
  <2>4. CASE /\ LeaseChange \/ \E t \in Timer : TimerStep(t)
             /\ UNCHANGED <<natVars, released>>
    <3>1. Leased(p)
      BY <2>4
      DEF LeaseInv, LeaseTypeOK, LeaseChange, TimerStep, Check, Expire, Age, Delete,
          Replace, Leased
    <3> QED BY <2>0, <2>4, <3>1 DEF natVars, LeasedStaysMarked
  <2>5. CASE UNCHANGED vars
    BY <2>0, <2>5 DEF vars, natVars, leaseVars, LeasedStaysMarked, Leased
  <2> QED BY <2>1, <2>2, <2>3, <2>4, <2>5 DEF Next
<1>3. Spec => []LeaseInv
  BY ContextLeases, LeaseInitInv, LeaseStepInv, PTL DEF LeaseSpec
<1> QED BY <1>1, <1>2, <1>3, ExclInvariant, PTL DEF Spec

=============================================================================
