-------------------------- MODULE FlowCountProofs ---------------------------
(***************************************************************************)
(* The int8 counters of the flow table: they are typed, and they count the *)
(* monitors of an element, for any containers, flows, packets and calls of *)
(* Delete.                                                                 *)
(***************************************************************************)
EXTENDS FlowRoutesProofs, FiniteSetTheorems

(* The ports of an element are finite, so that Delete can count them, and  *)
(* its counter is an int8.                                                 *)
NumbersOK ==
  /\ \A e \in Elem : IsFiniteSet(ports[e])
  /\ fluxes \in [Elem -> -128..127]

LEMMA FluxesTyped ==
  ASSUME NEW n \in -128..127, NEW k \in Nat
  PROVE  IncFluxes(n, k) \in -128..127 /\ DecFluxes(n) \in -128..127
BY DEF IncFluxes, Int8, DecFluxes

LEMMA FluxesStep ==
  ASSUME FlowTyped, NumbersOK, Next
  PROVE  fluxes' \in [Elem -> -128..127]
<1>0. fluxes \in [Elem -> -128..127]
  BY DEF NumbersOK
<1>1. ASSUME NEW e \in Elem, NEW k \in Nat,
             \/ fluxes' = [fluxes EXCEPT ![e] = IncFluxes(fluxes[e], k)]
             \/ fluxes' = [fluxes EXCEPT ![e] = DecFluxes(fluxes[e])]
      PROVE  fluxes' \in [Elem -> -128..127]
  <2>1. fluxes[e] \in -128..127
    BY <1>0
  <2>2. IncFluxes(fluxes[e], k) \in -128..127 /\ DecFluxes(fluxes[e]) \in -128..127
    BY <2>1, FluxesTyped
  <2> QED BY <1>0, <1>1, <2>2
<1>2. ASSUME NEW p \in Packet, Watch(p) PROVE fluxes' \in [Elem -> -128..127]
  <2>1. /\ cpe[p] \in Elem
        /\ fluxes' = [fluxes EXCEPT ![cpe[p]] = IncFluxes(fluxes[cpe[p]], 1)]
    BY <1>2 DEF Watch, FlowTyped, Picked
  <2> QED BY <1>1, <2>1
<1>3. ASSUME NEW m \in MonitorId, MonDec(m) PROVE fluxes' \in [Elem -> -128..127]
  <2>1. /\ MonElem(m) \in Elem
        /\ fluxes' = [fluxes EXCEPT ![MonElem(m)] = DecFluxes(fluxes[MonElem(m)])]
    BY <1>3, MonitorOf DEF MonDec
  <2> QED BY <1>1, <2>1
<1>4. ASSUME NEW x \in Deletion, DelRemap(x) PROVE fluxes' \in [Elem -> -128..127]
  <2>1. /\ x[1] \in Elem /\ rce[x[1]] \in Elem
        /\ fluxes' = [fluxes EXCEPT
             ![rce[x[1]]] = IncFluxes(fluxes[rce[x[1]]], Cardinality(ports[x[1]]))]
    BY <1>4, DeletionAssumption DEF DelRemap, FlowTyped, Picked
  <2>2. Cardinality(ports[x[1]]) \in Nat
    BY <2>1, FS_CardinalityType DEF NumbersOK
  <2> QED BY <1>1, <2>1, <2>2
<1>5. ASSUME NEW p \in Packet, PacketStep(p) PROVE fluxes' \in [Elem -> -128..127]
  BY <1>0, <1>2, <1>5, PacketFrame
<1>6. ASSUME NEW m \in MonitorId, MonitorStep(m) PROVE fluxes' \in [Elem -> -128..127]
  BY <1>0, <1>3, <1>6, MonitorFrame
<1>7. ASSUME NEW x \in Deletion, DeleteStep(x) PROVE fluxes' \in [Elem -> -128..127]
  BY <1>0, <1>4, <1>7, DeleteFrame
<1> QED BY <1>0, <1>5, <1>6, <1>7 DEF Next, Register, Age

LEMMA PortsFinite ==
  ASSUME FlowTyped, NumbersOK, Next
  PROVE  \A e \in Elem : IsFiniteSet(ports'[e])
<1>0. ports \in [Elem -> SUBSET Crc] /\ \A e \in Elem : IsFiniteSet(ports[e])
  BY DEF FlowTyped, FlowTypeOK, ElemTypeOK, NumbersOK
<1>1. ASSUME NEW e \in Elem, NEW T, IsFiniteSet(T),
             ports' = [ports EXCEPT ![e] = ports[e] \cup T]
      PROVE  \A f \in Elem : IsFiniteSet(ports'[f])
  <2>1. IsFiniteSet(ports[e] \cup T)
    BY <1>0, <1>1, FS_Union
  <2> QED BY <1>0, <1>1, <2>1
<1>2. ASSUME NEW p \in Packet, PacketStep(p) PROVE \A e \in Elem : IsFiniteSet(ports'[e])
  <2>1. CASE AddCrc(p)
    <3>1. /\ cpe[p] \in Elem
          /\ ports' = [ports EXCEPT ![cpe[p]] = ports[cpe[p]] \cup {crc[p]}]
      BY <2>1 DEF AddCrc, FlowTyped, Picked
    <3>2. IsFiniteSet({crc[p]})
      BY FS_Singleton
    <3> QED BY <1>1, <3>1, <3>2
  <2>2. CASE ~AddCrc(p)
    BY <1>0, <1>2, <2>2, PacketFrame
  <2> QED BY <2>1, <2>2
<1>3. ASSUME NEW x \in Deletion, DeleteStep(x)
      PROVE  \A e \in Elem : IsFiniteSet(ports'[e])
  <2>1. CASE DelMove(x)
    <3>1. /\ x[1] \in Elem /\ rce[x[1]] \in Elem
          /\ ports' = [ports EXCEPT ![rce[x[1]]] = ports[rce[x[1]]] \cup ports[x[1]]]
      BY <2>1, DeletionAssumption DEF DelMove, MovePorts, FlowTyped, Picked
    <3> QED BY <1>0, <1>1, <3>1
  <2>2. CASE ~DelMove(x)
    BY <1>0, <1>3, <2>2, DeleteFrame
  <2> QED BY <2>1, <2>2
<1>4. ASSUME NEW m \in MonitorId, MonitorStep(m) PROVE ports' = ports
  BY <1>4, MonitorFrame
<1> QED BY <1>0, <1>2, <1>3, <1>4 DEF Next, Register, Age

LEMMA NumbersInvariant == Spec => []NumbersOK
<1>1. Init => NumbersOK
  BY FS_EmptySet DEF Init, NumbersOK
<1>2. ASSUME FlowBase, NumbersOK, [Next]_vars PROVE NumbersOK'
  <2>1. CASE UNCHANGED vars
    BY <1>2, <2>1 DEF vars, flowVars, elemVars, NumbersOK
  <2>2. CASE Next
    BY <1>2, <2>2, FluxesStep, PortsFinite DEF FlowBase, NumbersOK
  <2> QED BY <1>2, <2>1, <2>2
<1> QED BY <1>1, <1>2, FlowBaseInvariant, PTL DEF Spec

(* Type correctness of the flow table, for any number of containers, flows,*)
(* packets and calls of Delete: every pointer an operation follows or      *)
(* stores is an element or nil, and Fluxes stays an int8.                  *)
THEOREM FlowTypeCorrect == Spec => []TypeOK
<1>1. FlowBase /\ NumbersOK => TypeOK
  BY DEF FlowBase, FlowTyped, FlowTypeOK, ElemTypeOK, MapTypeOK, PktTypeOK, CallTypeOK,
      ListTypeOK, NumbersOK, TypeOK, PacketAt
<1> QED BY <1>1, FlowBaseInvariant, NumbersInvariant, PTL

-----------------------------------------------------------------------------
(* No container has more bindings watched at a time than an int8 counts.   *)
FewWatched == \A e \in Elem : Cardinality(Counted(e)) <= 127

CountInv ==
  \A e \in Elem : /\ IsFiniteSet(Counted(e))
                  /\ ~Stopped(e) => fluxes[e] = Cardinality(Counted(e))

LEMMA Int8Small ==
  ASSUME NEW n \in 0..127
  PROVE  Int8(n) = n
BY DEF Int8

(* The steps that leave every counter alone: a monitor that stops watches  *)
(* a container that is gone, one that ends has been taken off before.      *)
LEMMA CountKept ==
  ASSUME FlowBase, WatchInv, CountInv, Next, UNCHANGED fluxes,
         \A n \in MonitorId :
           /\ monitor'[n] \in {"wait", "dec"} => monitor[n] \in {"wait", "dec"}
           /\ monitor[n] \in {"wait", "dec"} /\ ~Stopped(MonElem(n))
                => monitor'[n] \in {"wait", "dec"}
  PROVE  CountInv'
<1> SUFFICES ASSUME NEW e \in Elem
             PROVE  /\ IsFiniteSet(Counted(e)')
                    /\ ~Stopped(e)' => fluxes'[e] = Cardinality(Counted(e)')
  BY DEF CountInv
<1>1. Counted(e)' \subseteq Counted(e)
  <2> SUFFICES ASSUME NEW n \in MonitorId, monitor'[n] \in {"wait", "dec"},
                      MonElem(n)' = e
               PROVE  n \in Counted(e)
    BY DEF Counted
  <2>1. monitor[n] \in {"wait", "dec"}
    OBVIOUS
  <2> QED BY <2>1, MonitorFixed DEF Counted
<1>2. IsFiniteSet(Counted(e)')
  BY <1>1, FS_Subset DEF CountInv
<1>3. ASSUME ~Stopped(e)' PROVE fluxes'[e] = Cardinality(Counted(e)')
  <2>1. ~Stopped(e)
    BY <1>3, StoppedStays DEF FlowBase
  <2>2. Counted(e) \subseteq Counted(e)'
    BY <2>1, MonitorFixed DEF Counted
  <2>3. Counted(e)' = Counted(e)
    BY <1>1, <2>2
  <2> QED BY <2>1, <2>3 DEF CountInv
<1> QED BY <1>2, <1>3

(* Get spawns a monitor and counts it.                                     *)
LEMMA CountWatch ==
  ASSUME FlowBase, NumbersOK, WatchInv, CountInv, FewWatched', Next, NEW p \in Packet,
         Watch(p)
  PROVE  CountInv'
<1> SUFFICES ASSUME NEW e \in Elem
             PROVE  /\ IsFiniteSet(Counted(e)')
                    /\ ~Stopped(e)' => fluxes'[e] = Cardinality(Counted(e)')
  BY DEF CountInv
<1>0. /\ cpe[p] \in Elem /\ p \in MonitorId /\ monitor[p] = "none"
      /\ fluxes' = [fluxes EXCEPT ![cpe[p]] = IncFluxes(fluxes[cpe[p]], 1)]
      /\ monitor' = [monitor EXCEPT ![p] = "wait"] /\ cpe' = cpe /\ rce' = rce
      /\ crc' = crc
      /\ fluxes \in [Elem -> -128..127]
      /\ monitor \in [MonitorId -> {"none", "wait", "dec", "drop"}]
  BY
  DEF Watch, WatchInv, FlowBase, FlowTyped, FlowTypeOK, Picked, CallTypeOK, MonitorId,
      NumbersOK
<1>1. \A n \in MonitorId : MonElem(n)' = MonElem(n)
  BY <1>0 DEF MonElem
<1>2. MonElem(p) = cpe[p] /\ p \notin Counted(e)
  BY <1>0 DEF MonElem, Counted
<1>3. Stopped(e)' <=> Stopped(e)
  BY DEF Watch, poolVars, Stopped, Closed
<1>4. IsFiniteSet(Counted(e)) /\ Cardinality(Counted(e)) \in Nat
  BY FS_CardinalityType DEF CountInv
<1>5. CASE cpe[p] = e
  <2>1. Counted(e)' = Counted(e) \cup {p}
    BY <1>0, <1>1, <1>2, <1>5 DEF Counted
  <2>2. /\ IsFiniteSet(Counted(e) \cup {p})
        /\ Cardinality(Counted(e) \cup {p}) = Cardinality(Counted(e)) + 1
    BY <1>2, <1>4, FS_AddElement
  <2>3. Cardinality(Counted(e)') <= 127
    BY DEF FewWatched
  <2>4. Int8(Cardinality(Counted(e)) + 1) = Cardinality(Counted(e)) + 1
    BY <1>4, <2>1, <2>2, <2>3, Int8Small
  <2>5. fluxes'[e] = Int8(fluxes[e] + 1)
    BY <1>0, <1>5 DEF IncFluxes
  <2> QED BY <1>3, <2>1, <2>2, <2>4, <2>5 DEF CountInv
<1>6. CASE cpe[p] # e
  <2>1. Counted(e)' = Counted(e)
    BY <1>0, <1>1, <1>2, <1>6 DEF Counted
  <2>2. fluxes'[e] = fluxes[e]
    BY <1>0, <1>6
  <2> QED BY <1>3, <1>4, <2>1, <2>2 DEF CountInv
<1> QED BY <1>5, <1>6

(* A monitor takes its binding off the counter.                            *)
LEMMA CountDec ==
  ASSUME FlowBase, NumbersOK, WatchInv, CountInv, Next, NEW m \in MonitorId, MonDec(m)
  PROVE  CountInv'
<1> SUFFICES ASSUME NEW e \in Elem
             PROVE  /\ IsFiniteSet(Counted(e)')
                    /\ ~Stopped(e)' => fluxes'[e] = Cardinality(Counted(e)')
  BY DEF CountInv
<1>0. /\ monitor[m] = "dec"
      /\ fluxes' = [fluxes EXCEPT ![MonElem(m)] = DecFluxes(fluxes[MonElem(m)])]
      /\ monitor' = [monitor EXCEPT ![m] = "drop"] /\ cpe' = cpe /\ rce' = rce
      /\ fluxes \in [Elem -> -128..127]
      /\ monitor \in [MonitorId -> {"none", "wait", "dec", "drop"}]
  BY DEF MonDec, pktVars, FlowBase, FlowTyped, FlowTypeOK, CallTypeOK, NumbersOK
<1>1. \A n \in MonitorId : MonElem(n)' = MonElem(n)
  BY <1>0 DEF MonElem
<1>3. Stopped(e)' <=> Stopped(e)
  BY DEF MonDec, poolVars, Stopped, Closed
<1>4. IsFiniteSet(Counted(e)) /\ Cardinality(Counted(e)) \in Nat
  BY FS_CardinalityType DEF CountInv
<1>5. CASE MonElem(m) = e
  <2>1. Counted(e)' = Counted(e) \ {m} /\ m \in Counted(e)
    BY <1>0, <1>1, <1>5 DEF Counted
  <2>2. /\ IsFiniteSet(Counted(e) \ {m})
        /\ Cardinality(Counted(e) \ {m}) = Cardinality(Counted(e)) - 1
    BY <1>4, <2>1, FS_RemoveElement
  <2>3. Cardinality(Counted(e)) # 0
    BY <1>4, <2>1, FS_EmptySet
  <2>4. DecFluxes(Cardinality(Counted(e))) = Cardinality(Counted(e)) - 1
    BY <1>4, <2>3 DEF DecFluxes
  <2>5. fluxes'[e] = DecFluxes(fluxes[e])
    BY <1>0, <1>5
  <2> QED BY <1>3, <2>1, <2>2, <2>4, <2>5 DEF CountInv
<1>6. CASE MonElem(m) # e
  <2>1. Counted(e)' = Counted(e)
    BY <1>0, <1>1, <1>6 DEF Counted
  <2>2. fluxes'[e] = fluxes[e]
    BY <1>0, <1>6
  <2> QED BY <1>3, <1>4, <2>1, <2>2 DEF CountInv
<1> QED BY <1>5, <1>6

(* Delete spawns one monitor per flow of the element, and counts them.     *)
LEMMA CountRemap ==
  ASSUME FlowBase, NumbersOK, WatchInv, CountInv, FewWatched', Next, NEW x \in Deletion,
         DelRemap(x)
  PROVE  CountInv'
<1> SUFFICES ASSUME NEW e \in Elem
             PROVE  /\ IsFiniteSet(Counted(e)')
                    /\ ~Stopped(e)' => fluxes'[e] = Cardinality(Counted(e)')
  BY DEF CountInv
<1> DEFINE d == x[1]
           new == {d} \X ports[d]
<1>0. /\ d \in Elem /\ rce[d] \in Elem /\ ports[d] \subseteq Crc /\ IsFiniteSet(ports[d])
      /\ fluxes' = [fluxes EXCEPT
                     ![rce[d]] = IncFluxes(fluxes[rce[d]], Cardinality(ports[d]))]
      /\ monitor' = [m \in MonitorId |-> IF m \in new THEN "wait" ELSE monitor[m]]
      /\ cpe' = cpe /\ rce' = rce /\ del[x] = "remap"
      /\ del' = [del EXCEPT ![x] = "move"]
      /\ fluxes \in [Elem -> -128..127] /\ del \in [Deletion -> DelStates]
  BY DeletionAssumption
  DEF DelRemap, Spawn, Advance, pktVars, FlowBase, FlowTyped, FlowTypeOK, Picked,
      ElemTypeOK, CallTypeOK, NumbersOK
<1>1. \A n \in MonitorId : MonElem(n)' = MonElem(n)
  BY <1>0 DEF MonElem
<1>2. ASSUME NEW n \in new
      PROVE  n \in MonitorId /\ MonElem(n) = rce[d] /\ monitor[n] = "none"
  <2>1. PICK c \in ports[d] : n = <<d, c>>
    OBVIOUS
  <2>2. n \in Elem \X Crc
    BY <1>0, <2>1
  <2>3. n \in MonitorId /\ n \notin Packet
    BY <2>2, FlowAssumption DEF MonitorId
  <2>4. monitor[n] = "none"
    BY <1>0, <2>1, RemapFresh
  <2> QED BY <2>1, <2>3, <2>4 DEF MonElem
<1>3. Stopped(e)' <=> Stopped(e)
  BY <1>0 DEF Stopped, Closed
<1>4. IsFiniteSet(Counted(e)) /\ Cardinality(Counted(e)) \in Nat
  BY FS_CardinalityType DEF CountInv
<1>5. IsFiniteSet(new) /\ Cardinality(new) = Cardinality(ports[d])
  <2>1. IsFiniteSet({d}) /\ Cardinality({d}) = 1
    BY FS_Singleton
  <2>2. IsFiniteSet(new) /\ Cardinality(new) = 1 * Cardinality(ports[d])
    BY <1>0, <2>1, FS_Product
  <2>3. Cardinality(ports[d]) \in Nat
    BY <1>0, FS_CardinalityType
  <2> QED BY <2>2, <2>3
<1> HIDE DEF new
<1>6. CASE rce[d] = e
  <2>1. Counted(e)' = Counted(e) \cup new /\ Counted(e) \cap new = {}
    BY <1>0, <1>1, <1>2, <1>6 DEF Counted
  <2>2. /\ IsFiniteSet(Counted(e) \cup new)
        /\ Cardinality(Counted(e) \cup new)
             = Cardinality(Counted(e)) + Cardinality(new) - Cardinality(Counted(e) \cap new)
    BY <1>4, <1>5, FS_Union
  <2>3. Cardinality(Counted(e) \cap new) = 0 /\ Cardinality(ports[d]) \in Nat
    BY <1>0, <2>1, FS_EmptySet, FS_CardinalityType
  <2>4. Cardinality(Counted(e)') = Cardinality(Counted(e)) + Cardinality(ports[d])
    <3> DEFINE old == Cardinality(Counted(e))
               add == Cardinality(ports[d])
               sum == Cardinality(Counted(e) \cup new)
    <3>1. sum = old + add - 0 /\ old \in Nat /\ add \in Nat
      BY <1>4, <1>5, <2>2, <2>3
    <3>2. Cardinality(Counted(e)') = sum
      BY <2>1
    <3>3. sum = old + add
      <4> HIDE DEF old, add, sum
      <4> QED BY <3>1
    <3> QED BY <3>2, <3>3
  <2>5. Cardinality(Counted(e)') <= 127
    BY DEF FewWatched
  <2>6. Int8(Cardinality(Counted(e)) + Cardinality(ports[d]))
          = Cardinality(Counted(e)) + Cardinality(ports[d])
    BY <1>4, <2>3, <2>4, <2>5, Int8Small
  <2>7. fluxes'[e] = Int8(fluxes[e] + Cardinality(ports[d]))
    BY <1>0, <1>6 DEF IncFluxes
  <2> QED BY <1>3, <2>1, <2>2, <2>4, <2>6, <2>7 DEF CountInv
<1>7. CASE rce[d] # e
  <2>1. Counted(e)' = Counted(e)
    BY <1>0, <1>1, <1>2, <1>7 DEF Counted
  <2>2. fluxes'[e] = fluxes[e]
    BY <1>0, <1>7
  <2> QED BY <1>3, <1>4, <2>1, <2>2 DEF CountInv
<1> QED BY <1>6, <1>7

LEMMA CountStep ==
  ASSUME FlowBase, NumbersOK, WatchInv, CountInv, FewWatched', Next
  PROVE  CountInv'
<1>0. monitor \in [MonitorId -> {"none", "wait", "dec", "drop"}]
  BY DEF FlowBase, FlowTyped, FlowTypeOK, CallTypeOK
<1>1. ASSUME NEW p \in Packet, Watch(p) PROVE CountInv'
  BY <1>1, CountWatch
<1>2. ASSUME NEW m \in MonitorId, MonDec(m) PROVE CountInv'
  BY <1>2, CountDec
<1>3. ASSUME NEW x \in Deletion, DelRemap(x) PROVE CountInv'
  BY <1>3, CountRemap
<1>4. ASSUME NEW m \in MonitorId, MonStop(m) \/ MonExpire(m) \/ MonDrop(m)
      PROVE  CountInv'
  <2>1. UNCHANGED fluxes
    BY <1>4 DEF MonStop, MonExpire, MonDrop
  <2>2. ASSUME NEW n \in MonitorId
        PROVE  /\ monitor'[n] \in {"wait", "dec"} => monitor[n] \in {"wait", "dec"}
               /\ monitor[n] \in {"wait", "dec"} /\ ~Stopped(MonElem(n))
                    => monitor'[n] \in {"wait", "dec"}
    BY <1>0, <1>4 DEF MonStop, MonExpire, MonDrop
  <2> QED BY <2>1, <2>2, CountKept
<1>5. ASSUME NEW p \in Packet, PacketStep(p), ~Watch(p)
      PROVE  UNCHANGED <<fluxes, monitor>>
  BY <1>5, PacketFrame
<1>6. ASSUME NEW x \in Deletion, DeleteStep(x), ~DelRemap(x)
      PROVE  UNCHANGED <<fluxes, monitor>>
  BY <1>6, DeleteFrame
<1>7. ASSUME NEW m \in MonitorId, MonDecNil(m) \/ MonNoMaps(m)
      PROVE  UNCHANGED <<fluxes, monitor>>
  BY <1>7 DEF MonDecNil, MonNoMaps, FlowCrash, flowVars
<1>8. CASE UNCHANGED <<fluxes, monitor>>
  BY <1>8, CountKept
<1> QED BY <1>1, <1>2, <1>3, <1>4, <1>5, <1>6, <1>7, <1>8
        DEF Next, Register, Age, MonitorStep

(* Fluxes of a container in service is the number of its bindings that are *)
(* watched, exactly, over all the races of Get, expiry and Delete, as long *)
(* as no container has more of them at a time than its int8 can count.     *)
THEOREM FlowFluxesExact == Spec /\ []FewWatched => []FluxesExact
<1>1. Init => CountInv
  <2> SUFFICES ASSUME Init, NEW e \in Elem
               PROVE  IsFiniteSet(Counted(e)) /\ fluxes[e] = Cardinality(Counted(e))
    BY DEF CountInv
  <2>1. Counted(e) = {}
    BY DEF Init, Counted
  <2> QED BY <2>1, FS_EmptySet DEF Init
<1>2. ASSUME FlowBase, NumbersOK, WatchInv, CountInv, FewWatched', [Next]_vars
      PROVE  CountInv'
  <2>1. CASE UNCHANGED vars
    <3>1. UNCHANGED <<fluxes, monitor, cpe, rce, del>>
      BY <2>1 DEF vars, poolVars, flowVars, pktVars
    <3>2. \A e \in Elem : Counted(e)' = Counted(e) /\ (Stopped(e)' <=> Stopped(e))
      BY <3>1 DEF Counted, MonElem, Stopped, Closed
    <3> QED BY <1>2, <3>1, <3>2 DEF CountInv
  <2> QED BY <1>2, <2>1, CountStep
<1>3. FlowBase /\ CountInv => FluxesExact
  BY DEF FlowBase, FlowTyped, FlowTypeOK, ListTypeOK, CountInv, FluxesExact
<1> QED BY <1>1, <1>2, <1>3, FlowBaseInvariant, NumbersInvariant, WatchInvariant, PTL
        DEF Spec
=============================================================================
