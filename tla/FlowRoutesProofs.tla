------------------------- MODULE FlowRoutesProofs ---------------------------
(***************************************************************************)
(* The bindings of flows to containers are tracked and watched; which      *)
(* panics the flow table never meets and where the others come from: for   *)
(* any containers, flows, packets and calls of Delete.                     *)
(***************************************************************************)
EXTENDS FlowTableProofs

-----------------------------------------------------------------------------
(* The flows of an element are never taken from it.                        *)
LEMMA PortsGrow ==
  ASSUME FlowTyped, Next
  PROVE  \A e \in Elem : ports[e] \subseteq ports'[e]
<1>0. ports \in [Elem -> SUBSET Crc]
  BY DEF FlowTyped, FlowTypeOK, ElemTypeOK
<1>1. ASSUME NEW p \in Packet, PacketStep(p)
      PROVE  \A e \in Elem : ports[e] \subseteq ports'[e]
  <2>1. CASE AddCrc(p)
    BY <1>0, <2>1 DEF AddCrc
  <2>2. CASE ~AddCrc(p)
    BY <1>1, <2>2, PacketFrame
  <2> QED BY <2>1, <2>2
<1>2. ASSUME NEW x \in Deletion, DeleteStep(x)
      PROVE  \A e \in Elem : ports[e] \subseteq ports'[e]
  <2>1. CASE DelMove(x)
    BY <1>0, <2>1 DEF DelMove, MovePorts
  <2>2. CASE ~DelMove(x)
    BY <1>2, <2>2, DeleteFrame
  <2> QED BY <2>1, <2>2
<1>3. ASSUME NEW m \in MonitorId, MonitorStep(m) PROVE ports' = ports
  BY <1>3, MonitorFrame
<1> QED BY <1>1, <1>2, <1>3 DEF Next, Register, Age

(* An element has its own connection or none, Get has recorded its flow in *)
(* the ports of the element it binds the flow to.                          *)
TrackInv ==
  /\ \A e \in Elem : conn[e] \in {e, Nil}
  /\ \A p \in Packet : pc[p] \in {"install", "watch"} => crc[p] \in ports[cpe[p]]
  /\ RoutesTracked

LEMMA TrackConn ==
  ASSUME FlowTyped, TrackInv, Next
  PROVE  \A e \in Elem : conn'[e] \in {e, Nil}
<1>0. conn \in [Elem -> Pointer]
  BY DEF FlowTyped, FlowTypeOK, ElemTypeOK
<1>1. ASSUME NEW e \in Elem, Register(e) PROVE \A f \in Elem : conn'[f] \in {f, Nil}
  BY <1>0, <1>1 DEF Register, TrackInv
<1>2. ASSUME NEW x \in Deletion, DelSkip(x) PROVE \A f \in Elem : conn'[f] \in {f, Nil}
  BY <1>0, <1>2 DEF DelSkip, TrackInv
<1>3. ASSUME NEW x \in Deletion, DeleteStep(x), ~DelSkip(x) PROVE conn' = conn
  BY <1>3, DeleteFrame
<1>4. ASSUME NEW p \in Packet, PacketStep(p) PROVE conn' = conn
  BY <1>4, PacketFrame
<1>5. ASSUME NEW m \in MonitorId, MonitorStep(m) PROVE conn' = conn
  BY <1>5, MonitorFrame
<1> QED BY <1>1, <1>2, <1>3, <1>4, <1>5 DEF Next, Age, elemVars, TrackInv

LEMMA TrackPackets ==
  ASSUME FlowTyped, TrackInv, Next
  PROVE  (\A p \in Packet : pc[p] \in {"install", "watch"} => crc[p] \in ports[cpe[p]])'
<1>0. /\ pc \in [Packet -> PacketAt] /\ cpe \in [Packet -> Pointer]
      /\ ports \in [Elem -> SUBSET Crc]
  BY DEF FlowTyped, FlowTypeOK, PktTypeOK, ElemTypeOK
<1>1. crc' = crc /\ \A e \in Elem : ports[e] \subseteq ports'[e]
  BY PacketsKept, PortsGrow
<1>2. ASSUME NEW q \in Packet, pc[q] \in {"install", "watch"}, cpe'[q] = cpe[q]
      PROVE  crc'[q] \in ports'[cpe'[q]]
  BY <1>1, <1>2 DEF TrackInv, FlowTyped, Picked
<1>3. CASE UNCHANGED <<pc, seen, cpe>>
  BY <1>2, <1>3
<1>4. ASSUME NEW p \in Packet, PacketStep(p), NEW q \in Packet,
             pc'[q] \in {"install", "watch"}
      PROVE  crc'[q] \in ports'[cpe'[q]]
  <2>1. CASE AddCrc(p) /\ q = p
    <3>1. cpe[p] \in Elem /\ cpe' = cpe
      BY <2>1 DEF AddCrc, FlowTyped, Picked
    <3> QED BY <1>0, <1>1, <2>1, <3>1 DEF AddCrc
  <2>2. CASE ~(AddCrc(p) /\ q = p)
    <3>1. pc[q] \in {"install", "watch"}
      BY <1>0, <1>4, <2>2
      DEF PacketStep, NoRule, Lookup, Touch, Hit, HitNil, Miss, TakeNext, TakeNil, AddCrc,
          Install, Watch, WatchNil, Send, Goto, FlowCrash, flowVars, pktVars
    <3>2. cpe'[q] = cpe[q]
      BY <1>0, <1>4, <3>1
      DEF PacketStep, NoRule, Lookup, Touch, Hit, HitNil, Miss, TakeNext, TakeNil, AddCrc,
          Install, Watch, WatchNil, Send, Goto, FlowCrash, flowVars, pktVars
    <3> QED BY <1>2, <3>1, <3>2
  <2> QED BY <2>1, <2>2
<1> QED BY <1>3, <1>4, PacketsKept

(* What accounts for a flow bound to an element.                           *)
Accounted(c, e) ==
  \/ c \in ports[e]
  \/ \E y \in Deletion : del[y] = "move" /\ rce[y[1]] = e /\ c \in ports[y[1]]

LEMMA AccountedStays ==
  ASSUME FlowTyped, FlowRing, Next, NEW c \in Crc, NEW e \in Elem, Accounted(c, e)
  PROVE  Accounted(c, e)'
<1>0. /\ \A f \in Elem : ports[f] \subseteq ports'[f]
      /\ \A y \in Deletion : y[1] \in Elem
      /\ del \in [Deletion -> DelStates] /\ rce \in [Elem -> Pointer]
      /\ ports \in [Elem -> SUBSET Crc]
  BY PortsGrow, DeletionAssumption DEF FlowTyped, FlowTypeOK, CallTypeOK, ElemTypeOK
<1>1. CASE c \in ports[e]
  BY <1>0, <1>1 DEF Accounted
<1>2. ASSUME NEW y \in Deletion, del[y] = "move", rce[y[1]] = e, c \in ports[y[1]]
      PROVE  Accounted(c, e)'
  <2>0. c \in ports'[y[1]]
    BY <1>0, <1>2
  <2>1. CASE DelMove(y)
    <3>1. ports' = [ports EXCEPT ![e] = ports[e] \cup ports[y[1]]]
      BY <1>2, <2>1 DEF DelMove, MovePorts
    <3> QED BY <1>0, <1>2, <3>1 DEF Accounted
  <2>2. CASE UNCHANGED <<del, rce>>
    BY <2>0, <2>2, <1>2 DEF Accounted
  <2>3. ASSUME NEW x \in Deletion, DeleteStep(x), ~DelMove(y)
        PROVE  Accounted(c, e)'
    <3>1. CASE DelReplace(x)
      <4>1. x # y /\ Closed(x) /\ Closed(y)
        BY <1>2, <3>1 DEF DelReplace, Closed
      <4>2. x[1] # y[1]
        BY <4>1 DEF FlowRing, OneCloser
      <4>3. /\ del' = [del EXCEPT ![x] = "remap"]
            /\ \E r : rce' = [rce EXCEPT ![x[1]] = r]
        BY <3>1 DEF DelReplace, Advance
      <4>4. del'[y] = "move" /\ rce'[y[1]] = e
        BY <1>0, <1>2, <4>1, <4>2, <4>3
      <4> QED BY <2>0, <4>4 DEF Accounted
    <3>2. CASE ~DelReplace(x)
      <4>1. rce' = rce
        BY <2>3, <3>2, DeleteFrame
      <4>2. del'[y] = "move"
        BY <1>0, <1>2, <2>3, <3>2
        DEF DeleteStep, DelUnlink, DelSkip, DelCheck, DelBye, DelReplaceNil, DelRemap,
            DelRemapNil, DelRemapRace, DelMove, DelTerm, DelSignalNil, FlowCrash, Advance,
            Unlink, AlreadyDeleted, CloseStop, CloseAgain, MayDelete
      <4> QED BY <1>2, <2>0, <4>1, <4>2 DEF Accounted
    <3> QED BY <3>1, <3>2
  <2>4. ASSUME NEW p \in Packet, PacketStep(p) PROVE UNCHANGED <<del, rce>>
    BY <2>4, PacketFrame
  <2>5. ASSUME NEW m \in MonitorId, MonitorStep(m) PROVE UNCHANGED <<del, rce>>
    BY <2>5, MonitorFrame
  <2> QED BY <2>1, <2>2, <2>3, <2>4, <2>5 DEF Next, Register, Add, Age, poolVars
<1> QED BY <1>1, <1>2 DEF Accounted

LEMMA TrackRoutes ==
  ASSUME FlowTyped, FlowRing, TrackInv, Next, NEW c \in Crc, NEW e \in Elem,
         crc2conn'[c] = e
  PROVE  Accounted(c, e)'
<1>0. /\ crc2conn \in [Crc -> Pointer \cup {Absent}] /\ Absent \notin Elem
      /\ Nil \notin Elem
  BY FlowAssumption, NilAssumption DEF FlowTyped, FlowTypeOK, MapTypeOK
<1>1. CASE crc2conn[c] = e
  <2>1. Accounted(c, e)
    BY <1>1 DEF TrackInv, RoutesTracked, Accounted
  <2> QED BY <2>1, AccountedStays
<1>2. ASSUME NEW p \in Packet, Install(p) PROVE Accounted(c, e)'
  <2>1. CASE c = crc[p]
    <3>1. cpe[p] \in Elem /\ conn[cpe[p]] \in {cpe[p], Nil} /\ crc[p] \in ports[cpe[p]]
      BY <1>2 DEF Install, FlowTyped, Picked, TrackInv
    <3>2. crc2conn'[c] = conn[cpe[p]]
      BY <1>0, <1>2, <2>1 DEF Install
    <3>3. c \in ports[e]
      BY <1>0, <2>1, <3>1, <3>2
    <3> QED BY <3>3, PortsGrow DEF Accounted
  <2>2. CASE c # crc[p]
    BY <1>0, <1>1, <1>2, <2>2 DEF Install
  <2> QED BY <2>1, <2>2
<1>3. ASSUME NEW x \in Deletion, DelRemap(x) PROVE Accounted(c, e)'
  <2>1. CASE c \in ports[x[1]]
    <3>1. /\ rce[x[1]] \in Elem /\ conn[rce[x[1]]] \in {rce[x[1]], Nil}
      BY <1>3 DEF DelRemap, FlowTyped, Picked, TrackInv
    <3>2. crc2conn'[c] = conn[rce[x[1]]] /\ UNCHANGED <<ports, rce>> /\ del'[x] = "move"
      BY <1>3, <2>1 DEF DelRemap, Advance, FlowTyped, FlowTypeOK, CallTypeOK
    <3>3. rce'[x[1]] = e /\ c \in ports'[x[1]]
      BY <1>0, <2>1, <3>1, <3>2
    <3> QED BY <3>2, <3>3 DEF Accounted
  <2>2. CASE c \notin ports[x[1]]
    BY <1>1, <1>3, <2>2 DEF DelRemap
  <2> QED BY <2>1, <2>2
<1>4. ASSUME NEW m \in MonitorId, MonitorStep(m) PROVE crc2conn[c] = e
  BY <1>0, <1>4, MonitorFrame DEF MonDrop
<1>5. ASSUME NEW p \in Packet, PacketStep(p), ~Install(p) PROVE crc2conn[c] = e
  BY <1>5, PacketFrame
<1>6. ASSUME NEW x \in Deletion, DeleteStep(x), ~DelRemap(x) PROVE crc2conn[c] = e
  BY <1>6, DeleteFrame
<1> QED BY <1>1, <1>2, <1>3, <1>4, <1>5, <1>6 DEF Next, Register, Age, mapVars

LEMMA TrackInvariant == Spec => []TrackInv
<1>1. Init => TrackInv
  BY FlowAssumption DEF Init, TrackInv, RoutesTracked
<1>2. ASSUME FlowBase, TrackInv, [Next]_vars PROVE TrackInv'
  <2>1. CASE Next
    <3>1. RoutesTracked'
      BY <1>2, <2>1, TrackRoutes DEF FlowBase, RoutesTracked, Accounted
    <3> QED BY <1>2, <2>1, <3>1, TrackConn, TrackPackets DEF FlowBase, TrackInv
  <2>2. CASE UNCHANGED vars
    BY <1>2, <2>2
    DEF vars, poolVars, flowVars, elemVars, mapVars, pktVars, TrackInv, RoutesTracked
  <2> QED BY <1>2, <2>1, <2>2
<1> QED BY <1>1, <1>2, FlowBaseInvariant, PTL DEF Spec

(* Every flow bound to a container is among the container's ports, so that *)
(* its Delete moves it, for any number of flows, containers and deletions: *)
(* a binding is neither made by Get nor moved by Delete behind the back of *)
(* the ports.                                                              *)
THEOREM FlowRoutesTracked == Spec => []RoutesTracked
BY TrackInvariant, PTL DEF TrackInv

-----------------------------------------------------------------------------
(* A packet is watched once Get has returned; a monitor of Delete exists   *)
(* once Delete has moved the flows.                                        *)
WatchInv ==
  /\ \A p \in Packet : pc[p] \notin {"send", "done"} => monitor[p] = "none"
  /\ \A e \in Elem, c \in Crc :
       monitor[<<e, c>>] # "none"
         => \E x \in Deletion : x[1] = e /\ del[x] \in {"move", "term", "done"}

(* Who changes the monitors.                                               *)
LEMMA MonitorsKept ==
  ASSUME FlowTyped, Next
  PROVE  \/ monitor' = monitor
         \/ \E p \in Packet : Watch(p)
         \/ \E m \in MonitorId : MonStop(m) \/ MonExpire(m) \/ MonDec(m) \/ MonDrop(m)
         \/ \E x \in Deletion : DelRemap(x)
<1>1. ASSUME NEW p \in Packet, PacketStep(p), ~Watch(p) PROVE monitor' = monitor
  BY <1>1, PacketFrame
<1>2. ASSUME NEW x \in Deletion, DeleteStep(x), ~DelRemap(x) PROVE monitor' = monitor
  BY <1>2, DeleteFrame
<1>3. ASSUME NEW m \in MonitorId, MonDecNil(m) \/ MonNoMaps(m) PROVE monitor' = monitor
  BY <1>3 DEF MonDecNil, MonNoMaps, FlowCrash, flowVars
<1> QED BY <1>1, <1>2, <1>3 DEF Next, Register, Age, MonitorStep

(* A call of Delete that has moved the flows does not go back.             *)
LEMMA MovedStays ==
  ASSUME FlowTyped, Next, NEW y \in Deletion, del[y] \in {"move", "term", "done"}
  PROVE  del'[y] \in {"move", "term", "done"}
<1>0. del \in [Deletion -> DelStates]
  BY DEF FlowTyped, FlowTypeOK, CallTypeOK
<1>1. ASSUME NEW x \in Deletion, DeleteStep(x) PROVE del'[y] \in {"move", "term", "done"}
  BY <1>0, <1>1
  DEF DeleteStep, DelUnlink, DelSkip, DelCheck, DelBye, DelReplace, DelReplaceNil,
      DelRemap, DelRemapNil, DelRemapRace, DelMove, DelTerm, DelSignalNil, FlowCrash,
      Advance, Unlink, AlreadyDeleted, CloseStop, CloseAgain, MayDelete
<1>2. ASSUME NEW p \in Packet, PacketStep(p) PROVE del' = del
  BY <1>2, PacketFrame
<1>3. ASSUME NEW m \in MonitorId, MonitorStep(m) PROVE del' = del
  BY <1>3, MonitorFrame
<1> QED BY <1>1, <1>2, <1>3 DEF Next, Register, Add, Age, poolVars

(* A packet whose Get has returned is not looked up again.                 *)
LEMMA SentStays ==
  ASSUME FlowTyped, Next, NEW q \in Packet, pc[q] \in {"send", "done"}
  PROVE  pc'[q] \in {"send", "done"} /\ cpe'[q] = cpe[q]
<1>0. pc \in [Packet -> PacketAt] /\ cpe \in [Packet -> Pointer]
  BY DEF FlowTyped, FlowTypeOK, PktTypeOK
<1>1. ASSUME NEW p \in Packet, PacketStep(p)
      PROVE  pc'[q] \in {"send", "done"} /\ cpe'[q] = cpe[q]
  BY <1>0, <1>1
  DEF PacketStep, NoRule, Lookup, Touch, Hit, HitNil, Miss, TakeNext, TakeNil, AddCrc,
      Install, Watch, WatchNil, Send, Goto, FlowCrash, flowVars, pktVars
<1> QED BY <1>1, PacketsKept

LEMMA WatchInvStep ==
  ASSUME FlowTyped, WatchInv, Next
  PROVE  WatchInv'
<1>0. /\ pc \in [Packet -> PacketAt] /\ del \in [Deletion -> DelStates]
      /\ monitor \in [MonitorId -> {"none", "wait", "dec", "drop"}]
      /\ \A p \in Packet : p \in MonitorId
      /\ \A e \in Elem, c \in Crc : <<e, c>> \in MonitorId
      /\ \A e \in Elem, c \in Crc, p \in Packet : <<e, c>> # p
      /\ \A x \in Deletion : x[1] \in Elem /\ ports[x[1]] \subseteq Crc
  BY FlowAssumption, DeletionAssumption
  DEF FlowTyped, FlowTypeOK, PktTypeOK, CallTypeOK, ElemTypeOK, MonitorId
<1>1. ASSUME \A n \in MonitorId : monitor'[n] # "none" => monitor[n] # "none"
      PROVE  WatchInv'
  <2>1. \A p \in Packet : monitor'[p] # "none" => pc'[p] \in {"send", "done"}
    BY <1>0, <1>1, SentStays DEF WatchInv
  <2>2. ASSUME NEW e \in Elem, NEW c \in Crc, monitor'[<<e, c>>] # "none"
        PROVE  \E x \in Deletion : x[1] = e /\ del'[x] \in {"move", "term", "done"}
    <3>1. PICK x \in Deletion : x[1] = e /\ del[x] \in {"move", "term", "done"}
      BY <1>0, <1>1, <2>2 DEF WatchInv
    <3> QED BY <3>1, MovedStays
  <2> QED BY <2>1, <2>2 DEF WatchInv
<1>2. ASSUME NEW p \in Packet, Watch(p) PROVE WatchInv'
  <2>1. /\ monitor' = [monitor EXCEPT ![p] = "wait"] /\ pc' = [pc EXCEPT ![p] = "send"]
        /\ del' = del
    BY <1>2 DEF Watch, Goto, poolVars
  <2> QED BY <1>0, <2>1 DEF WatchInv
<1>3. ASSUME NEW m \in MonitorId, MonStop(m) \/ MonExpire(m) \/ MonDec(m) \/ MonDrop(m)
      PROVE  WatchInv'
  BY <1>0, <1>1, <1>3 DEF MonStop, MonExpire, MonDec, MonDrop
<1>4. ASSUME NEW x \in Deletion, DelRemap(x) PROVE WatchInv'
  <2>1. /\ monitor' = [m \in MonitorId |-> IF m \in {x[1]} \X ports[x[1]] THEN "wait"
                                                                  ELSE monitor[m]]
        /\ del' = [del EXCEPT ![x] = "move"] /\ pc' = pc
    BY <1>4 DEF DelRemap, Spawn, Advance, pktVars
  <2>2. ASSUME NEW p \in Packet PROVE monitor'[p] = monitor[p]
    <3>1. p \notin {x[1]} \X ports[x[1]]
      BY <1>0
    <3> QED BY <1>0, <2>1, <3>1
  <2>3. ASSUME NEW e \in Elem, NEW c \in Crc, monitor'[<<e, c>>] # "none"
        PROVE  \E y \in Deletion : y[1] = e /\ del'[y] \in {"move", "term", "done"}
    <3>1. CASE e = x[1]
      <4>1. del'[x] = "move"
        BY <1>0, <2>1
      <4> QED BY <3>1, <4>1
    <3>2. CASE e # x[1]
      <4>1. monitor[<<e, c>>] # "none"
        BY <1>0, <2>1, <2>3, <3>2
      <4>2. PICK y \in Deletion : y[1] = e /\ del[y] \in {"move", "term", "done"}
        BY <4>1 DEF WatchInv
      <4> QED BY <4>2, MovedStays
    <3> QED BY <3>1, <3>2
  <2> QED BY <2>1, <2>2, <2>3 DEF WatchInv
<1>5. CASE monitor' = monitor
  BY <1>1, <1>5
<1> QED BY <1>2, <1>3, <1>4, <1>5, MonitorsKept

(* A monitor watches one flow of one container as long as it runs.         *)
LEMMA MonitorFixed ==
  ASSUME FlowBase, WatchInv, Next, NEW m \in MonitorId, monitor[m] # "none"
  PROVE  MonElem(m)' = MonElem(m) /\ MonCrc(m)' = MonCrc(m)
<1>0. crc' = crc
  BY PacketsKept DEF FlowBase
<1>1. CASE m \in Packet
  <2>1. pc[m] \in {"send", "done"}
    BY <1>1 DEF WatchInv, FlowBase, FlowTyped, FlowTypeOK, PktTypeOK
  <2> QED BY <1>0, <1>1, <2>1, SentStays DEF FlowBase, MonElem, MonCrc
<1>2. CASE m \notin Packet
  <2>1. PICK e \in Elem, c \in Crc : m = <<e, c>>
    BY <1>2 DEF MonitorId
  <2>2. PICK y \in Deletion : y[1] = e /\ del[y] \in {"move", "term", "done"}
    BY <2>1 DEF WatchInv
  <2>3. rce'[e] = rce[e]
    <3>1. ASSUME NEW x \in Deletion, DelReplace(x) PROVE rce'[e] = rce[e]
      <4>1. x # y /\ Closed(x) /\ Closed(y)
        BY <2>2, <3>1 DEF DelReplace, Closed
      <4>2. x[1] # e
        BY <2>2, <4>1 DEF FlowBase, FlowRing, OneCloser
      <4>3. \E r : rce' = [rce EXCEPT ![x[1]] = r]
        BY <3>1 DEF DelReplace
      <4> QED BY <4>2, <4>3 DEF FlowBase, FlowTyped, FlowTypeOK, ElemTypeOK
    <3>2. ASSUME NEW x \in Deletion, DeleteStep(x), ~DelReplace(x) PROVE rce' = rce
      BY <3>2, DeleteFrame
    <3>3. ASSUME NEW p \in Packet, PacketStep(p) PROVE rce' = rce
      BY <3>3, PacketFrame
    <3>4. ASSUME NEW n \in MonitorId, MonitorStep(n) PROVE rce' = rce
      BY <3>4, MonitorFrame
    <3> QED BY <3>1, <3>2, <3>3, <3>4 DEF Next, Register, Age
  <2> QED BY <1>2, <2>1, <2>3 DEF MonElem, MonCrc
<1> QED BY <1>1, <1>2

-----------------------------------------------------------------------------
(* Somebody watches over the binding of c to e.                            *)
Watched(c, e) ==
  \/ \E m \in MonitorId : monitor[m] # "none" /\ MonCrc(m) = c /\ MonElem(m) = e
  \/ \E p \in Packet : pc[p] = "watch" /\ crc[p] = c /\ cpe[p] = e

LEMMA StoppedStays ==
  ASSUME FlowTyped, Next, NEW e, Stopped(e)
  PROVE  Stopped(e)'
BY StepPoolPart, UnlinkedStays DEF Stopped

(* A monitor goes on, unless its container is gone or it has removed the   *)
(* binding.                                                                *)
LEMMA MonitorGoesOn ==
  ASSUME FlowBase, WatchInv, Next, NEW m \in MonitorId, monitor[m] # "none",
         ~Stopped(MonElem(m)), ~MonDrop(m)
  PROVE  monitor'[m] # "none"
<1>0. monitor \in [MonitorId -> {"none", "wait", "dec", "drop"}]
  BY DEF FlowBase, FlowTyped, FlowTypeOK, CallTypeOK
<1>1. ASSUME NEW p \in Packet, Watch(p) PROVE monitor'[m] # "none"
  BY <1>0, <1>1 DEF Watch
<1>2. ASSUME NEW n \in MonitorId, MonStop(n) \/ MonExpire(n) \/ MonDec(n) \/ MonDrop(n)
      PROVE  monitor'[m] # "none"
  BY <1>0, <1>2 DEF MonStop, MonExpire, MonDec, MonDrop
<1>3. ASSUME NEW x \in Deletion, DelRemap(x) PROVE monitor'[m] # "none"
  BY <1>0, <1>3 DEF DelRemap, Spawn
<1> QED BY <1>1, <1>2, <1>3, MonitorsKept DEF FlowBase

LEMMA WatchedStays ==
  ASSUME FlowBase, WatchInv, TrackInv, Next, NEW c \in Crc, NEW e \in Elem, Watched(c, e),
         crc2conn'[c] = e, ~Stopped(e)
  PROVE  Watched(c, e)'
<1>1. ASSUME NEW m \in MonitorId, monitor[m] # "none", MonCrc(m) = c, MonElem(m) = e
      PROVE  Watched(c, e)'
  <2>1. ~MonDrop(m)
    <3>1. crc2conn \in [Crc -> Pointer \cup {Absent}] /\ Absent \notin Elem
      BY FlowAssumption DEF FlowBase, FlowTyped, FlowTypeOK, MapTypeOK
    <3> QED BY <1>1, <3>1 DEF MonDrop
  <2>2. monitor'[m] # "none"
    BY <1>1, <2>1, MonitorGoesOn
  <2> QED BY <1>1, <2>2, MonitorFixed DEF Watched
<1>2. ASSUME NEW p \in Packet, pc[p] = "watch", crc[p] = c, cpe[p] = e
      PROVE  Watched(c, e)'
  <2>0. /\ pc \in [Packet -> PacketAt] /\ cpe \in [Packet -> Pointer] /\ p \in MonitorId
        /\ monitor \in [MonitorId -> {"none", "wait", "dec", "drop"}]
    BY DEF FlowBase, FlowTyped, FlowTypeOK, PktTypeOK, CallTypeOK, MonitorId
  <2>1. crc' = crc
    BY PacketsKept DEF FlowBase
  <2>2. CASE Watch(p)
    <3>1. monitor'[p] = "wait" /\ cpe' = cpe
      BY <2>0, <2>2 DEF Watch
    <3>2. MonElem(p)' = e /\ MonCrc(p)' = c
      BY <1>2, <2>1, <3>1 DEF MonElem, MonCrc
    <3> QED BY <2>0, <3>1, <3>2 DEF Watched
  <2>3. ASSUME NEW q \in Packet, PacketStep(q), ~Watch(p)
        PROVE  pc'[p] = "watch" /\ cpe'[p] = cpe[p]
    BY <1>2, <2>0, <2>3
    DEF PacketStep, NoRule, Lookup, Touch, Hit, HitNil, Miss, TakeNext, TakeNil, AddCrc,
        Install, Watch, WatchNil, Send, Goto, FlowCrash, flowVars, pktVars
  <2> QED BY <1>2, <2>1, <2>2, <2>3, PacketsKept DEF Watched, FlowBase
<1> QED BY <1>1, <1>2 DEF Watched

(* The two steps that bind a flow to an element.                           *)
LEMMA BoundBy ==
  ASSUME FlowTyped, Next, NEW c \in Crc, NEW e \in Elem, crc2conn'[c] = e
  PROVE  \/ crc2conn[c] = e
         \/ \E p \in Packet : Install(p) /\ crc[p] = c
         \/ \E x \in Deletion : DelRemap(x) /\ c \in ports[x[1]]
<1>0. /\ crc2conn \in [Crc -> Pointer \cup {Absent}] /\ Absent \notin Elem
      /\ Nil \notin Elem
  BY FlowAssumption, NilAssumption DEF FlowTyped, FlowTypeOK, MapTypeOK
<1>1. ASSUME NEW p \in Packet, Install(p) PROVE crc2conn[c] = e \/ crc[p] = c
  BY <1>0, <1>1 DEF Install
<1>2. ASSUME NEW x \in Deletion, DelRemap(x) PROVE crc2conn[c] = e \/ c \in ports[x[1]]
  BY <1>2 DEF DelRemap
<1>4. ASSUME NEW m \in MonitorId, MonitorStep(m) PROVE crc2conn[c] = e
  BY <1>0, <1>4, MonitorFrame DEF MonDrop
<1>5. ASSUME NEW p \in Packet, PacketStep(p), ~Install(p) PROVE crc2conn[c] = e
  BY <1>5, PacketFrame
<1>6. ASSUME NEW x \in Deletion, DeleteStep(x), ~DelRemap(x) PROVE crc2conn[c] = e
  BY <1>6, DeleteFrame
<1> QED BY <1>1, <1>2, <1>4, <1>5, <1>6 DEF Next, Register, Age, mapVars

LEMMA RoutesWatchedStep ==
  ASSUME FlowBase, TrackInv, WatchInv, RoutesWatched, Next, NEW c \in Crc, NEW e \in Elem,
         crc2conn'[c] = e, ~Stopped(e)'
  PROVE  Watched(c, e)'
<1>0. /\ ~Stopped(e) /\ Nil \notin Elem /\ crc' = crc
      /\ crc2conn \in [Crc -> Pointer \cup {Absent}]
  BY StoppedStays, NilAssumption, PacketsKept
  DEF FlowBase, FlowTyped, FlowTypeOK, MapTypeOK
<1>1. CASE crc2conn[c] = e
  <2>1. Watched(c, e)
    BY <1>0, <1>1 DEF RoutesWatched, Watched
  <2> QED BY <1>0, <2>1, WatchedStays
<1>2. ASSUME NEW p \in Packet, Install(p), crc[p] = c PROVE Watched(c, e)'
  <2>1. cpe[p] \in Elem /\ conn[cpe[p]] \in {cpe[p], Nil}
    BY <1>2 DEF Install, FlowBase, FlowTyped, Picked, TrackInv
  <2>2. crc2conn'[c] = conn[cpe[p]] /\ cpe' = cpe /\ pc'[p] = "watch"
    BY <1>0, <1>2 DEF Install, Goto, FlowBase, FlowTyped, FlowTypeOK, PktTypeOK
  <2>3. cpe'[p] = e
    BY <1>0, <2>1, <2>2
  <2> QED BY <1>0, <1>2, <2>2, <2>3 DEF Watched
<1>3. ASSUME NEW x \in Deletion, DelRemap(x), c \in ports[x[1]] PROVE Watched(c, e)'
  <2>1. /\ rce[x[1]] \in Elem /\ conn[rce[x[1]]] \in {rce[x[1]], Nil} /\ x[1] \in Elem
    BY <1>3, DeletionAssumption DEF DelRemap, FlowBase, FlowTyped, Picked, TrackInv
  <2>2. /\ crc2conn'[c] = conn[rce[x[1]]] /\ rce' = rce
        /\ monitor' = [m \in MonitorId |-> IF m \in {x[1]} \X ports[x[1]] THEN "wait"
                                                                    ELSE monitor[m]]
    BY <1>3 DEF DelRemap, Spawn
  <2>3. <<x[1], c>> \in MonitorId /\ <<x[1], c>> \notin Packet
    BY <2>1, FlowAssumption DEF MonitorId
  <2>4. monitor'[<<x[1], c>>] = "wait"
    BY <1>3, <2>2, <2>3
  <2>5. MonElem(<<x[1], c>>)' = e /\ MonCrc(<<x[1], c>>)' = c
    BY <1>0, <2>1, <2>2, <2>3 DEF MonElem, MonCrc
  <2> QED BY <2>3, <2>4, <2>5 DEF Watched
<1> QED BY <1>1, <1>2, <1>3, BoundBy DEF FlowBase

LEMMA WatchInvariant == Spec => []WatchInv
<1>1. Init => WatchInv
  BY DEF Init, WatchInv, MonitorId
<1>2. ASSUME FlowBase, WatchInv, [Next]_vars PROVE WatchInv'
  <2>1. CASE UNCHANGED vars
    BY <1>2, <2>1 DEF vars, poolVars, flowVars, pktVars, WatchInv
  <2> QED BY <1>2, <2>1, WatchInvStep DEF FlowBase
<1> QED BY <1>1, <1>2, FlowBaseInvariant, PTL DEF Spec

(* Every flow bound to a container in service is watched by a monitor of   *)
(* that very binding, or Get is about to spawn it: over all the races of   *)
(* packets, expiry and Delete, no binding to a live container escapes its  *)
(* expiry.                                                                 *)
THEOREM FlowRoutesWatched == Spec => []RoutesWatched
<1>1. Init => RoutesWatched
  BY FlowAssumption DEF Init, RoutesWatched
<1>2. ASSUME FlowBase, TrackInv, WatchInv, RoutesWatched, [Next]_vars
      PROVE  RoutesWatched'
  <2>1. CASE Next
    BY <1>2, <2>1, RoutesWatchedStep DEF RoutesWatched, Watched
  <2>2. CASE UNCHANGED vars
    BY <1>2, <2>2
    DEF vars, poolVars, flowVars, mapVars, pktVars, RoutesWatched, Stopped, Closed, MonElem,
        MonCrc
  <2> QED BY <1>2, <2>1, <2>2
<1> QED BY <1>1, <1>2, FlowBaseInvariant, TrackInvariant, WatchInvariant, PTL DEF Spec

(* DelRemap starts monitors nobody runs yet: a monitor of a port of the    *)
(* deleted element would come from an earlier remap by a second Delete,    *)
(* and only one Delete gets past the check of Deleted.                     *)
LEMMA RemapFresh ==
  ASSUME FlowBase, WatchInv, NEW x \in Deletion, DelRemap(x)
  PROVE  \A v \in Crc : monitor[<<x[1], v>>] = "none"
<1>0. x[1] \in Elem /\ del[x] = "remap"
  BY DeletionAssumption DEF DelRemap
<1> SUFFICES ASSUME NEW v \in Crc, monitor[<<x[1], v>>] # "none" PROVE FALSE
  OBVIOUS
<1>1. PICK y \in Deletion : y[1] = x[1] /\ del[y] \in {"move", "term", "done"}
  BY <1>0 DEF WatchInv
<1>2. Closed(x) /\ Closed(y) /\ x # y
  BY <1>0, <1>1 DEF Closed
<1> QED BY <1>1, <1>2 DEF FlowBase, FlowRing, OneCloser

-----------------------------------------------------------------------------
(* A flow with an entry in crcContainer has one in crc2lock, and whoever   *)
(* has found the first has found the second.                               *)
LockInv ==
  /\ \A c \in Crc : crcContainer[c] # Absent => c \in crc2lock
  /\ \A p \in Packet : seen[p].container # Absent \/ pc[p] = "send" => seen[p].lock

LEMMA LockMaps ==
  ASSUME FlowTyped, LockInv, Next
  PROVE  (\A c \in Crc : crcContainer[c] # Absent => c \in crc2lock)'
<1>1. ASSUME NEW p \in Packet, Install(p)
      PROVE  (\A c \in Crc : crcContainer[c] # Absent => c \in crc2lock)'
  BY <1>1 DEF Install, NewLock, LockInv, FlowTyped, FlowTypeOK, MapTypeOK
<1>2. ASSUME NEW m \in MonitorId, MonDrop(m)
      PROVE  (\A c \in Crc : crcContainer[c] # Absent => c \in crc2lock)'
  BY <1>2 DEF MonDrop, LockInv, FlowTyped, FlowTypeOK, MapTypeOK
<1>3. ASSUME UNCHANGED <<crcContainer, crc2lock>>
      PROVE  (\A c \in Crc : crcContainer[c] # Absent => c \in crc2lock)'
  BY <1>3 DEF LockInv
<1>4. ASSUME NEW p \in Packet, PacketStep(p), ~Install(p)
      PROVE  UNCHANGED <<crcContainer, crc2lock>>
  BY <1>4, PacketFrame
<1>5. ASSUME NEW m \in MonitorId, MonitorStep(m), ~MonDrop(m)
      PROVE  UNCHANGED <<crcContainer, crc2lock>>
  BY <1>5, MonitorFrame
<1>6. ASSUME NEW x \in Deletion, DeleteStep(x)
      PROVE  UNCHANGED <<crcContainer, crc2lock>>
  BY <1>6, DeleteFrame
<1> QED BY <1>1, <1>2, <1>3, <1>4, <1>5, <1>6 DEF Next, Register, Age, mapVars

LEMMA LockSeen ==
  ASSUME FlowTyped, LockInv, NEW p \in Packet, PacketStep(p)
  PROVE  (\A q \in Packet : seen[q].container # Absent \/ pc[q] = "send" => seen[q].lock)'
<1>0. /\ pc \in [Packet -> PacketAt] /\ seen \in [Packet -> Seen] /\ crc[p] \in Crc
  BY DEF FlowTyped, FlowTypeOK, PktTypeOK
<1>1. CASE NoRule(p) \/ Touch(p) \/ TakeNext(p) \/ AddCrc(p) \/ Install(p)
  <2>1. /\ seen' = seen
        /\ \E l \in {"done", "test", "addcrc", "install", "watch"} :
             pc' = [pc EXCEPT ![p] = l]
    BY <1>1 DEF NoRule, Touch, TakeNext, AddCrc, Install, Goto
  <2> QED BY <1>0, <2>1 DEF LockInv
<1>2. CASE Lookup(p)
  <2>1. /\ pc' = [pc EXCEPT ![p] = "touch"]
        /\ seen' = [seen EXCEPT ![p] = [conn |-> crc2conn[crc[p]],
                       container |-> crcContainer[crc[p]], lock |-> crc[p] \in crc2lock]]
    BY <1>2 DEF Lookup, Goto
  <2> QED BY <1>0, <2>1 DEF LockInv
<1>3. CASE Hit(p)
  BY <1>0, <1>3 DEF Hit, Bound, Goto, LockInv
<1>4. CASE Miss(p) \/ Send(p)
  <2>1. /\ \E l \in {"next", "done"} : pc' = [pc EXCEPT ![p] = l]
        /\ seen' = [seen EXCEPT ![p] = NotSeen]
    BY <1>4 DEF Miss, Send, Goto
  <2> QED BY <1>0, <2>1 DEF LockInv, NotSeen
<1>5. CASE Watch(p)
  <2>1. /\ pc' = [pc EXCEPT ![p] = "send"]
        /\ seen' = [seen EXCEPT ![p].conn = conn[cpe[p]], ![p].lock = TRUE]
    BY <1>5 DEF Watch, Goto
  <2>2. seen'[p].lock /\ \A q \in Packet \ {p} : seen'[q] = seen[q] /\ pc'[q] = pc[q]
    BY <1>0, <2>1 DEF Seen
  <2> QED BY <2>2 DEF LockInv
<1>6. CASE HitNil(p) \/ TakeNil(p) \/ WatchNil(p)
  BY <1>6 DEF HitNil, TakeNil, WatchNil, FlowCrash, flowVars, pktVars, LockInv
<1> QED BY <1>1, <1>2, <1>3, <1>4, <1>5, <1>6 DEF PacketStep

(* The UDP handler never calls Acquire on a nil semaphore, whatever the    *)
(* lookups, expiries and calls of Delete that interleave: the entry of     *)
(* crc2lock is made with that of crcContainer, and only Get without a      *)
(* binding goes on without having found it.                                *)
THEOREM FlowSendersHaveLock == Spec => []SendersHaveLock
<1>1. Spec => []FlowTyped
  BY FlowTypeInit, FlowTypedStep, PTL DEF Spec
<1>2. Init => LockInv
  BY DEF Init, LockInv, NotSeen
<1>3. ASSUME FlowTyped, LockInv, [Next]_vars PROVE LockInv'
  <2>1. CASE UNCHANGED vars
    BY <1>3, <2>1 DEF vars, flowVars, mapVars, pktVars, LockInv
  <2>2. CASE Next
    <3>1. CASE \E p \in Packet : PacketStep(p)
      BY <1>3, <2>2, <3>1, LockMaps, LockSeen DEF LockInv
    <3>2. CASE UNCHANGED <<pc, seen, cpe>>
      BY <1>3, <2>2, <3>2, LockMaps DEF LockInv
    <3> QED BY <1>3, <2>2, <3>1, <3>2, PacketsKept
  <2> QED BY <1>3, <2>1, <2>2
<1>4. LockInv => SendersHaveLock
  BY DEF LockInv, SendersHaveLock
<1> QED BY <1>1, <1>2, <1>3, <1>4, PTL DEF Spec

-----------------------------------------------------------------------------
(* Where a nil container or connection comes from, unless an element was   *)
(* deleted twice: from the end of a Delete, from a failed dial, or from a  *)
(* packet that has bound its flow to a deleted element and is about to     *)
(* panic.                                                                  *)
StuckAt(q) == pc[q] = "watch" /\ container[cpe[q]] = Nil

NilsExplained ==
  /\ \A e \in Elem : c2m[e]
  /\ \A e \in Elem :
       container[e] = Nil => \E y \in Deletion : y[1] = e /\ del[y] = "done"
  /\ DialResult = {TRUE} => \A e \in elems : conn[e] # Nil
  /\ \/ \E c \in Crc : crcContainer[c] = Nil
     \/ \E p \in Packet : seen[p].container = Nil
     => \E q \in Packet : StuckAt(q)

NilInv == DeletedTwice \/ NilsExplained

LEMMA TwiceStays ==
  ASSUME FlowTyped, PoolPart, DeletedTwice
  PROVE  DeletedTwice'
BY UnlinkedStays DEF DeletedTwice

(* The early return of Delete needs a Delete before it.                    *)
LEMMA SkipTwice ==
  ASSUME FlowBase, NEW x \in Deletion, DelSkip(x)
  PROVE  DeletedTwice'
<1> DEFINE e == x[1]
<1>0. /\ e \in Elem /\ DOMAIN del = Deletion /\ ListTypeOK
  BY DeletionAssumption DEF FlowBase, FlowTyped, FlowTypeOK, CallTypeOK
<1>1. /\ del[x] = "idle" /\ e \in elems /\ next[e] # e /\ (prev[e] = Nil \/ next[e] = Nil)
      /\ del' = [del EXCEPT ![x] = "skipped"]
  BY DEF DelSkip, AlreadyDeleted, MayDelete
<1>2. CASE DoubleUnlink
  BY <1>0, <1>1, <1>2 DEF DoubleUnlink, DeletedTwice, Unlinked
<1>3. CASE ~DoubleUnlink
  <2>1. Circle
    BY <1>3 DEF FlowBase, FlowRing, RingOK
  <2>2. e \notin Linked
    <3> SUFFICES ASSUME e \in Linked PROVE FALSE
      OBVIOUS
    <3>1. Len(order) \in Nat /\ \A i \in 1..Len(order) : order[i] \in Elem
      BY <1>0, ListElems DEF ListTypeOK
    <3>2. PICK i \in 1..Len(order) : order[i] = e
      BY <1>0, <2>1 DEF Circle
    <3>3. /\ After(i, Len(order)) \in 1..Len(order)
          /\ Before(i, Len(order)) \in 1..Len(order)
      BY <3>1 DEF After, Before
    <3>4. next[e] \in Elem /\ prev[e] \in Elem
      BY <2>1, <3>1, <3>2, <3>3 DEF Circle
    <3> QED BY <1>1, <3>4, NilAssumption
  <2>3. PICK y \in Deletion : y[1] = e /\ Unlinked(y)
    BY <1>1, <2>2 DEF Linked
  <2>4. y # x /\ del'[y] # "idle" /\ del'[x] # "idle"
    BY <1>0, <1>1, <2>3 DEF Unlinked
  <2> QED BY <2>3, <2>4 DEF DeletedTwice
<1> QED BY <1>2, <1>3

(* The steps that change what an element holds.                            *)
LEMMA ElemsKept ==
  ASSUME FlowTyped, Next
  PROVE  \/ UNCHANGED <<conn, container, c2m, elems>>
         \/ \E e \in Elem : Register(e)
         \/ \E x \in Deletion : DelSkip(x) \/ DelBye(x)
<1>1. ASSUME NEW x \in Deletion, DeleteStep(x), ~DelSkip(x), ~DelBye(x)
      PROVE  UNCHANGED <<conn, container, c2m, elems>>
  BY <1>1, DeleteFrame
<1>2. ASSUME NEW p \in Packet, PacketStep(p)
      PROVE  UNCHANGED <<conn, container, c2m, elems>>
  BY <1>2, PacketFrame
<1>3. ASSUME NEW m \in MonitorId, MonitorStep(m)
      PROVE  UNCHANGED <<conn, container, c2m, elems>>
  BY <1>3, MonitorFrame
<1> QED BY <1>1, <1>2, <1>3 DEF Next, Age, elemVars, poolVars

LEMMA DoneStays ==
  ASSUME FlowTyped, Next, NEW y \in Deletion, del[y] = "done"
  PROVE  del'[y] = "done"
<1>0. del \in [Deletion -> DelStates]
  BY DEF FlowTyped, FlowTypeOK, CallTypeOK
<1>1. ASSUME NEW x \in Deletion, DeleteStep(x) PROVE del'[y] = "done"
  BY <1>0, <1>1
  DEF DeleteStep, DelUnlink, DelSkip, DelCheck, DelBye, DelReplace, DelReplaceNil,
      DelRemap, DelRemapNil, DelRemapRace, DelMove, DelTerm, DelSignalNil, FlowCrash,
      Advance, Unlink, AlreadyDeleted, CloseStop, CloseAgain, MayDelete
<1>2. ASSUME NEW p \in Packet, PacketStep(p) PROVE del' = del
  BY <1>2, PacketFrame
<1>3. ASSUME NEW m \in MonitorId, MonitorStep(m) PROVE del' = del
  BY <1>3, MonitorFrame
<1> QED BY <1>1, <1>2, <1>3 DEF Next, Register, Add, Age, poolVars

(* A nil container stays nil, so a packet that is stuck on one stays stuck.*)
LEMMA StuckStays ==
  ASSUME FlowTyped, Next, NEW q \in Packet, StuckAt(q)
  PROVE  StuckAt(q)'
<1>0. /\ pc \in [Packet -> PacketAt] /\ cpe \in [Packet -> Pointer]
      /\ container \in [Elem -> Pointer] /\ cpe[q] \in Elem
  BY DEF FlowTyped, FlowTypeOK, PktTypeOK, ElemTypeOK, Picked, StuckAt
<1>1. pc'[q] = "watch" /\ cpe'[q] = cpe[q]
  <2>1. ASSUME NEW p \in Packet, PacketStep(p) PROVE pc'[q] = "watch" /\ cpe'[q] = cpe[q]
    BY <1>0, <2>1
    DEF PacketStep, NoRule, Lookup, Touch, Hit, HitNil, Miss, TakeNext, TakeNil, AddCrc,
        Install, Watch, WatchNil, Send, Goto, FlowCrash, flowVars, pktVars, StuckAt
  <2> QED BY <2>1, PacketsKept DEF StuckAt
<1>2. container'[cpe[q]] = Nil
  <2>1. ASSUME NEW x \in Deletion, DelSkip(x) \/ DelBye(x) PROVE container'[cpe[q]] = Nil
    BY <1>0, <2>1 DEF DelSkip, DelBye, StuckAt
  <2> QED BY <2>1, ElemsKept DEF Register, StuckAt
<1> QED BY <1>1, <1>2 DEF StuckAt

LEMMA NilElems ==
  ASSUME FlowTyped, NilsExplained, Next, \A x \in Deletion : ~DelSkip(x)
  PROVE  /\ \A e \in Elem : c2m'[e]
         /\ \A e \in Elem :
              container'[e] = Nil => \E y \in Deletion : y[1] = e /\ del'[y] = "done"
         /\ DialResult = {TRUE} => \A e \in elems' : conn'[e] # Nil
<1>0. /\ conn \in [Elem -> Pointer] /\ container \in [Elem -> Pointer]
      /\ elems \subseteq Elem /\ Nil \notin Elem /\ DOMAIN del = Deletion
  BY NilAssumption DEF FlowTyped, FlowTypeOK, ElemTypeOK, ListTypeOK
<1>1. ASSUME UNCHANGED <<conn, c2m, elems>>
      PROVE  /\ \A e \in Elem : c2m'[e]
             /\ DialResult = {TRUE} => \A e \in elems' : conn'[e] # Nil
  BY <1>1 DEF NilsExplained
<1>2. ASSUME NEW e \in Elem, Register(e)
      PROVE  /\ UNCHANGED <<c2m, container, del>>
             /\ DialResult = {TRUE} => \A f \in elems' : conn'[f] # Nil
  <2>1. UNCHANGED <<c2m, container, del>> /\ elems' = elems \cup {e}
    BY <1>2 DEF Register, Add
  <2>2. PICK ok \in DialResult : conn' = [conn EXCEPT ![e] = IF ok THEN e ELSE Nil]
    BY <1>2 DEF Register
  <2>3. DialResult = {TRUE} => conn' = [conn EXCEPT ![e] = e]
    BY <2>2
  <2>4. ASSUME DialResult = {TRUE} PROVE \A f \in elems : conn[f] # Nil
    BY <2>4 DEF NilsExplained
  <2>5. ASSUME DialResult = {TRUE}, NEW f \in elems' PROVE conn'[f] # Nil
    <3>1. f = e \/ (f \in elems /\ conn[f] # Nil)
      BY <2>1, <2>4, <2>5
    <3>2. conn' = [conn EXCEPT ![e] = e] /\ f \in Elem
      BY <1>0, <2>1, <2>3, <2>5
    <3> QED BY <1>0, <3>1, <3>2
  <2> QED BY <2>1, <2>5
<1>3. ASSUME NEW x \in Deletion, DelBye(x)
      PROVE  /\ UNCHANGED <<c2m, conn, elems>>
             /\ \A e \in Elem :
                  container'[e] = Nil => \E y \in Deletion : y[1] = e /\ del'[y] = "done"
  <2>1. /\ UNCHANGED <<c2m, conn, elems>> /\ del'[x] = "done"
        /\ container' = [container EXCEPT ![x[1]] = Nil]
    BY <1>0, <1>3 DEF DelBye, Advance
  <2>2. ASSUME NEW e \in Elem, container'[e] = Nil
        PROVE  \E y \in Deletion : y[1] = e /\ del'[y] = "done"
    <3>1. CASE e = x[1]
      BY <2>1, <3>1
    <3>2. CASE e # x[1]
      <4>1. container[e] = Nil
        BY <1>0, <2>1, <2>2, <3>2
      <4> QED BY <4>1, DoneStays DEF NilsExplained
    <3> QED BY <3>1, <3>2
  <2> QED BY <2>1, <2>2
<1>4. \A e \in Elem : c2m'[e]
  BY <1>1, <1>2, <1>3, ElemsKept DEF NilsExplained
<1>5. \A e \in Elem :
        container'[e] = Nil => \E y \in Deletion : y[1] = e /\ del'[y] = "done"
  <2>1. CASE container' = container
    BY <2>1, DoneStays DEF NilsExplained
  <2> QED BY <1>2, <1>3, <2>1, ElemsKept
<1>6. DialResult = {TRUE} => \A e \in elems' : conn'[e] # Nil
  BY <1>1, <1>2, <1>3, ElemsKept DEF NilsExplained
<1> QED BY <1>4, <1>5, <1>6

LEMMA NilMaps ==
  ASSUME FlowTyped, NilsExplained, Next,
         \/ \E c \in Crc : crcContainer'[c] = Nil
         \/ \E p \in Packet : seen'[p].container = Nil
  PROVE  \E q \in Packet : StuckAt(q)'
<1>0. /\ crcContainer \in [Crc -> Pointer \cup {Absent}] /\ seen \in [Packet -> Seen]
      /\ crc \in [Packet -> Crc] /\ pc \in [Packet -> PacketAt] /\ Absent # Nil
  BY FlowAssumption DEF FlowTyped, FlowTypeOK, MapTypeOK, PktTypeOK
<1>1. CASE \/ \E c \in Crc : crcContainer[c] = Nil
           \/ \E p \in Packet : seen[p].container = Nil
  BY <1>1, StuckStays DEF NilsExplained
<1>2. CASE /\ \A c \in Crc : crcContainer[c] # Nil
           /\ \A p \in Packet : seen[p].container # Nil
  <2>1. ASSUME NEW p \in Packet, PacketStep(p) PROVE \E q \in Packet : StuckAt(q)'
    <3>1. CASE Install(p)
      <4>1. /\ crcContainer' = [crcContainer EXCEPT ![crc[p]] = container[cpe[p]]]
            /\ UNCHANGED <<seen, cpe, container>> /\ pc'[p] = "watch"
        BY <1>0, <3>1 DEF Install, Goto, elemVars
      <4>2. container[cpe[p]] = Nil
        BY <1>0, <1>2, <4>1
      <4> QED BY <4>1, <4>2 DEF StuckAt
    <3>2. CASE Lookup(p)
      <4>1. /\ crcContainer' = crcContainer
            /\ seen' = [seen EXCEPT ![p] = [conn |-> crc2conn[crc[p]],
                 container |-> crcContainer[crc[p]], lock |-> crc[p] \in crc2lock]]
        BY <3>2 DEF Lookup, mapVars
      <4> QED BY <1>0, <1>2, <4>1
    <3>3. CASE Miss(p) \/ Send(p)
      <4>1. crcContainer' = crcContainer /\ seen' = [seen EXCEPT ![p] = NotSeen]
        BY <3>3 DEF Miss, Send, mapVars
      <4> QED BY <1>0, <1>2, <4>1 DEF NotSeen
    <3>4. CASE Watch(p)
      <4>1. /\ crcContainer' = crcContainer
            /\ seen' = [seen EXCEPT ![p].conn = conn[cpe[p]], ![p].lock = TRUE]
        BY <3>4 DEF Watch, mapVars
      <4>2. \A q \in Packet : seen'[q].container = seen[q].container
        BY <1>0, <4>1 DEF Seen
      <4> QED BY <1>2, <4>1, <4>2
    <3>5. CASE /\ ~Install(p) /\ ~Lookup(p) /\ ~Miss(p) /\ ~Send(p) /\ ~Watch(p)
      <4>1. UNCHANGED <<crcContainer, seen>>
        BY <2>1, <3>5
        DEF PacketStep, NoRule, Touch, Hit, HitNil, TakeNext, TakeNil, AddCrc, WatchNil,
            FlowCrash, flowVars, mapVars, pktVars
      <4> QED BY <1>2, <4>1
    <3> QED BY <3>1, <3>2, <3>3, <3>4, <3>5
  <2>2. CASE UNCHANGED <<pc, seen, cpe>>
    <3>1. ASSUME NEW m \in MonitorId, MonitorStep(m)
          PROVE  \A c \in Crc : crcContainer'[c] # Nil
      BY <1>0, <1>2, <3>1, MonitorFrame DEF MonDrop
    <3>2. ASSUME NEW x \in Deletion, DeleteStep(x) PROVE crcContainer' = crcContainer
      BY <3>2, DeleteFrame
    <3> QED BY <1>2, <2>1, <2>2, <3>1, <3>2 DEF Next, Register, Age, mapVars
  <2> QED BY <2>1, <2>2, PacketsKept
<1> QED BY <1>1, <1>2

LEMMA NilStep ==
  ASSUME FlowBase, NilInv, Next
  PROVE  NilInv'
<1>1. CASE DeletedTwice
  BY <1>1, TwiceStays, StepPoolPart DEF FlowBase, NilInv
<1>2. ASSUME NEW x \in Deletion, DelSkip(x) PROVE NilInv'
  BY <1>2, SkipTwice DEF NilInv
<1>3. CASE NilsExplained /\ \A x \in Deletion : ~DelSkip(x)
  <2>1. NilsExplained'
    BY <1>3, NilElems, NilMaps DEF FlowBase, NilsExplained
  <2> QED BY <2>1 DEF NilInv
<1> QED BY <1>1, <1>2, <1>3 DEF NilInv

-----------------------------------------------------------------------------
(* A crash leaves its cause in place.                                      *)
LEMMA CausesKept ==
  ASSUME UNCHANGED <<pc, cpe, del, rce, monitor>>
  PROVE  /\ DeletedTwice => DeletedTwice'
         /\ HoldsStopped => HoldsStopped'
<1>1. \A e : Stopped(e)' <=> Stopped(e)
  BY DEF Stopped, Closed
<1>2. \A m \in MonitorId : MonElem(m)' = MonElem(m)
  BY DEF MonElem
<1> QED BY <1>1, <1>2 DEF DeletedTwice, HoldsStopped

LEMMA PacketPanics ==
  ASSUME FlowBase, NilInv, panic = "none", NEW p \in Packet, PacketStep(p)
  PROVE  PanicsExplained'
<1>1. CASE HitNil(p) \/ WatchNil(p)
  <2>1. panic' = "nil container" /\ UNCHANGED <<pc, cpe, del, rce, monitor>>
    BY <1>1 DEF HitNil, WatchNil, FlowCrash, Crash, flowVars, pktVars
  <2>2. DeletedTwice \/ HoldsStopped
    <3> SUFFICES ASSUME NilsExplained PROVE HoldsStopped
      BY DEF NilInv
    <3>1. PICK q \in Packet : StuckAt(q)
      BY <1>1 DEF HitNil, WatchNil, NilsExplained, StuckAt
    <3>2. cpe[q] \in Elem
      BY <3>1 DEF StuckAt, FlowBase, FlowTyped, Picked
    <3>3. Stopped(cpe[q])
      BY <3>1, <3>2 DEF StuckAt, NilsExplained, Stopped, Closed
    <3> QED BY <3>1, <3>3 DEF StuckAt, HoldsStopped
  <2>3. (DeletedTwice \/ HoldsStopped)'
    BY <2>1, <2>2, CausesKept
  <2> QED BY <2>1, <2>3 DEF PanicsExplained
<1>2. CASE TakeNil(p)
  <2>1. /\ panic' = "nil cursor" /\ curr = Nil
        /\ UNCHANGED <<order, del>>
    BY <1>2 DEF TakeNil, NextNil, Crash, links
  <2>2. DoubleUnlink \/ order = <<>>
    BY <2>1, NilAssumption
    DEF FlowBase, FlowRing, RingOK, Anchored, Linked, FlowTyped, FlowTypeOK, ListTypeOK
  <2>3. DoubleUnlink' \/ order' = <<>>
    BY <2>1, <2>2 DEF DoubleUnlink, Unlinked
  <2> QED BY <2>1, <2>3 DEF PanicsExplained
<1>3. CASE ~HitNil(p) /\ ~WatchNil(p) /\ ~TakeNil(p)
  <2>1. panic' = "none"
    BY <1>3
    DEF PacketStep, NoRule, Lookup, Touch, Hit, Miss, TakeNext, AddCrc, Install, Watch,
        Send, poolVars
  <2> QED BY <2>1 DEF PanicsExplained
<1> QED BY <1>1, <1>2, <1>3

LEMMA MonitorPanics ==
  ASSUME FlowBase, NilInv, panic = "none", NEW m \in MonitorId, MonitorStep(m)
  PROVE  PanicsExplained'
<1>1. CASE MonDecNil(m)
  <2>1. /\ panic' = "nil container" /\ UNCHANGED <<pc, cpe, del, rce, monitor>>
        /\ monitor[m] = "dec" /\ container[MonElem(m)] = Nil
    BY <1>1 DEF MonDecNil, FlowCrash, Crash, flowVars, pktVars
  <2>2. DeletedTwice \/ HoldsStopped
    <3> SUFFICES ASSUME NilsExplained PROVE HoldsStopped
      BY DEF NilInv
    <3>1. MonElem(m) \in Elem
      BY <2>1, MonitorOf DEF FlowBase
    <3>2. Stopped(MonElem(m))
      BY <2>1, <3>1 DEF NilsExplained, Stopped, Closed
    <3> QED BY <2>1, <3>2 DEF HoldsStopped
  <2>3. (DeletedTwice \/ HoldsStopped)'
    BY <2>1, <2>2, CausesKept
  <2> QED BY <2>1, <2>3 DEF PanicsExplained
<1>2. CASE MonNoMaps(m)
  <2>1. /\ panic' = "nil map" /\ del' = del /\ m \notin Packet /\ ~c2m[m[1]]
    BY <1>2 DEF MonNoMaps, MapsGone, FlowCrash, Crash
  <2>2. m[1] \in Elem
    BY <2>1 DEF MonitorId
  <2>3. DeletedTwice
    BY <2>1, <2>2 DEF NilInv, NilsExplained
  <2>4. DeletedTwice'
    BY <2>1, <2>3 DEF DeletedTwice
  <2> QED BY <2>1, <2>4 DEF PanicsExplained
<1>3. CASE ~MonDecNil(m) /\ ~MonNoMaps(m)
  <2>1. panic' = "none"
    BY <1>3 DEF MonitorStep, MonStop, MonExpire, MonDec, MonDrop, poolVars
  <2> QED BY <2>1 DEF PanicsExplained
<1> QED BY <1>1, <1>2, <1>3

LEMMA DeletePanics ==
  ASSUME FlowBase, NilInv, panic = "none", NEW x \in Deletion, DeleteStep(x)
  PROVE  PanicsExplained'
<1> DEFINE e == x[1]
<1>0. e \in Elem
  BY DeletionAssumption
<1>1. CASE DelReplaceNil(x)
  <2>1. /\ panic' = "nil cursor" /\ curr = Nil
        /\ UNCHANGED <<order, del>>
    BY <1>1 DEF DelReplaceNil, NextNil, Crash, links
  <2>2. DoubleUnlink \/ order = <<>>
    BY <2>1, NilAssumption
    DEF FlowBase, FlowRing, RingOK, Anchored, Linked, FlowTyped, FlowTypeOK, ListTypeOK
  <2>3. DoubleUnlink' \/ order' = <<>>
    BY <2>1, <2>2 DEF DoubleUnlink, Unlinked
  <2> QED BY <2>1, <2>3 DEF PanicsExplained
<1>2. CASE DelUnlink(x)
  <2>1. CASE CloseAgain(x)
    <3>1. panic' = "close of closed channel" /\ del' = del
      BY <2>1 DEF CloseAgain, Crash
    <3>2. DoubleUnlink
      BY <2>1 DEF CloseAgain, Stopped, Closed, DoubleUnlink, Unlinked
    <3>3. DoubleUnlink'
      BY <3>1, <3>2 DEF DoubleUnlink, Unlinked
    <3> QED BY <3>1, <3>3 DEF PanicsExplained
  <2>2. CASE ~CloseAgain(x)
    <3>1. panic' = "none"
      BY <1>2, <2>2 DEF DelUnlink, Unlink, CloseStop
    <3> QED BY <3>1 DEF PanicsExplained
  <2> QED BY <2>1, <2>2
<1>3. CASE DelRemapNil(x)
  <2>1. /\ del[x] = "remap" /\ UNCHANGED <<pc, cpe, del, rce, monitor>>
        /\ ~c2m[e] \/ container[rce[e]] = Nil
        /\ panic' = IF c2m[e] THEN "nil container" ELSE "nil map"
    BY <1>3 DEF DelRemapNil, FlowCrash, Crash, flowVars, pktVars
  <2>2. CASE ~c2m[e]
    <3>1. DeletedTwice
      BY <1>0, <2>2 DEF NilInv, NilsExplained
    <3>2. DeletedTwice' /\ panic' = "nil map"
      BY <2>1, <2>2, <3>1 DEF DeletedTwice
    <3> QED BY <3>2 DEF PanicsExplained
  <2>3. CASE c2m[e]
    <3>1. DeletedTwice \/ HoldsStopped
      <4> SUFFICES ASSUME NilsExplained PROVE HoldsStopped
        BY DEF NilInv
      <4>1. rce[e] \in Elem
        BY <2>1 DEF FlowBase, FlowTyped, Picked
      <4>2. Stopped(rce[e])
        BY <2>1, <2>3, <4>1 DEF NilsExplained, Stopped, Closed
      <4> QED BY <2>1, <4>2 DEF HoldsStopped
    <3>2. (DeletedTwice \/ HoldsStopped)'
      BY <2>1, <3>1, CausesKept
    <3>3. panic' = "nil container"
      BY <2>1, <2>3
    <3> QED BY <3>2, <3>3 DEF PanicsExplained
  <2> QED BY <2>2, <2>3
<1>4. CASE DelRemapRace(x)
  <2>1. /\ del[x] = "remap" /\ UNCHANGED <<pc, cpe, del, rce, monitor>>
        /\ PortsWritten(e) /\ panic' = "concurrent map access"
    BY <1>4 DEF DelRemapRace, FlowCrash, Crash, flowVars, pktVars
  <2>2. Stopped(e)
    BY <2>1 DEF Stopped, Closed
  <2>3. HoldsStopped
    BY <2>1, <2>2 DEF PortsWritten, HoldsStopped
  <2>4. HoldsStopped'
    BY <2>1, <2>3, CausesKept
  <2> QED BY <2>1, <2>4 DEF PanicsExplained
<1>5. CASE DelSignalNil(x)
  <2>1. /\ del[x] \in {"bye", "term"} /\ del' = del
        /\ conn[e] = Nil \/ container[e] = Nil
        /\ panic' = IF container[e] = Nil THEN "nil container" ELSE "nil conn"
    BY <1>5 DEF DelSignalNil, CanSignal, FlowCrash, Crash
  <2>2. e \in elems
    BY <2>1 DEF FlowBase, FlowRing, Begun
  <2>3. CASE container[e] = Nil
    <3>1. DeletedTwice
      <4> SUFFICES ASSUME NilsExplained PROVE DeletedTwice
        BY DEF NilInv
      <4>1. PICK y \in Deletion : y[1] = e /\ del[y] = "done"
        BY <1>0, <2>3 DEF NilsExplained
      <4>2. y # x /\ del[x] # "idle" /\ del[y] # "idle"
        BY <2>1, <4>1
      <4> QED BY <4>1, <4>2 DEF DeletedTwice
    <3>2. DeletedTwice' /\ panic' = "nil container"
      BY <2>1, <2>3, <3>1 DEF DeletedTwice
    <3> QED BY <3>2 DEF PanicsExplained
  <2>4. CASE container[e] # Nil
    <3>1. DeletedTwice \/ DialResult # {TRUE}
      BY <2>1, <2>2, <2>4 DEF NilInv, NilsExplained
    <3>2. DeletedTwice' \/ DialResult # {TRUE}
      BY <2>1, <3>1 DEF DeletedTwice
    <3>3. panic' = "nil conn"
      BY <2>1, <2>4
    <3> QED BY <3>2, <3>3 DEF PanicsExplained
  <2> QED BY <2>3, <2>4
<1>6. CASE \/ DelSkip(x) \/ DelCheck(x) \/ DelBye(x) \/ DelReplace(x) \/ DelRemap(x)
           \/ DelMove(x) \/ DelTerm(x)
  <2>1. panic' = "none"
    BY <1>6
    DEF DelSkip, AlreadyDeleted, DelCheck, DelBye, DelReplace, DelRemap, DelMove, DelTerm
  <2> QED BY <2>1 DEF PanicsExplained
<1> QED BY <1>1, <1>2, <1>3, <1>4, <1>5, <1>6 DEF DeleteStep

(* A panic of the gateway has one of four causes: an empty pool, a         *)
(* container deleted twice, a failed dial, or a goroutine that picked an   *)
(* element with Next and still uses it after its Delete; for any number of *)
(* containers, flows, packets and deletions.                               *)
THEOREM FlowPanicsExplained == Spec => []PanicsExplained
<1>1. Init => NilInv /\ PanicsExplained
  <2> SUFFICES ASSUME Init PROVE NilsExplained /\ PanicsExplained
    BY DEF NilInv
  <2>1. NilsExplained
    BY NilAssumption, FlowAssumption DEF Init, PoolInit, NilsExplained, NotSeen
  <2>2. PanicsExplained
    BY DEF Init, PoolInit, PanicsExplained
  <2> QED BY <2>1, <2>2
<1>2. ASSUME FlowBase, NilInv, PanicsExplained, [Next]_vars
      PROVE  (NilInv /\ PanicsExplained)'
  <2>1. CASE Next
    <3>0. panic = "none"
      BY <2>1 DEF Next
    <3>1. ASSUME panic' = "none" PROVE PanicsExplained'
      BY <3>1 DEF PanicsExplained
    <3>2. PanicsExplained'
      BY <1>2, <2>1, <3>0, <3>1, PacketPanics, MonitorPanics, DeletePanics
      DEF Next, Register, Add, Age, poolVars
    <3> QED BY <1>2, <2>1, <3>2, NilStep
  <2>2. CASE UNCHANGED vars
    <3>1. UNCHANGED <<elems, order, del, panic, conn, container, c2m, crcContainer, pc,
                      seen, cpe, rce, monitor>>
      BY <2>2 DEF vars, poolVars, links, flowVars, elemVars, mapVars, pktVars
    <3>2. DeletedTwice' <=> DeletedTwice
      BY <3>1 DEF DeletedTwice
    <3>3. NilInv'
      BY <1>2, <3>1, <3>2 DEF NilInv, NilsExplained, StuckAt
    <3>4. (HoldsStopped' <=> HoldsStopped) /\ (DoubleUnlink' <=> DoubleUnlink)
      BY <3>1 DEF HoldsStopped, Stopped, Closed, MonElem, DoubleUnlink, Unlinked
    <3>5. PanicsExplained'
      BY <1>2, <3>1, <3>2, <3>4 DEF PanicsExplained
    <3> QED BY <3>3, <3>5
  <2> QED BY <1>2, <2>1, <2>2
<1> QED BY <1>1, <1>2, FlowBaseInvariant, PTL DEF Spec

=============================================================================
