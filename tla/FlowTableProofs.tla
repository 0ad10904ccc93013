--------------------------- MODULE FlowTableProofs --------------------------
(***************************************************************************)
(* The flow table with its pool, for any containers, flows, packets and    *)
(* calls of Delete.                                                        *)
(***************************************************************************)
EXTENDS FlowTable, ConnPoolProofs

-----------------------------------------------------------------------------
(* Types.  What Fluxes counts, and that it stays an int8, comes with the    *)
(* numbers of flows in FlowCountProofs: nothing here depends on it.        *)
PacketAt == {"new", "touch", "test", "next", "addcrc", "install", "watch",
             "send", "done"}

ElemTypeOK ==
  /\ conn \in [Elem -> Pointer] /\ container \in [Elem -> Pointer]
  /\ c2m \in [Elem -> BOOLEAN]
  /\ ports \in [Elem -> SUBSET Crc]
  /\ DOMAIN fluxes = Elem
  /\ rce \in [Elem -> Pointer]

MapTypeOK ==
  /\ crc2conn \in [Crc -> Pointer \cup {Absent}]
  /\ crcContainer \in [Crc -> Pointer \cup {Absent}]
  /\ crc2lock \in SUBSET Crc
  /\ usage \in [Crc -> {"never", "fresh", "stale"}]

PktTypeOK ==
  /\ pc \in [Packet -> PacketAt]
  /\ crc \in [Packet -> Crc]
  /\ seen \in [Packet -> Seen]
  /\ cpe \in [Packet -> Pointer]

CallTypeOK ==
  /\ del \in [Deletion -> DelStates]
  /\ panic \in Panics
  /\ monitor \in [MonitorId -> {"none", "wait", "dec", "drop"}]

FlowTypeOK == ElemTypeOK /\ MapTypeOK /\ PktTypeOK /\ CallTypeOK /\ ListTypeOK

(* Whoever works with an element has one: Get after Next, a monitor, and   *)
(* Delete after it has chosen a replacement.                               *)
Picked ==
  /\ \A p \in Packet :
       pc[p] \in {"addcrc", "install", "watch"} \/ monitor[p] # "none"
         => cpe[p] \in Elem
  /\ \A x \in Deletion : del[x] \in {"remap", "move"} => rce[x[1]] \in Elem
  /\ \A e \in Elem, c \in Crc : monitor[<<e, c>>] # "none" => rce[e] \in Elem

FlowTyped == FlowTypeOK /\ Picked

LEMMA NotSeenTyped == NotSeen \in Seen
BY DEF NotSeen, Seen

LEMMA FlowTypeInit == Init => FlowTyped
<1> SUFFICES ASSUME Init PROVE FlowTyped
  OBVIOUS
<1>1. ElemTypeOK
  BY DEF Init, ElemTypeOK, Pointer
<1>2. MapTypeOK
  BY DEF Init, MapTypeOK
<1>3. PktTypeOK
  BY NotSeenTyped DEF Init, PktTypeOK, PacketAt, Pointer
<1>4. CallTypeOK
  BY DEF Init, PoolInit, CallTypeOK, DelStates, Panics
<1>5. ListTypeOK
  BY DEF Init, PoolInit, ListTypeOK, Pointer
<1>6. Picked
  <2>1. \A e \in Elem, c \in Crc : <<e, c>> \in MonitorId
    BY DEF MonitorId
  <2> QED BY <2>1 DEF Init, PoolInit, Picked, MonitorId
<1> QED BY <1>1, <1>2, <1>3, <1>4, <1>5, <1>6 DEF FlowTypeOK, FlowTyped

(* A crash changes nothing but panic.                                      *)
LEMMA CrashTyped ==
  ASSUME FlowTyped, NEW cause \in Panics, FlowCrash(cause)
  PROVE  FlowTyped'
<1>1. /\ panic' = cause
      /\ UNCHANGED <<elems, head, tail, curr, next, prev, order, del>>
      /\ UNCHANGED <<conn, container, c2m, ports, fluxes, rce, crc2conn>>
      /\ UNCHANGED <<crcContainer, crc2lock, usage, pc, crc, seen, cpe, monitor>>
  BY DEF FlowCrash, Crash, links, flowVars, elemVars, mapVars, pktVars
<1>2. ElemTypeOK' /\ MapTypeOK' /\ PktTypeOK' /\ CallTypeOK' /\ ListTypeOK'
  BY <1>1 DEF FlowTyped, FlowTypeOK, ElemTypeOK, MapTypeOK, PktTypeOK, CallTypeOK,
              ListTypeOK
<1>3. Picked'
  BY <1>1 DEF FlowTyped, Picked
<1> QED BY <1>2, <1>3 DEF FlowTyped, FlowTypeOK

LEMMA PacketTyped ==
  ASSUME FlowTyped, NEW p \in Packet, PacketStep(p)
  PROVE  FlowTyped'
<1> USE DEF FlowTyped, FlowTypeOK
<1>0. /\ pc \in [Packet -> PacketAt] /\ crc[p] \in Crc /\ seen \in [Packet -> Seen]
      /\ p \in MonitorId /\ cpe \in [Packet -> Pointer] /\ Nil \notin Elem
      /\ \A e \in Elem, c \in Crc : <<e, c>> \in MonitorId /\ <<e, c>> # p
  BY FlowAssumption, NilAssumption DEF PktTypeOK, MonitorId
<1>1. CASE NoRule(p) \/ Hit(p)
  <2>1. PICK l \in {"done", "send"} : pc' = [pc EXCEPT ![p] = l]
    BY <1>1 DEF NoRule, Hit, Goto
  <2>2. /\ UNCHANGED <<elems, head, tail, curr, next, prev, order, del, panic>>
        /\ UNCHANGED <<conn, container, c2m, ports, fluxes, rce, crc2conn>>
        /\ UNCHANGED <<crcContainer, crc2lock, usage, crc, seen, cpe, monitor>>
    BY <1>1 DEF NoRule, Hit, poolVars, links, elemVars, mapVars
  <2>3. ElemTypeOK' /\ MapTypeOK' /\ CallTypeOK' /\ ListTypeOK'
    BY <2>2 DEF ElemTypeOK, MapTypeOK, CallTypeOK, ListTypeOK
  <2>4. PktTypeOK' /\ Picked'
    BY <1>0, <2>1, <2>2 DEF PktTypeOK, PacketAt, Picked
  <2> QED BY <2>3, <2>4
<1>2. CASE Lookup(p) \/ Miss(p) \/ Send(p)
  <2>1. PICK l \in {"touch", "next", "done"} : pc' = [pc EXCEPT ![p] = l]
    BY <1>2 DEF Lookup, Miss, Send, Goto
  <2>2. /\ UNCHANGED <<elems, head, tail, curr, next, prev, order, del, panic>>
        /\ UNCHANGED <<conn, container, c2m, ports, fluxes, rce, crc2conn>>
        /\ UNCHANGED <<crcContainer, crc2lock, usage, crc, cpe, monitor>>
    BY <1>2 DEF Lookup, Miss, Send, poolVars, links, elemVars, mapVars
  <2>3. ElemTypeOK' /\ MapTypeOK' /\ CallTypeOK' /\ ListTypeOK'
    BY <2>2 DEF ElemTypeOK, MapTypeOK, CallTypeOK, ListTypeOK
  <2>4. PICK s \in Seen : seen' = [seen EXCEPT ![p] = s]
    <3>1. CASE Lookup(p)
      <4>1. [conn |-> crc2conn[crc[p]], container |-> crcContainer[crc[p]],
             lock |-> crc[p] \in crc2lock] \in Seen
        BY <1>0 DEF Seen, MapTypeOK
      <4> QED BY <3>1, <4>1 DEF Lookup
    <3>2. CASE Miss(p) \/ Send(p)
      BY <3>2, NotSeenTyped DEF Miss, Send
    <3> QED BY <1>2, <3>1, <3>2
  <2>5. PktTypeOK' /\ Picked'
    BY <1>0, <2>1, <2>2, <2>4 DEF PktTypeOK, PacketAt, Picked
  <2> QED BY <2>3, <2>5
<1>3. CASE Touch(p)
  <2>1. /\ pc' = [pc EXCEPT ![p] = "test"] /\ usage' = [usage EXCEPT ![crc[p]] = "fresh"]
        /\ UNCHANGED <<elems, head, tail, curr, next, prev, order, del, panic>>
        /\ UNCHANGED <<conn, container, c2m, ports, fluxes, rce, crc2conn>>
        /\ UNCHANGED <<crcContainer, crc2lock, crc, seen, cpe, monitor>>
    BY <1>3 DEF Touch, Goto, poolVars, links, elemVars, mapVars
  <2>2. ElemTypeOK' /\ MapTypeOK' /\ CallTypeOK' /\ ListTypeOK'
    BY <2>1 DEF ElemTypeOK, MapTypeOK, CallTypeOK, ListTypeOK
  <2>3. PktTypeOK' /\ Picked'
    BY <1>0, <2>1 DEF PktTypeOK, PacketAt, Picked
  <2> QED BY <2>2, <2>3
<1>4. CASE TakeNext(p)
  <2>1. PICK r \in Elem : NextElem(r) /\ cpe' = [cpe EXCEPT ![p] = r]
    BY <1>4 DEF TakeNext
  <2>2. /\ pc' = [pc EXCEPT ![p] = "addcrc"] /\ UNCHANGED <<elems, del, panic>>
        /\ UNCHANGED <<conn, container, c2m, ports, fluxes, rce, crc2conn>>
        /\ UNCHANGED <<crcContainer, crc2lock, usage, crc, seen, monitor>>
    BY <1>4 DEF TakeNext, Goto, elemVars, mapVars
  <2>3. ListTypeOK'
    BY <2>1, <2>2, ListTypeStep DEF ListTypeOK
  <2>4. ElemTypeOK' /\ MapTypeOK' /\ CallTypeOK'
    BY <2>2 DEF ElemTypeOK, MapTypeOK, CallTypeOK
  <2>5. PktTypeOK' /\ Picked'
    BY <1>0, <2>1, <2>2 DEF PktTypeOK, PacketAt, Picked, Pointer
  <2> QED BY <2>3, <2>4, <2>5
<1>5. CASE HitNil(p) \/ WatchNil(p)
  BY <1>5, CrashTyped DEF HitNil, WatchNil, Panics
<1>6. CASE TakeNil(p)
  BY <1>6, CrashTyped DEF TakeNil, NextNil, FlowCrash, Crash, Panics
<1>7. CASE AddCrc(p)
  <2>1. /\ pc[p] = "addcrc" /\ pc' = [pc EXCEPT ![p] = "install"]
        /\ ports' = [ports EXCEPT ![cpe[p]] = ports[cpe[p]] \cup {crc[p]}]
        /\ UNCHANGED <<elems, head, tail, curr, next, prev, order, del, panic>>
        /\ UNCHANGED <<conn, container, c2m, fluxes, rce, crc2conn>>
        /\ UNCHANGED <<crcContainer, crc2lock, usage, crc, seen, cpe, monitor>>
    BY <1>7 DEF AddCrc, Goto, poolVars, links, elemVars, mapVars
  <2>2. cpe[p] \in Elem
    BY <2>1 DEF Picked
  <2>4. ElemTypeOK'
    BY <1>0, <2>1, <2>2 DEF ElemTypeOK, PktTypeOK
  <2>5. MapTypeOK' /\ CallTypeOK' /\ ListTypeOK'
    BY <2>1 DEF MapTypeOK, CallTypeOK, ListTypeOK
  <2>6. PktTypeOK' /\ Picked'
    BY <1>0, <2>1 DEF PktTypeOK, PacketAt, Picked
  <2> QED BY <2>4, <2>5, <2>6
<1>8. CASE Install(p)
  <2>1. /\ pc[p] = "install" /\ pc' = [pc EXCEPT ![p] = "watch"]
        /\ crc2conn' = [crc2conn EXCEPT ![crc[p]] = conn[cpe[p]]]
        /\ crcContainer' = [crcContainer EXCEPT ![crc[p]] = container[cpe[p]]]
        /\ crc2lock' = crc2lock \cup {crc[p]}
        /\ UNCHANGED <<elems, head, tail, curr, next, prev, order, del, panic>>
        /\ UNCHANGED <<conn, container, c2m, ports, fluxes, rce>>
        /\ UNCHANGED <<usage, crc, seen, cpe, monitor>>
    BY <1>8 DEF Install, NewLock, Goto, poolVars, links, elemVars, mapVars
  <2>2. cpe[p] \in Elem
    BY <2>1 DEF Picked
  <2>3. conn[cpe[p]] \in Pointer /\ container[cpe[p]] \in Pointer
    BY <2>2 DEF ElemTypeOK
  <2>4. MapTypeOK'
    BY <1>0, <2>1, <2>3 DEF MapTypeOK
  <2>5. ElemTypeOK' /\ CallTypeOK' /\ ListTypeOK'
    BY <2>1 DEF ElemTypeOK, CallTypeOK, ListTypeOK
  <2>6. PktTypeOK' /\ Picked'
    BY <1>0, <2>1 DEF PktTypeOK, PacketAt, Picked
  <2> QED BY <2>4, <2>5, <2>6
<1>9. CASE Watch(p)
  <2>1. /\ pc[p] = "watch" /\ pc' = [pc EXCEPT ![p] = "send"]
        /\ fluxes' = [fluxes EXCEPT ![cpe[p]] = IncFluxes(fluxes[cpe[p]], 1)]
        /\ monitor' = [monitor EXCEPT ![p] = "wait"]
        /\ seen' = [seen EXCEPT ![p].conn = conn[cpe[p]], ![p].lock = TRUE]
        /\ UNCHANGED <<elems, head, tail, curr, next, prev, order, del, panic>>
        /\ UNCHANGED <<conn, container, c2m, ports, rce, crc2conn, crcContainer>>
        /\ UNCHANGED <<crc2lock, usage, crc, cpe>>
    BY <1>9 DEF Watch, Goto, poolVars, links, elemVars, mapVars
  <2>2. cpe[p] \in Elem
    BY <2>1 DEF Picked
  <2>3. conn[cpe[p]] \in Pointer
    BY <2>2 DEF ElemTypeOK
  <2>5. ElemTypeOK'
    BY <2>1 DEF ElemTypeOK
  <2>6. MapTypeOK' /\ CallTypeOK' /\ ListTypeOK'
    BY <1>0, <2>1 DEF MapTypeOK, CallTypeOK, ListTypeOK
  <2>7. seen' \in [Packet -> Seen]
    BY <1>0, <2>1, <2>3 DEF Seen
  <2>8. PktTypeOK' /\ Picked'
    BY <1>0, <2>1, <2>2, <2>7 DEF PktTypeOK, PacketAt, Picked, CallTypeOK
  <2> QED BY <2>5, <2>6, <2>8
<1> QED BY <1>1, <1>2, <1>3, <1>4, <1>5, <1>6, <1>7, <1>8, <1>9 DEF PacketStep

(* A monitor watches a flow of a container.                                *)
LEMMA MonitorOf ==
  ASSUME FlowTyped, NEW m \in MonitorId
  PROVE  /\ MonCrc(m) \in Crc
         /\ monitor[m] # "none" => MonElem(m) \in Elem
<1>1. CASE m \in Packet
  BY <1>1 DEF FlowTyped, FlowTypeOK, PktTypeOK, Picked, MonCrc, MonElem
<1>2. CASE m \notin Packet
  <2>1. PICK e \in Elem, c \in Crc : m = <<e, c>>
    BY <1>2 DEF MonitorId
  <2> QED BY <1>2, <2>1 DEF FlowTyped, Picked, MonCrc, MonElem
<1> QED BY <1>1, <1>2

LEMMA MonitorTyped ==
  ASSUME FlowTyped, NEW m \in MonitorId, MonitorStep(m)
  PROVE  FlowTyped'
<1> USE DEF FlowTyped, FlowTypeOK
<1>0. /\ MonCrc(m) \in Crc /\ (monitor[m] # "none" => MonElem(m) \in Elem)
      /\ \A e \in Elem, c \in Crc : <<e, c>> \in MonitorId
      /\ \A p \in Packet : p \in MonitorId
  BY MonitorOf DEF MonitorId
<1>1. CASE MonStop(m) \/ MonExpire(m) \/ MonDec(m) \/ MonDrop(m)
  <2>1. /\ UNCHANGED <<elems, head, tail, curr, next, prev, order, del, panic>>
        /\ UNCHANGED <<conn, container, c2m, ports, rce>>
        /\ UNCHANGED <<crc2lock, usage, pc, crc, seen, cpe>>
    BY <1>1 DEF MonStop, MonExpire, MonDec, MonDrop, poolVars, links, elemVars,
                mapVars, pktVars
  <2>2. PICK l \in {"none", "dec", "drop"} : monitor' = [monitor EXCEPT ![m] = l]
    BY <1>1 DEF MonStop, MonExpire, MonDec, MonDrop
  <2>3. monitor[m] # "none"
    BY <1>1 DEF MonStop, MonExpire, MonDec, MonDrop
  <2>4. DOMAIN fluxes' = Elem
    BY <1>1 DEF MonStop, MonExpire, MonDec, MonDrop, ElemTypeOK
  <2>5. /\ crc2conn' \in [Crc -> Pointer \cup {Absent}]
        /\ crcContainer' \in [Crc -> Pointer \cup {Absent}]
    BY <1>0, <1>1 DEF MonStop, MonExpire, MonDec, MonDrop, mapVars, MapTypeOK
  <2>6. ElemTypeOK' /\ MapTypeOK' /\ PktTypeOK' /\ ListTypeOK'
    BY <2>1, <2>4, <2>5 DEF ElemTypeOK, MapTypeOK, PktTypeOK, ListTypeOK
  <2>7. CallTypeOK'
    BY <2>1, <2>2 DEF CallTypeOK
  <2>8. Picked'
    <3>1. \A n \in MonitorId : monitor'[n] # "none" => monitor[n] # "none"
      BY <2>2, <2>3 DEF CallTypeOK
    <3> QED BY <1>0, <2>1, <3>1 DEF Picked
  <2> QED BY <2>6, <2>7, <2>8
<1>2. CASE MonDecNil(m) \/ MonNoMaps(m)
  BY <1>2, CrashTyped DEF MonDecNil, MonNoMaps, Panics
<1> QED BY <1>1, <1>2 DEF MonitorStep

LEMMA RegisterTyped ==
  ASSUME FlowTyped, NEW e \in Elem, Register(e)
  PROVE  FlowTyped'
<1> USE DEF FlowTyped, FlowTypeOK
<1>1. /\ UNCHANGED <<del, panic, container, c2m, ports, fluxes, rce, crc2conn>>
      /\ UNCHANGED <<crcContainer, crc2lock, usage, pc, crc, seen, cpe, monitor>>
  BY DEF Register, Add, mapVars, pktVars
<1>2. conn' \in [Elem -> Pointer]
  BY DEF Register, ElemTypeOK, Pointer
<1>3. ListTypeOK'
  BY ListTypeStep DEF Register
<1>4. ElemTypeOK' /\ MapTypeOK' /\ PktTypeOK' /\ CallTypeOK' /\ Picked'
  BY <1>1, <1>2 DEF ElemTypeOK, MapTypeOK, PktTypeOK, CallTypeOK, Picked
<1> QED BY <1>3, <1>4

LEMMA AgeTyped ==
  ASSUME FlowTyped, NEW c \in Crc, Age(c)
  PROVE  FlowTyped'
<1> USE DEF FlowTyped, FlowTypeOK
<1>1. /\ UNCHANGED <<elems, head, tail, curr, next, prev, order, del, panic>>
      /\ UNCHANGED <<conn, container, c2m, ports, fluxes, rce, crc2conn>>
      /\ UNCHANGED <<crcContainer, crc2lock, pc, crc, seen, cpe, monitor>>
      /\ usage' = [usage EXCEPT ![c] = "stale"]
  BY DEF Age, poolVars, links, elemVars, mapVars, pktVars
<1>2. ElemTypeOK' /\ MapTypeOK' /\ PktTypeOK' /\ CallTypeOK' /\ ListTypeOK'
  BY <1>1 DEF ElemTypeOK, MapTypeOK, PktTypeOK, CallTypeOK, ListTypeOK
<1> QED BY <1>1, <1>2 DEF Picked

LEMMA DeleteTyped ==
  ASSUME FlowTyped, NEW x \in Deletion, DeleteStep(x)
  PROVE  FlowTyped'
<1> USE DEF FlowTyped, FlowTypeOK
<1> DEFINE e == x[1]
<1>0. /\ e \in Elem /\ Nil \notin Elem
      /\ \A f \in Elem, c \in Crc : <<f, c>> \in MonitorId
      /\ del \in [Deletion -> DelStates]
  BY NilAssumption, DeletionAssumption DEF CallTypeOK, MonitorId
<1> HIDE DEF e
<1>1. CASE DelUnlink(x) /\ ~CloseAgain(x)
  <2>1. /\ UNCHANGED <<panic, conn, container, c2m, ports, fluxes, rce, crc2conn>>
        /\ UNCHANGED <<crcContainer, crc2lock, usage, pc, crc, seen, cpe, monitor>>
        /\ \E l \in {"unlinked", "closed"} : del' = [del EXCEPT ![x] = l]
    BY <1>1 DEF DelUnlink, Unlink, CloseStop, flowVars, elemVars, mapVars, pktVars
  <2>2. ListTypeOK'
    BY <1>1, ListTypeStep DEF DelUnlink
  <2>3. ElemTypeOK' /\ MapTypeOK' /\ PktTypeOK' /\ CallTypeOK'
    BY <2>1 DEF ElemTypeOK, MapTypeOK, PktTypeOK, CallTypeOK, DelStates
  <2>4. Picked'
    BY <1>0, <2>1 DEF Picked
  <2> QED BY <2>2, <2>3, <2>4
<1>2. CASE DelSkip(x)
  <2>1. /\ UNCHANGED <<panic, ports, fluxes, rce, crc2conn>>
        /\ UNCHANGED <<crcContainer, crc2lock, usage, pc, crc, seen, cpe, monitor>>
        /\ del' = [del EXCEPT ![x] = "skipped"]
        /\ conn' = [conn EXCEPT ![e] = Nil]
        /\ container' = [container EXCEPT ![e] = Nil]
        /\ c2m' = [c2m EXCEPT ![e] = FALSE]
    BY <1>2 DEF DelSkip, AlreadyDeleted, mapVars, pktVars, e
  <2>2. ListTypeOK'
    BY <1>2, ListTypeStep DEF DelSkip
  <2>3. ElemTypeOK' /\ MapTypeOK' /\ PktTypeOK' /\ CallTypeOK'
    BY <2>1 DEF ElemTypeOK, MapTypeOK, PktTypeOK, CallTypeOK, DelStates, Pointer
  <2>4. Picked'
    BY <1>0, <2>1 DEF Picked
  <2> QED BY <2>2, <2>3, <2>4
<1>3. CASE DelCheck(x) \/ DelBye(x) \/ DelTerm(x)
  <2>1. /\ UNCHANGED <<elems, head, tail, curr, next, prev, order, panic>>
        /\ UNCHANGED <<conn, c2m, ports, fluxes, rce, crc2conn>>
        /\ UNCHANGED <<crcContainer, crc2lock, usage, pc, crc, seen, cpe, monitor>>
        /\ \E l \in {"bye", "replace", "done"} : del' = [del EXCEPT ![x] = l]
        /\ container' \in {container, [container EXCEPT ![e] = Nil]}
    BY <1>3 DEF DelCheck, DelBye, DelTerm, Advance, links, flowVars, elemVars, mapVars,
                pktVars, e
  <2>2. MapTypeOK' /\ PktTypeOK' /\ ListTypeOK'
    BY <2>1 DEF MapTypeOK, PktTypeOK, CallTypeOK, ListTypeOK
  <2>3. ElemTypeOK'
    BY <1>0, <2>1 DEF ElemTypeOK, Pointer
  <2>4. CallTypeOK'
    BY <2>1 DEF CallTypeOK, DelStates
  <2>5. Picked'
    BY <1>0, <2>1 DEF Picked
  <2> QED BY <2>2, <2>3, <2>4, <2>5
<1>4. CASE DelReplace(x)
  <2>1. PICK r \in Elem : NextElem(r) /\ rce' = [rce EXCEPT ![e] = r]
    BY <1>4 DEF DelReplace, Replacement, e
  <2>2. /\ UNCHANGED <<elems, panic, conn, container, c2m, ports, fluxes, crc2conn>>
        /\ UNCHANGED <<crcContainer, crc2lock, usage, pc, crc, seen, cpe, monitor>>
        /\ del' = [del EXCEPT ![x] = "remap"]
    BY <1>4 DEF DelReplace, Advance, elemVars, mapVars, pktVars
  <2>3. ListTypeOK'
    BY <1>0, <2>1, <2>2, ListTypeStep
  <2>4. ElemTypeOK' /\ MapTypeOK' /\ PktTypeOK' /\ CallTypeOK'
    BY <2>1, <2>2 DEF ElemTypeOK, MapTypeOK, PktTypeOK, CallTypeOK, DelStates, Pointer
  <2>5. Picked'
    <3>1. \A f \in Elem : rce[f] \in Elem => rce'[f] \in Elem
      BY <2>1 DEF ElemTypeOK
    <3>2. rce'[e] \in Elem
      BY <1>0, <2>1 DEF ElemTypeOK
    <3>3. \A y \in Deletion : y[1] \in Elem
      BY DeletionAssumption
    <3> QED BY <1>0, <2>2, <3>1, <3>2, <3>3 DEF Picked, e
  <2> QED BY <2>3, <2>4, <2>5
<1>5. CASE DelRemap(x)
  <2>1. /\ UNCHANGED <<elems, head, tail, curr, next, prev, order, panic>>
        /\ UNCHANGED <<conn, container, c2m, ports, rce>>
        /\ UNCHANGED <<crcContainer, crc2lock, usage, pc, crc, seen, cpe>>
        /\ del' = [del EXCEPT ![x] = "move"]
        /\ crc2conn' = [c \in Crc |-> IF c \in ports[e] THEN conn[rce[e]]
                                                       ELSE crc2conn[c]]
        /\ fluxes' = [fluxes EXCEPT
                        ![rce[e]] = IncFluxes(fluxes[rce[e]], Cardinality(ports[e]))]
        /\ monitor' = [m \in MonitorId |-> IF m \in {e} \X ports[e] THEN "wait"
                                                                  ELSE monitor[m]]
    BY <1>5 DEF DelRemap, Advance, Spawn, links, elemVars, pktVars, e
  <2>2. rce[e] \in Elem /\ conn[rce[e]] \in Pointer
    BY <1>5 DEF DelRemap, Picked, ElemTypeOK, e
  <2>5. DOMAIN fluxes' = Elem
    BY <2>1 DEF ElemTypeOK
  <2>6. ElemTypeOK' /\ MapTypeOK' /\ PktTypeOK' /\ ListTypeOK'
    BY <2>1, <2>2, <2>5 DEF ElemTypeOK, MapTypeOK, PktTypeOK, ListTypeOK
  <2>7. CallTypeOK'
    BY <2>1 DEF CallTypeOK, DelStates
  <2>8. Picked'
    <3>1. ASSUME NEW p \in Packet PROVE monitor'[p] = monitor[p]
      <4>1. p \in MonitorId
        BY DEF MonitorId
      <4>2. p \notin {e} \X ports[e]
        BY <1>0, FlowAssumption DEF ElemTypeOK
      <4> QED BY <2>1, <4>1, <4>2
    <3>2. ASSUME NEW f \in Elem, NEW c \in Crc, monitor'[<<f, c>>] # "none"
          PROVE  f = e \/ monitor[<<f, c>>] # "none"
      BY <1>0, <2>1, <3>2
    <3>3. \A y \in Deletion : del'[y] \in {"remap", "move"} => rce[y[1]] \in Elem
      BY <1>0, <2>1, <2>2 DEF Picked, e
    <3> QED BY <2>1, <2>2, <3>1, <3>2, <3>3 DEF Picked
  <2> QED BY <2>6, <2>7, <2>8
<1>6. CASE DelMove(x)
  <2>1. /\ UNCHANGED <<elems, head, tail, curr, next, prev, order, panic>>
        /\ UNCHANGED <<conn, container, c2m, rce, crc2conn, monitor, fluxes>>
        /\ UNCHANGED <<crcContainer, crc2lock, usage, pc, crc, seen, cpe>>
        /\ del' = [del EXCEPT ![x] = "term"]
        /\ ports' = [ports EXCEPT ![rce[e]] = ports[rce[e]] \cup ports[e]]
    BY <1>6 DEF DelMove, MovePorts, Advance, links, elemVars, mapVars, pktVars, e
  <2>2. rce[e] \in Elem
    BY <1>6 DEF DelMove, Picked, e
  <2>3. ports[rce[e]] \cup ports[e] \in SUBSET Crc
    BY <1>0, <2>2 DEF ElemTypeOK
  <2>4. ElemTypeOK'
    BY <1>0, <2>1, <2>2, <2>3 DEF ElemTypeOK
  <2>5. MapTypeOK' /\ PktTypeOK' /\ CallTypeOK' /\ ListTypeOK'
    BY <2>1 DEF MapTypeOK, PktTypeOK, CallTypeOK, DelStates, ListTypeOK
  <2>6. Picked'
    BY <1>0, <2>1 DEF Picked
  <2> QED BY <2>4, <2>5, <2>6
<1>7. CASE DelRemapNil(x) \/ DelRemapRace(x) \/ DelSignalNil(x)
  BY <1>7, CrashTyped DEF DelRemapNil, DelRemapRace, DelSignalNil, Panics
<1>8. CASE DelReplaceNil(x)
  BY <1>8, CrashTyped DEF DelReplaceNil, NextNil, FlowCrash, Crash, Panics
<1>9. CASE DelUnlink(x) /\ CloseAgain(x)
  BY <1>9, CrashTyped DEF DelUnlink, CloseAgain, FlowCrash, Crash, Panics
<1> QED BY <1>1, <1>2, <1>3, <1>4, <1>5, <1>6, <1>7, <1>8, <1>9 DEF DeleteStep

LEMMA FlowTypedStep ==
  ASSUME FlowTyped, [Next]_vars
  PROVE  FlowTyped'
<1>1. CASE UNCHANGED vars
  BY <1>1 DEF vars, poolVars, links, flowVars, elemVars, mapVars, pktVars, FlowTyped,
      FlowTypeOK, ElemTypeOK, MapTypeOK, PktTypeOK, CallTypeOK, ListTypeOK, Picked
<1>2. CASE Next
  BY <1>2, RegisterTyped, PacketTyped, AgeTyped, MonitorTyped, DeleteTyped DEF Next
<1> QED BY <1>1, <1>2

-----------------------------------------------------------------------------
(* What the steps of a packet, of a monitor and of a Delete leave alone.   *)
LEMMA PacketFrame ==
  ASSUME NEW p \in Packet, PacketStep(p)
  PROVE  /\ UNCHANGED <<elems, del, conn, container, c2m, rce, crc>>
         /\ AddCrc(p) \/ ports' = ports
         /\ Install(p) \/ UNCHANGED <<crc2conn, crcContainer, crc2lock>>
         /\ Watch(p) \/ UNCHANGED <<fluxes, monitor>>
  BY
  DEF PacketStep, NoRule, Lookup, Touch, Hit, HitNil, Miss, TakeNext, TakeNil, AddCrc,
     Install, Watch, WatchNil, Send, FlowCrash, flowVars, elemVars, mapVars, pktVars,
     poolVars

LEMMA MonitorFrame ==
  ASSUME NEW m \in MonitorId, MonitorStep(m)
  PROVE  /\ UNCHANGED <<elems, del, conn, container, c2m, ports, rce, crc2lock>>
         /\ UNCHANGED <<pc, crc, seen, cpe>>
         /\ MonDec(m) \/ fluxes' = fluxes
         /\ MonDrop(m) \/ UNCHANGED <<crc2conn, crcContainer>>
  BY DEF MonitorStep, MonStop, MonExpire, MonDec, MonDecNil, MonDrop, MonNoMaps,
     FlowCrash, flowVars, elemVars, mapVars, pktVars, poolVars

LEMMA DeleteFrame ==
  ASSUME NEW x \in Deletion, DeleteStep(x)
  PROVE  /\ UNCHANGED <<elems, crcContainer, crc2lock, pc, crc, seen, cpe>>
         /\ DelSkip(x) \/ UNCHANGED <<conn, c2m>>
         /\ DelSkip(x) \/ DelBye(x) \/ container' = container
         /\ DelReplace(x) \/ rce' = rce
         /\ DelRemap(x) \/ UNCHANGED <<crc2conn, fluxes, monitor>>
         /\ DelMove(x) \/ ports' = ports
<1>1. CASE DelUnlink(x) \/ DelSkip(x) \/ DelCheck(x) \/ DelBye(x)
  BY <1>1 DEF DelUnlink, DelSkip, DelCheck, DelBye, Unlink, CloseStop, CloseAgain,
     AlreadyDeleted, flowVars, elemVars, mapVars, pktVars
<1>2. CASE DelReplace(x) \/ DelReplaceNil(x) \/ DelMove(x) \/ DelTerm(x)
  BY <1>2 DEF DelReplace, DelReplaceNil, DelMove, DelTerm, flowVars, elemVars, mapVars,
     pktVars
<1>3. CASE DelRemap(x)
  BY <1>3 DEF DelRemap, elemVars, pktVars
<1>4. CASE DelRemapNil(x) \/ DelRemapRace(x) \/ DelSignalNil(x)
  BY <1>4 DEF DelRemapNil, DelRemapRace, DelSignalNil, FlowCrash, flowVars, elemVars,
     mapVars, pktVars
<1> QED BY <1>1, <1>2, <1>3, <1>4 DEF DeleteStep

-----------------------------------------------------------------------------
(* What the pool sees of the calls of Delete and of a panic.               *)
PoolDel == [x \in Deletion |-> IF Closed(x) THEN "closed" ELSE del[x]]

PoolPanic ==
  IF panic \in {"nil cursor", "close of closed channel"} THEN panic ELSE "none"

(* What a step of the flow table is to its pool: one of the pool's         *)
(* operations, or nothing.                                                 *)
PoolPart ==
  \/ \E e \in Elem : Add(e)
  \/ \E r \in Elem : NextElem(r) /\ UNCHANGED <<elems, panic>> /\ PoolDel' = PoolDel
  \/ \E x \in Deletion : Unlink(x) \/ AlreadyDeleted(x) \/ CloseStop(x)
  \/ NextNil /\ UNCHANGED <<elems, del>>
  \/ \E x \in Deletion : CloseAgain(x)
  \/ /\ UNCHANGED <<elems, head, tail, curr, next, prev, order>>
     /\ PoolDel' = PoolDel /\ PoolPanic' = PoolPanic

(* A call of Delete goes on after it has closed stopChan.                  *)
LEMMA AdvanceKeepsPoolDel ==
  ASSUME FlowTyped, NEW x \in Deletion, Closed(x),
         NEW l \in {"bye", "replace", "remap", "move", "term", "done"},
         del' = [del EXCEPT ![x] = l]
  PROVE  PoolDel' = PoolDel
<1>1. DOMAIN del = Deletion
  BY DEF FlowTyped, FlowTypeOK, CallTypeOK
<1>2. \A y \in Deletion : y # x => del'[y] = del[y]
  BY <1>1
<1>3. del'[x] = l
  BY <1>1
<1>4. \A y \in Deletion : (IF Closed(y) THEN "closed" ELSE del[y])'
                            = (IF Closed(y) THEN "closed" ELSE del[y])
  BY <1>2, <1>3 DEF Closed
<1> QED BY <1>4 DEF PoolDel

LEMMA DeletePoolPart ==
  ASSUME FlowTyped, panic = "none", NEW x \in Deletion, DeleteStep(x)
  PROVE  PoolPart
<1>1. CASE DelUnlink(x)
  BY <1>1 DEF DelUnlink, PoolPart
<1>2. CASE DelSkip(x)
  BY <1>2 DEF DelSkip, PoolPart
<1>3. CASE DelReplace(x)
  <2>1. PICK r \in Elem : NextElem(r)
    BY <1>3 DEF DelReplace, Replacement
  <2>2. UNCHANGED <<elems, panic>> /\ del' = [del EXCEPT ![x] = "remap"] /\ Closed(x)
    BY <1>3 DEF DelReplace, Advance, Closed
  <2>3. PoolDel' = PoolDel
    BY <2>2, AdvanceKeepsPoolDel
  <2> QED BY <2>1, <2>2, <2>3 DEF PoolPart
<1>4. CASE DelReplaceNil(x)
  BY <1>4 DEF DelReplaceNil, PoolPart
<1>5. CASE DelCheck(x) \/ DelBye(x) \/ DelRemap(x) \/ DelMove(x) \/ DelTerm(x)
  <2>1. /\ UNCHANGED <<elems, head, tail, curr, next, prev, order, panic>>
        /\ Closed(x)
        /\ \E l \in {"bye", "replace", "remap", "move", "term", "done"} :
             del' = [del EXCEPT ![x] = l]
    BY <1>5 DEF DelCheck, DelBye, DelRemap, DelMove, DelTerm, Advance, Closed, links
  <2>2. PoolDel' = PoolDel
    BY <2>1, AdvanceKeepsPoolDel
  <2> QED BY <2>1, <2>2 DEF PoolPart, PoolPanic
<1>6. CASE DelRemapNil(x) \/ DelRemapRace(x) \/ DelSignalNil(x)
  <2>1. /\ UNCHANGED <<elems, head, tail, curr, next, prev, order, del>>
        /\ panic' \notin {"nil cursor", "close of closed channel"}
    BY <1>6 DEF DelRemapNil, DelRemapRace, DelSignalNil, FlowCrash, Crash, links
  <2>2. PoolDel' = PoolDel /\ PoolPanic' = PoolPanic
    BY <2>1 DEF PoolDel, PoolPanic, Closed
  <2> QED BY <2>1, <2>2 DEF PoolPart
<1> QED BY <1>1, <1>2, <1>3, <1>4, <1>5, <1>6 DEF DeleteStep

LEMMA StepPoolPart ==
  ASSUME FlowTyped, Next
  PROVE  PoolPart
<1>0. panic = "none"
  BY DEF Next
<1>1. ASSUME NEW e \in Elem, Register(e) PROVE PoolPart
  BY <1>1 DEF Register, PoolPart
<1>2. ASSUME NEW c \in Crc, Age(c) PROVE PoolPart
  BY <1>2 DEF Age, poolVars, links, PoolPart, PoolDel, PoolPanic, Closed
<1>3. ASSUME NEW m \in MonitorId, MonitorStep(m) PROVE PoolPart
  <2>1. /\ UNCHANGED <<elems, head, tail, curr, next, prev, order, del>>
        /\ panic' \notin {"nil cursor", "close of closed channel"}
    BY <1>0, <1>3 DEF MonitorStep, MonStop, MonExpire, MonDec, MonDecNil, MonDrop,
       MonNoMaps, FlowCrash, Crash, poolVars, links
  <2>2. PoolDel' = PoolDel /\ PoolPanic' = PoolPanic
    BY <1>0, <2>1 DEF PoolDel, PoolPanic, Closed
  <2> QED BY <2>1, <2>2 DEF PoolPart
<1>4. ASSUME NEW p \in Packet, PacketStep(p) PROVE PoolPart
  <2>1. CASE TakeNext(p)
    <3>1. /\ \E r \in Elem : NextElem(r)
          /\ UNCHANGED <<elems, panic, del>>
      BY <2>1 DEF TakeNext
    <3> QED BY <3>1 DEF PoolPart, PoolDel, Closed
  <2>2. CASE TakeNil(p)
    BY <2>2 DEF TakeNil, PoolPart
  <2>3. CASE ~TakeNext(p) /\ ~TakeNil(p)
    <3>1. /\ UNCHANGED <<elems, head, tail, curr, next, prev, order, del>>
          /\ panic' \notin {"nil cursor", "close of closed channel"}
      BY <1>0, <1>4, <2>3
      DEF PacketStep, NoRule, Lookup, Touch, Hit, HitNil, Miss, AddCrc, Install, Watch,
          WatchNil, Send, FlowCrash, Crash, poolVars, links
    <3>2. PoolDel' = PoolDel /\ PoolPanic' = PoolPanic
      BY <1>0, <3>1 DEF PoolDel, PoolPanic, Closed
    <3> QED BY <3>1, <3>2 DEF PoolPart
  <2> QED BY <2>1, <2>2, <2>3
<1>5. ASSUME NEW x \in Deletion, DeleteStep(x) PROVE PoolPart
  BY <1>0, <1>5, DeletePoolPart
<1> QED BY <1>1, <1>2, <1>3, <1>4, <1>5 DEF Next

(* The flow table uses its pool as ConnPool allows: every step of a packet,*)
(* a monitor, a registration or a Delete is one operation of the pool or   *)
(* does not touch it.                                                      *)
THEOREM FlowUsesPool == Spec => UsesPool
<1>1. Init => Pool!PoolInit
  BY DEF Init, PoolInit, Pool!PoolInit, Closed
<1>2. ASSUME FlowTyped, [Next]_vars
      PROVE  [Pool!PoolStep]_(Pool!poolVars)
  <2> USE <1>2
  <2>0. /\ DOMAIN del = Deletion
        /\ \A y \in Deletion : /\ Pool!Closed(y) <=> Closed(y)
                               /\ PoolDel[y] = IF Closed(y) THEN "closed" ELSE del[y]
    BY DEF FlowTyped, FlowTypeOK, CallTypeOK, Pool!Closed, Closed, PoolDel
  <2>s. \A e : Pool!Stopped(e) <=> Stopped(e)
    BY <2>0 DEF Pool!Stopped, Stopped
  <2>1. CASE UNCHANGED vars
    BY <2>1 DEF vars, poolVars, links, Pool!poolVars, Pool!links, Closed
  <2>2. CASE Next
    <3>0. panic = "none"
      BY <2>2 DEF Next
    <3>1. ASSUME NEW e \in Elem, Add(e) PROVE Pool!PoolStep
      <4>1. Pool!Add(e)
        BY <3>1
        DEF Add, AddFirst, AddLast, LinkLast, FirstCursor, Pool!Add, Pool!AddFirst,
           Pool!AddLast, Pool!LinkLast, Pool!FirstCursor, Closed
      <4> QED BY <3>0, <4>1 DEF Pool!PoolStep
    <3>2. ASSUME NEW r \in Elem, NextElem(r), UNCHANGED <<elems, panic>>, PoolDel' = PoolDel
          PROVE  Pool!PoolStep
      BY <3>0, <3>2 DEF NextElem, PoolDel, Pool!PoolStep, Pool!PoolServe, Pool!NextElem
    <3>3. ASSUME NEW x \in Deletion, Unlink(x) PROVE Pool!PoolStep
      <4>1. PoolDel' = [PoolDel EXCEPT ![x] = "unlinked"]
        BY <2>0, <3>3 DEF Unlink, MayDelete, PoolDel, Closed
      <4>2. Pool!MayDelete(x)
        BY <2>0, <3>3 DEF Unlink, MayDelete, Pool!MayDelete, Closed
      <4>3. Pool!UnlinkSole(x) \/ Pool!UnlinkInner(x)
        BY <3>3
        DEF Unlink, UnlinkSole, UnlinkInner, CursorOff, HeadOff, TailOff,
            Pool!UnlinkSole, Pool!UnlinkInner,
             Pool!CursorOff, Pool!HeadOff, Pool!TailOff
      <4>4. Pool!Unlink(x)
        BY <3>0, <3>3, <4>1, <4>2, <4>3
        DEF Unlink, Pool!Unlink, PoolDel, Without, Pool!Without
      <4> QED BY <3>0, <4>4 DEF Pool!PoolStep
    <3>4. ASSUME NEW x \in Deletion, AlreadyDeleted(x) PROVE Pool!PoolStep
      <4>1. PoolDel' = [PoolDel EXCEPT ![x] = "skipped"]
        BY <2>0, <3>4 DEF AlreadyDeleted, MayDelete, PoolDel, Closed
      <4>2. Pool!MayDelete(x)
        BY <2>0, <3>4 DEF AlreadyDeleted, MayDelete, Pool!MayDelete, Closed
      <4>3. Pool!AlreadyDeleted(x)
        BY <3>0, <3>4, <4>1, <4>2
        DEF AlreadyDeleted, Pool!AlreadyDeleted, PoolDel, links, Pool!links
      <4> QED BY <3>0, <4>3 DEF Pool!PoolStep
    <3>5. ASSUME NEW x \in Deletion, CloseStop(x) PROVE Pool!PoolStep
      <4>1. PoolDel' = [PoolDel EXCEPT ![x] = "closed"]
        BY <2>0, <3>5 DEF CloseStop, PoolDel, Closed
      <4>2. ~Pool!Stopped(x[1])
        BY <2>s, <3>5 DEF CloseStop
      <4>3. Pool!CloseStop(x)
        BY <3>0, <3>5, <4>1, <4>2 DEF CloseStop, Pool!CloseStop, PoolDel, Closed
      <4> QED BY <3>0, <4>3 DEF Pool!PoolStep
    <3>6. ASSUME NextNil, UNCHANGED <<elems, del>> PROVE Pool!PoolStep
      BY <3>0, <3>6
      DEF NextNil, Crash, links, Pool!PoolStep, Pool!NextNil, Pool!Crash, Pool!links,
          Closed
    <3>7. ASSUME NEW x \in Deletion, CloseAgain(x) PROVE Pool!PoolStep
      <4>1. Pool!Stopped(x[1])
        BY <2>s, <3>7 DEF CloseAgain
      <4>2. Pool!CloseAgain(x)
        BY <3>0, <3>7, <4>1
        DEF CloseAgain, Crash, links, Pool!CloseAgain, Pool!Crash, Pool!links, Closed
      <4> QED BY <3>0, <4>2 DEF Pool!PoolStep
    <3>8. ASSUME UNCHANGED <<elems, head, tail, curr, next, prev, order>>,
                 PoolDel' = PoolDel, PoolPanic' = PoolPanic
          PROVE  UNCHANGED Pool!poolVars
      BY <3>8 DEF Pool!poolVars, Pool!links, PoolDel, PoolPanic
    <3> QED BY <2>2, <3>1, <3>2, <3>3, <3>4, <3>5, <3>6, <3>7, <3>8, StepPoolPart
    DEF PoolPart
  <2> QED BY <2>1, <2>2
<1>3. Spec => []FlowTyped
  BY FlowTypeInit, FlowTypedStep, PTL DEF Spec
<1> QED BY <1>1, <1>2, <1>3, PTL DEF Spec, UsesPool, Pool!PoolSpec

-----------------------------------------------------------------------------
(* Only one call of Delete gets past close(stopChan): a second one panics. *)
OneCloser ==
  \A x, y \in Deletion : x[1] = y[1] /\ Closed(x) /\ Closed(y) => x = y

(* The pool inside the flow table.                                         *)
FlowRing == Begun /\ OneCloser /\ RingOK

(* What a step that leaves the pool's view of Delete alone keeps.          *)
LEMMA PoolDelKept ==
  ASSUME PoolDel' = PoolDel
  PROVE  /\ DeleteKept
         /\ \A x \in Deletion : del'[x] = "idle" <=> del[x] = "idle"
<1>1. \A x \in Deletion : (IF Closed(x) THEN "closed" ELSE del[x])'
                            = (IF Closed(x) THEN "closed" ELSE del[x])
  <2> TAKE x \in Deletion
  <2>1. PoolDel'[x] = PoolDel[x]
    OBVIOUS
  <2> QED BY <2>1 DEF PoolDel
<1> QED BY <1>1 DEF DeleteKept, Unlinked, Closed

(* Every step either is one of the three that advance a Delete on the      *)
(* list, or leaves the pool's view of it alone.                            *)
LEMMA PoolCalls ==
  ASSUME PoolPart
  PROVE  \/ PoolDel' = PoolDel
         \/ \E x \in Deletion : Unlink(x) \/ AlreadyDeleted(x) \/ CloseStop(x)
BY DEF PoolPart, Add, CloseAgain, PoolDel, Closed

LEMMA UnlinkedStays ==
  ASSUME FlowTyped, PoolPart, NEW x \in Deletion
  PROVE  /\ Unlinked(x) => Unlinked(x)'
         /\ Closed(x) => Closed(x)'
         /\ del[x] # "idle" => del'[x] # "idle"
<1>1. CASE PoolDel' = PoolDel
  BY <1>1, PoolDelKept DEF DeleteKept
<1>2. ASSUME NEW y \in Deletion, Unlink(y) \/ AlreadyDeleted(y) \/ CloseStop(y)
      PROVE  /\ Unlinked(x) => Unlinked(x)'
             /\ Closed(x) => Closed(x)'
             /\ del[x] # "idle" => del'[x] # "idle"
  <2>1. DOMAIN del = Deletion
    BY DEF FlowTyped, FlowTypeOK, CallTypeOK
  <2> QED BY <1>2, <2>1 DEF Unlink, AlreadyDeleted, CloseStop, MayDelete, Unlinked, Closed
<1> QED BY <1>1, <1>2, PoolCalls

LEMMA FlowRingStep ==
  ASSUME FlowTyped, FlowRing, PoolPart
  PROVE  FlowRing'
<1> USE DEF FlowRing
<1>0. ListTypeOK /\ DOMAIN del = Deletion
  BY DEF FlowTyped, FlowTypeOK, ListTypeOK
<1>1. Begun'
  <2>1. CASE PoolDel' = PoolDel
    <3>1. elems \subseteq elems'
      BY DEF PoolPart, Add, Unlink, AlreadyDeleted, CloseStop, CloseAgain
    <3> QED BY <2>1, <3>1, PoolDelKept DEF Begun
  <2>2. ASSUME NEW x \in Deletion, Unlink(x) \/ AlreadyDeleted(x) \/ CloseStop(x)
        PROVE  Begun'
    BY <1>0, <2>2 DEF Begun, Unlink, AlreadyDeleted, CloseStop, MayDelete
  <2> QED BY <2>1, <2>2, PoolCalls
<1>2. OneCloser'
  <2>1. CASE PoolDel' = PoolDel
    BY <2>1, PoolDelKept DEF OneCloser, DeleteKept
  <2>2. ASSUME NEW z \in Deletion, Unlink(z) \/ AlreadyDeleted(z) \/ CloseStop(z)
        PROVE  OneCloser'
    BY <1>0, <2>2
    DEF OneCloser, Closed, Unlink, AlreadyDeleted, CloseStop, MayDelete, Stopped
  <2> QED BY <2>1, <2>2, PoolCalls
<1>3. RingOK'
  <2>1. CASE DoubleUnlink'
    BY <2>1 DEF RingOK
  <2>2. CASE ~DoubleUnlink'
    <3>0. ~DoubleUnlink
      BY <2>2, UnlinkedStays DEF DoubleUnlink
    <3>1. Circle /\ Anchored /\ Detached
      BY <3>0 DEF RingOK
    <3>2. ASSUME NEW e \in Elem, Add(e) PROVE RingOK'
      BY <1>0, <3>1, <3>2, AddKeepsRing DEF RingOK
    <3>3. ASSUME NEW r \in Elem, NextElem(r), UNCHANGED elems, PoolDel' = PoolDel
          PROVE  RingOK'
      BY <1>0, <3>1, <3>3, NextKeepsRing, PoolDelKept DEF RingOK
    <3>4. ASSUME NEW x \in Deletion, Unlink(x) PROVE RingOK'
      BY <1>0, <2>2, <3>1, <3>4, UnlinkKeepsRing DEF RingOK
    <3>5. ASSUME NEW x \in Deletion, AlreadyDeleted(x) PROVE RingOK'
      BY <1>0, <3>1, <3>5, EarlyReturnKeepsRing DEF RingOK
    <3>6. ASSUME NEW x \in Deletion, CloseStop(x) PROVE RingOK'
      BY <1>0, <3>1, <3>6, CloseKeepsRing DEF RingOK
    <3>7. ASSUME UNCHANGED <<elems, head, tail, curr, next, prev, order>>,
                 PoolDel' = PoolDel
          PROVE  RingOK'
      BY <3>1, <3>7, FrameRing, PoolDelKept DEF RingOK
    <3>8. ASSUME UNCHANGED <<elems, links, del>> PROVE RingOK'
      BY <3>7, <3>8 DEF links, PoolDel, Closed
    <3> QED BY <3>2, <3>3, <3>4, <3>5, <3>6, <3>7, <3>8
    DEF PoolPart, NextNil, CloseAgain
  <2> QED BY <2>1, <2>2
<1> QED BY <1>1, <1>2, <1>3

LEMMA FlowRingInit == Init => FlowRing
<1> SUFFICES ASSUME Init PROVE FlowRing
  OBVIOUS
<1>1. Begun /\ OneCloser
  BY DEF Init, PoolInit, Begun, OneCloser, Closed
<1>2. Len(order) = 0 /\ Linked = {}
  BY EmptyList DEF Init, PoolInit, Linked
<1>3. Circle /\ Anchored /\ Detached
  BY <1>2 DEF Init, PoolInit, Circle, Anchored, Detached
<1> QED BY <1>1, <1>3 DEF FlowRing, RingOK

LEMMA FlowRingStutter ==
  ASSUME FlowRing, UNCHANGED vars
  PROVE  FlowRing'
<1>1. UNCHANGED <<elems, head, tail, curr, next, prev, order, del>>
  BY DEF vars, poolVars, links
<1>2. Begun' /\ OneCloser' /\ (DoubleUnlink' <=> DoubleUnlink)
  BY <1>1 DEF FlowRing, Begun, OneCloser, DoubleUnlink, Closed, Unlinked
<1>3. RingOK'
  BY <1>1, <1>2, FrameRing DEF FlowRing, RingOK, DeleteKept, Unlinked, Closed
<1> QED BY <1>2, <1>3 DEF FlowRing

(* The invariants that every later result rests on.                        *)
FlowBase == FlowTyped /\ FlowRing

LEMMA FlowBaseInvariant == Spec => []FlowBase
<1>1. Init => FlowBase
  BY FlowTypeInit, FlowRingInit DEF FlowBase
<1>2. ASSUME FlowBase, [Next]_vars PROVE FlowBase'
  <2>1. FlowTyped'
    BY <1>2, FlowTypedStep DEF FlowBase
  <2>2. CASE Next
    BY <1>2, <2>1, <2>2, StepPoolPart, FlowRingStep DEF FlowBase
  <2>3. CASE UNCHANGED vars
    BY <1>2, <2>1, <2>3, FlowRingStutter DEF FlowBase
  <2> QED BY <1>2, <2>2, <2>3
<1> QED BY <1>1, <1>2, PTL DEF Spec

-----------------------------------------------------------------------------
(* Only a packet's own handler moves it; the flow of a packet never changes*)
LEMMA PacketsKept ==
  ASSUME FlowTyped, Next
  PROVE  /\ (\E p \in Packet : PacketStep(p)) \/ UNCHANGED <<pc, seen, cpe>>
         /\ crc' = crc
<1>1. ASSUME NEW p \in Packet, PacketStep(p) PROVE crc' = crc
  BY <1>1, PacketFrame
<1>2. ASSUME NEW e \in Elem, Register(e) PROVE UNCHANGED <<pc, seen, cpe, crc>>
  BY <1>2 DEF Register, pktVars
<1>3. ASSUME NEW c \in Crc, Age(c) PROVE UNCHANGED <<pc, seen, cpe, crc>>
  BY <1>3 DEF Age, pktVars
<1>4. ASSUME NEW m \in MonitorId, MonitorStep(m) PROVE UNCHANGED <<pc, seen, cpe, crc>>
  BY <1>4, MonitorFrame
<1>5. ASSUME NEW x \in Deletion, DeleteStep(x) PROVE UNCHANGED <<pc, seen, cpe, crc>>
  BY <1>5, DeleteFrame
<1> QED BY <1>1, <1>2, <1>3, <1>4, <1>5 DEF Next

=============================================================================
