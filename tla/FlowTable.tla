----------------------------- MODULE FlowTable ------------------------------
(***************************************************************************)
(* Crc2ConnMap of utils/rulemap.go composed with its ConnPool: how a       *)
(* packet's flow (the CRC of its addresses and ports) is bound to a        *)
(* container, how idle flows expire, and how Delete moves the flows of a   *)
(* container that goes away to another one.                                *)
(*                                                                         *)
(* Goroutines: one per packet (Get, called from the UDP handler), one per  *)
(* binding that watches for its expiry (spawned by Get and by Delete), and *)
(* the calls of Delete (lease timer, scale-down).  Each critical section   *)
(* of c2cm.mu, cp.mu and Container.Mu is one action, and so is each access *)
(* the code makes outside of them.                                         *)
(***************************************************************************)
EXTENDS ConnPool, FiniteSets

CONSTANTS
  Crc,        \* the flows
  Packet,     \* the packets, one handler goroutine each
  MaxFluxes,  \* Container.MaxFluxes
  Absent,     \* a map has no entry for the key
  DialResult  \* what UDPConnFactory may return: TRUE a connection, FALSE nil

ASSUME FlowAssumption ==
  /\ MaxFluxes \in -128..127
  /\ Absent \notin Elem /\ Absent # Nil
  /\ DialResult \subseteq BOOLEAN
  /\ Packet \cap (Elem \X Crc) = {}

VARIABLES
  conn,          \* ce.conn: the element itself stands for its connection
  container,     \* ce.container, likewise
  c2m,           \* ce.crc2ConnMap is not nil
  ports,         \* ce.ports
  fluxes,        \* Fluxes of each container, an int8
  crc2conn,      \* Crc2ConnMap.crc2conn
  crcContainer,  \* Crc2ConnMap.crcContainer
  crc2lock,      \* the CRCs with an entry in Crc2ConnMap.crc2lock
  usage,         \* age of the CRC's entry in crcFluxUsageMap
  pc,            \* where each packet's handler is
  crc,           \* Get's parameter
  seen,          \* Get's val, container and lock
  cpe,           \* Get's cpe
  rce,           \* Delete's rCe
  monitor        \* the goroutines that wait for a binding to expire

elemVars == <<conn, container, c2m>>
mapVars == <<crc2conn, crcContainer, crc2lock>>
pktVars == <<pc, crc, seen, cpe>>
flowVars == <<elemVars, ports, fluxes, mapVars, usage, pktVars, rce, monitor>>
vars == <<poolVars, flowVars>>

-----------------------------------------------------------------------------
(* A monitor is known by the packet whose Get spawned it, or by the deleted*)
(* element and the CRC for which Delete spawned it.                        *)
MonitorId == Packet \cup (Elem \X Crc)

MonElem(m) == IF m \in Packet THEN cpe[m] ELSE rce[m[1]]

MonCrc(m) == IF m \in Packet THEN crc[m] ELSE m[2]

(* Mutants: an unsigned counter; the last flux is never taken off; Get     *)
(* makes no semaphore; the monitors of Delete see no old time stamp; Delete*)
(* clears the cursor, spawns no monitors, moves no flows.                  *)
UInt8(n) == (n + 128) % 256
DecFluxesKeepsLast(n) == IF n > 1 THEN n - 1 ELSE n
NoNewLock(c) == crc2lock
OldByGetOnly(m) == m \in Packet /\ usage[MonCrc(m)] = "stale"
ReplacementReset(r) ==
  r = curr /\ curr' = Nil /\ UNCHANGED <<head, tail, next, prev, order>>
SpawnNone(e) == monitor
MoveNone(e) == ports

(* The value of n as an int8.                                              *)
Int8(n) == ((n + 128) % 256) - 128

IncFluxes(n, k) == Int8(n + k)

DecFluxes(n) == IF n > 1 THEN n - 1 ELSE 0

NotSeen == [conn |-> Absent, container |-> Absent, lock |-> FALSE]

Init ==
  /\ PoolInit
  /\ conn = [e \in Elem |-> Nil]
  /\ container = [e \in Elem |-> e]
  /\ c2m = [e \in Elem |-> TRUE]
  /\ ports = [e \in Elem |-> {}]
  /\ fluxes = [e \in Elem |-> 0]
  /\ crc2conn = [c \in Crc |-> Absent]
  /\ crcContainer = [c \in Crc |-> Absent]
  /\ crc2lock = {}
  /\ usage = [c \in Crc |-> "never"]
  /\ pc = [p \in Packet |-> "new"]
  /\ crc \in [Packet -> Crc]
  /\ seen = [p \in Packet |-> NotSeen]
  /\ cpe = [p \in Packet |-> Nil]
  /\ rce = [e \in Elem |-> Nil]
  /\ monitor = [m \in MonitorId |-> "none"]

(* The process dies; nothing else happens.                                 *)
FlowCrash(cause) ==
  /\ Crash(cause)
  /\ UNCHANGED <<elems, links, del, flowVars>>

Goto(p, l) == pc' = [pc EXCEPT ![p] = l]

-----------------------------------------------------------------------------
(* addEntryToChan: dial the container, then Add.                           *)
Register(e) ==
  /\ Add(e)
  /\ \E ok \in DialResult : conn' = [conn EXCEPT ![e] = IF ok THEN e ELSE Nil]
  /\ UNCHANGED <<container, c2m, ports, fluxes, mapVars, usage, pktVars, rce>>
  /\ UNCHANGED <<monitor>>

-----------------------------------------------------------------------------
(* A packet that matches no rule: GetChan returns nil, it is dropped.      *)
NoRule(p) ==
  /\ pc[p] = "new"
  /\ Goto(p, "done")
  /\ UNCHANGED <<poolVars, elemVars, ports, fluxes, mapVars, usage, crc>>
  /\ UNCHANGED <<seen, cpe, rce, monitor>>

(* Get, under the read lock: look the flow up in the three maps.           *)
Lookup(p) ==
  /\ pc[p] = "new"
  /\ Goto(p, "touch")
  /\ seen' = [seen EXCEPT ![p] = [conn      |-> crc2conn[crc[p]],
                                  container |-> crcContainer[crc[p]],
                                  lock      |-> crc[p] \in crc2lock]]
  /\ UNCHANGED <<poolVars, elemVars, ports, fluxes, mapVars, usage, crc, cpe>>
  /\ UNCHANGED <<rce, monitor>>

(* Get, under the write lock: refresh the flow's time stamp.               *)
Touch(p) ==
  /\ pc[p] = "touch"
  /\ Goto(p, "test")
  /\ usage' = [usage EXCEPT ![crc[p]] = "fresh"]
  /\ UNCHANGED <<poolVars, elemVars, ports, fluxes, mapVars, crc, seen, cpe>>
  /\ UNCHANGED <<rce, monitor>>

(* Get: a binding was found and its container's load permits to use it.    *)
Bound(p) == seen[p].conn # Absent /\ seen[p].container # Absent

Hit(p) ==
  /\ pc[p] = "test" /\ Bound(p)
  /\ seen[p].container # Nil
  /\ fluxes[seen[p].container] <= MaxFluxes
  /\ Goto(p, "send")
  /\ UNCHANGED <<poolVars, elemVars, ports, fluxes, mapVars, usage, crc>>
  /\ UNCHANGED <<seen, cpe, rce, monitor>>

(* Get: container.GetFluxes() on a nil container.                          *)
HitNil(p) ==
  /\ pc[p] = "test" /\ Bound(p)
  /\ seen[p].container = Nil
  /\ FlowCrash("nil container")

Miss(p) ==
  /\ pc[p] = "test"
  /\ Bound(p) => /\ seen[p].container # Nil
                 /\ fluxes[seen[p].container] > MaxFluxes
  /\ Goto(p, "next")
  /\ seen' = [seen EXCEPT ![p] = NotSeen]
  /\ UNCHANGED <<poolVars, elemVars, ports, fluxes, mapVars, usage, crc, cpe>>
  /\ UNCHANGED <<rce, monitor>>

(* Get: cpe := c2cm.connPool.Next().                                       *)
TakeNext(p) ==
  /\ pc[p] = "next"
  /\ \E r \in Elem : NextElem(r) /\ cpe' = [cpe EXCEPT ![p] = r]
  /\ Goto(p, "addcrc")
  /\ UNCHANGED <<elems, del, panic, elemVars, ports, fluxes, mapVars, usage>>
  /\ UNCHANGED <<crc, seen, rce, monitor>>

TakeNil(p) ==
  /\ pc[p] = "next"
  /\ NextNil
  /\ UNCHANGED <<elems, del, flowVars>>

(* Get: cpe.AddCrc(crc).                                                   *)
AddCrc(p) ==
  /\ pc[p] = "addcrc"
  /\ ports' = [ports EXCEPT ![cpe[p]] = @ \cup {crc[p]}]
  /\ Goto(p, "install")
  /\ UNCHANGED <<poolVars, elemVars, fluxes, mapVars, usage, crc, seen, cpe>>
  /\ UNCHANGED <<rce, monitor>>

NewLock(c) == crc2lock \cup {c}

(* Get, under the write lock: bind the flow to the element's connection    *)
(* and container as they are now.                                          *)
Install(p) ==
  /\ pc[p] = "install"
  /\ crc2conn' = [crc2conn EXCEPT ![crc[p]] = conn[cpe[p]]]
  /\ crcContainer' = [crcContainer EXCEPT ![crc[p]] = container[cpe[p]]]
  /\ crc2lock' = NewLock(crc[p])
  /\ Goto(p, "watch")
  /\ UNCHANGED <<poolVars, elemVars, ports, fluxes, usage, crc, seen, cpe>>
  /\ UNCHANGED <<rce, monitor>>

(* Get: cpe.container.IncFluxes(), spawn the monitor, return the conn.     *)
Watch(p) ==
  /\ pc[p] = "watch"
  /\ container[cpe[p]] # Nil
  /\ fluxes' = [fluxes EXCEPT ![cpe[p]] = IncFluxes(@, 1)]
  /\ monitor' = [monitor EXCEPT ![p] = "wait"]
  /\ seen' = [seen EXCEPT ![p].conn = conn[cpe[p]], ![p].lock = TRUE]
  /\ Goto(p, "send")
  /\ UNCHANGED <<poolVars, elemVars, ports, mapVars, usage, crc, cpe, rce>>

WatchNil(p) ==
  /\ pc[p] = "watch"
  /\ container[cpe[p]] = Nil
  /\ FlowCrash("nil container")

(* The UDP handler: drop the packet when there is no connection, else take *)
(* the flow's semaphore and send.                                          *)
Send(p) ==
  /\ pc[p] = "send"
  /\ Goto(p, "done")
  /\ seen' = [seen EXCEPT ![p] = NotSeen]
  /\ UNCHANGED <<poolVars, elemVars, ports, fluxes, mapVars, usage, crc, cpe>>
  /\ UNCHANGED <<rce, monitor>>

PacketStep(p) ==
  \/ NoRule(p) \/ Lookup(p) \/ Touch(p) \/ Hit(p) \/ HitNil(p) \/ Miss(p)
  \/ TakeNext(p) \/ TakeNil(p) \/ AddCrc(p) \/ Install(p) \/ Watch(p)
  \/ WatchNil(p) \/ Send(p)

-----------------------------------------------------------------------------
(* fluxMaxAge passes without a packet of the flow.                         *)
Age(c) ==
  /\ usage[c] = "fresh"
  /\ usage' = [usage EXCEPT ![c] = "stale"]
  /\ UNCHANGED <<poolVars, elemVars, ports, fluxes, mapVars, pktVars, rce>>
  /\ UNCHANGED <<monitor>>

(* A monitor spawned by Delete reaches the maps through ce.crc2ConnMap of  *)
(* the deleted element.                                                    *)
MapsGone(m) == m \notin Packet /\ ~c2m[m[1]]

(* The element's stopChan is closed: return.                               *)
MonStop(m) ==
  /\ monitor[m] = "wait"
  /\ Stopped(MonElem(m))
  /\ monitor' = [monitor EXCEPT ![m] = "none"]
  /\ UNCHANGED <<poolVars, elemVars, ports, fluxes, mapVars, usage, pktVars>>
  /\ UNCHANGED <<rce>>

TooOld(m) == usage[MonCrc(m)] = "stale"

(* A tick, under the read lock, that finds the time stamp too old.         *)
MonExpire(m) ==
  /\ monitor[m] = "wait"
  /\ ~MapsGone(m)
  /\ TooOld(m)
  /\ monitor' = [monitor EXCEPT ![m] = "dec"]
  /\ UNCHANGED <<poolVars, elemVars, ports, fluxes, mapVars, usage, pktVars>>
  /\ UNCHANGED <<rce>>

(* DecFluxes on the container of the element.                              *)
MonDec(m) ==
  /\ monitor[m] = "dec"
  /\ container[MonElem(m)] # Nil
  /\ fluxes' = [fluxes EXCEPT ![MonElem(m)] = DecFluxes(@)]
  /\ monitor' = [monitor EXCEPT ![m] = "drop"]
  /\ UNCHANGED <<poolVars, elemVars, ports, mapVars, usage, pktVars, rce>>

MonDecNil(m) ==
  /\ monitor[m] = "dec"
  /\ container[MonElem(m)] = Nil
  /\ FlowCrash("nil container")

(* Under the write lock: remove the binding.  A monitor spawned by Delete  *)
(* leaves crcContainer alone.                                              *)
MonDrop(m) ==
  /\ monitor[m] = "drop"
  /\ ~MapsGone(m)
  /\ crc2conn' = [crc2conn EXCEPT ![MonCrc(m)] = Absent]
  /\ crcContainer' = IF m \in Packet
                       THEN [crcContainer EXCEPT ![MonCrc(m)] = Absent]
                       ELSE crcContainer
  /\ monitor' = [monitor EXCEPT ![m] = "none"]
  /\ UNCHANGED <<poolVars, elemVars, ports, fluxes, crc2lock, usage, pktVars>>
  /\ UNCHANGED <<rce>>

(* A tick or the removal, with ce.crc2ConnMap nil.                         *)
MonNoMaps(m) ==
  /\ monitor[m] \in {"wait", "drop"}
  /\ MapsGone(m)
  /\ FlowCrash("nil map")

MonitorStep(m) ==
  \/ MonStop(m) \/ MonExpire(m) \/ MonDec(m) \/ MonDecNil(m) \/ MonDrop(m)
  \/ MonNoMaps(m)

-----------------------------------------------------------------------------
Advance(x, l) == del' = [del EXCEPT ![x] = l]

(* The two critical sections of Delete on the list; see ConnPool.          *)
DelUnlink(x) ==
  /\ Unlink(x) \/ CloseStop(x) \/ CloseAgain(x)
  /\ UNCHANGED flowVars

(* Delete on an element deleted before forgets what the element held.      *)
DelSkip(x) ==
  LET e == x[1] IN
  /\ AlreadyDeleted(x)
  /\ conn' = [conn EXCEPT ![e] = Nil]
  /\ container' = [container EXCEPT ![e] = Nil]
  /\ c2m' = [c2m EXCEPT ![e] = FALSE]
  /\ UNCHANGED <<ports, fluxes, mapVars, usage, pktVars, rce, monitor>>

(* Delete: has the element ever been given a flow?                         *)
DelCheck(x) ==
  /\ del[x] = "closed"
  /\ Advance(x, IF ports[x[1]] = {} THEN "bye" ELSE "replace")
  /\ UNCHANGED <<elems, links, panic, flowVars>>

(* sendTerminationSignal(ce.conn, ce.container.Addr) panics when either is *)
(* nil.                                                                    *)
CanSignal(e) == conn[e] # Nil /\ container[e] # Nil

(* Delete of an element without flows: terminate, forget the container.    *)
DelBye(x) ==
  LET e == x[1] IN
  /\ del[x] = "bye" /\ CanSignal(e)
  /\ container' = [container EXCEPT ![e] = Nil]
  /\ Advance(x, "done")
  /\ UNCHANGED <<elems, links, panic, conn, c2m, ports, fluxes, mapVars>>
  /\ UNCHANGED <<usage, pktVars, rce, monitor>>

(* Delete: rCe := ce.connPool.Next().                                      *)
Replacement(r) == NextElem(r)

DelReplace(x) ==
  /\ del[x] = "replace"
  /\ \E r \in Elem : Replacement(r) /\ rce' = [rce EXCEPT ![x[1]] = r]
  /\ Advance(x, "remap")
  /\ UNCHANGED <<elems, panic, elemVars, ports, fluxes, mapVars, usage>>
  /\ UNCHANGED <<pktVars, monitor>>

DelReplaceNil(x) ==
  /\ del[x] = "replace"
  /\ NextNil
  /\ UNCHANGED <<elems, del, flowVars>>

Spawn(e) ==
  [m \in MonitorId |-> IF m \in {e} \X ports[e] THEN "wait" ELSE monitor[m]]

(* Delete, under the write lock of the maps: every flow the element was    *)
(* ever given is bound to rCe's connection, counted, and watched.          *)
DelRemap(x) ==
  LET e == x[1]
      r == rce[e] IN
  /\ del[x] = "remap" /\ c2m[e] /\ container[r] # Nil
  /\ crc2conn' = [c \in Crc |-> IF c \in ports[e] THEN conn[r] ELSE crc2conn[c]]
  /\ fluxes' = [fluxes EXCEPT ![r] = IncFluxes(@, Cardinality(ports[e]))]
  /\ monitor' = Spawn(e)
  /\ Advance(x, "move")
  /\ UNCHANGED <<elems, links, panic, elemVars, ports, crcContainer>>
  /\ UNCHANGED <<crc2lock, usage, pktVars, rce>>

DelRemapNil(x) ==
  LET e == x[1] IN
  /\ del[x] = "remap"
  /\ ~c2m[e] \/ container[rce[e]] = Nil
  /\ FlowCrash(IF c2m[e] THEN "nil container" ELSE "nil map")

(* The loop above reads ce.ports without its lock: AddCrc, or the loop     *)
(* below of another Delete, may write the map meanwhile.                   *)
PortsWritten(e) ==
  \/ \E p \in Packet : pc[p] = "addcrc" /\ cpe[p] = e
  \/ \E y \in Deletion : del[y] = "move" /\ rce[y[1]] = e /\ y[1] # e

DelRemapRace(x) ==
  /\ del[x] = "remap" /\ PortsWritten(x[1])
  /\ FlowCrash("concurrent map access")

MovePorts(e) == [ports EXCEPT ![rce[e]] = @ \cup ports[e]]

(* Delete, under the pool's lock: rCe takes over the set of flows.         *)
DelMove(x) ==
  /\ del[x] = "move"
  /\ ports' = MovePorts(x[1])
  /\ Advance(x, "term")
  /\ UNCHANGED <<elems, links, panic, elemVars, fluxes, mapVars, usage>>
  /\ UNCHANGED <<pktVars, rce, monitor>>

(* Delete: terminate the container.                                        *)
DelTerm(x) ==
  /\ del[x] = "term" /\ CanSignal(x[1])
  /\ Advance(x, "done")
  /\ UNCHANGED <<elems, links, panic, flowVars>>

DelSignalNil(x) ==
  /\ del[x] \in {"bye", "term"} /\ ~CanSignal(x[1])
  /\ FlowCrash(IF container[x[1]] = Nil THEN "nil container" ELSE "nil conn")

DeleteStep(x) ==
  \/ DelUnlink(x) \/ DelSkip(x) \/ DelCheck(x) \/ DelBye(x) \/ DelReplace(x)
  \/ DelReplaceNil(x) \/ DelRemap(x) \/ DelRemapNil(x) \/ DelRemapRace(x)
  \/ DelMove(x) \/ DelTerm(x) \/ DelSignalNil(x)

-----------------------------------------------------------------------------
Next ==
  /\ panic = "none"
  /\ \/ \E e \in Elem : Register(e)
     \/ \E p \in Packet : PacketStep(p)
     \/ \E c \in Crc : Age(c)
     \/ \E m \in MonitorId : MonitorStep(m)
     \/ \E x \in Deletion : DeleteStep(x)

Spec == Init /\ [][Next]_vars

-----------------------------------------------------------------------------
DelStates == {"idle", "skipped", "unlinked", "closed", "bye", "replace",
              "remap", "move", "term", "done"}

Panics == {"none", "nil cursor", "close of closed channel", "nil container",
           "nil map", "nil conn", "concurrent map access"}

Seen == [conn : Pointer \cup {Absent}, container : Pointer \cup {Absent},
         lock : BOOLEAN]

(* Type invariant of the flow table.                                       *)
TypeOK ==
  /\ elems \in SUBSET Elem
  /\ head \in Pointer /\ tail \in Pointer /\ curr \in Pointer
  /\ next \in [Elem -> Pointer] /\ prev \in [Elem -> Pointer]
  /\ del \in [Deletion -> DelStates]
  /\ panic \in Panics
  /\ order \in Seq(Elem)
  /\ conn \in [Elem -> Pointer] /\ container \in [Elem -> Pointer]
  /\ c2m \in [Elem -> BOOLEAN]
  /\ ports \in [Elem -> SUBSET Crc]
  /\ fluxes \in [Elem -> -128..127]
  /\ crc2conn \in [Crc -> Pointer \cup {Absent}]
  /\ crcContainer \in [Crc -> Pointer \cup {Absent}]
  /\ crc2lock \in SUBSET Crc
  /\ usage \in [Crc -> {"never", "fresh", "stale"}]
  /\ pc \in [Packet -> {"new", "touch", "test", "next", "addcrc", "install",
                        "watch", "send", "done"}]
  /\ crc \in [Packet -> Crc]
  /\ seen \in [Packet -> Seen]
  /\ cpe \in [Packet -> Pointer]
  /\ rce \in [Elem -> Pointer]
  /\ monitor \in [MonitorId -> {"none", "wait", "dec", "drop"}]

(* The flow table uses its pool as ConnPool allows: what is shown of the   *)
(* list there holds here.  A panic outside the pool is not the pool's.     *)
Pool == INSTANCE ConnPool
          WITH del <- [x \in Deletion |->
                         IF Closed(x) THEN "closed" ELSE del[x]],
               panic <- IF panic \in {"nil cursor", "close of closed channel"}
                          THEN panic ELSE "none"

UsesPool == Pool!PoolSpec

(* Every flow bound to an element is in the element's ports, so that its   *)
(* Delete moves it; between its two loops, a Delete accounts for it.       *)
RoutesTracked ==
  \A c \in Crc, e \in Elem :
    crc2conn[c] = e =>
      \/ c \in ports[e]
      \/ \E y \in Deletion :
           del[y] = "move" /\ rce[y[1]] = e /\ c \in ports[y[1]]

(* Every flow bound to a container in service is watched by a monitor of   *)
(* that very binding, or the handler that bound it is about to spawn it:   *)
(* no binding to a live container is forgotten by the expiry.              *)
RoutesWatched ==
  \A c \in Crc, e \in Elem :
    crc2conn[c] = e /\ ~Stopped(e) =>
      \/ \E m \in MonitorId :
           monitor[m] # "none" /\ MonCrc(m) = c /\ MonElem(m) = e
      \/ \E p \in Packet : pc[p] = "watch" /\ crc[p] = c /\ cpe[p] = e

(* The monitors that still have to decrement e's counter.                  *)
Counted(e) ==
  {m \in MonitorId : monitor[m] \in {"wait", "dec"} /\ MonElem(m) = e}

(* Fluxes of a container in service, which decides on scaling and on the   *)
(* reuse of bindings, is the number of bindings that are being watched:    *)
(* over all the races of Get, expiry and Delete none is lost or counted    *)
(* twice.                                                                  *)
FluxesExact ==
  \A e \in elems : ~Stopped(e) => fluxes[e] = Cardinality(Counted(e))

(* The UDP handler never calls Acquire on a nil semaphore.                 *)
SendersHaveLock ==
  \A p \in Packet : pc[p] = "send" /\ seen[p].conn # Nil => seen[p].lock

(* Two calls of Delete on one element, both begun.                         *)
DeletedTwice ==
  \E x, y \in Deletion :
    x # y /\ x[1] = y[1] /\ del[x] # "idle" /\ del[y] # "idle"

(* A handler, a monitor or a Delete still works with an element whose      *)
(* stopChan is closed.                                                     *)
HoldsStopped ==
  \/ \E p \in Packet : pc[p] \in {"addcrc", "watch"} /\ Stopped(cpe[p])
  \/ \E m \in MonitorId : monitor[m] = "dec" /\ Stopped(MonElem(m))
  \/ \E x \in Deletion : del[x] \in {"remap", "move"} /\ Stopped(rce[x[1]])

(* A panic has one of four causes: the pool is empty, a container was      *)
(* deleted twice, a dial failed, or a goroutine picked an element with     *)
(* Next and still uses it after its Delete.                                *)
PanicsExplained ==
  /\ panic = "nil cursor" => order = <<>> \/ DoubleUnlink
  /\ panic = "close of closed channel" => DoubleUnlink
  /\ panic = "nil map" => DeletedTwice
  /\ panic = "nil conn" => DeletedTwice \/ DialResult # {TRUE}
  /\ panic = "nil container" => DeletedTwice \/ HoldsStopped
  /\ panic = "concurrent map access" => HoldsStopped

-----------------------------------------------------------------------------
(* The Go scheduler runs every goroutine that can run, tickers keep        *)
(* ticking, and time passes.                                               *)
LiveSpec ==
  /\ Spec
  /\ \A p \in Packet : WF_vars(panic = "none" /\ PacketStep(p))
  /\ \A m \in MonitorId : WF_vars(panic = "none" /\ MonitorStep(m))
  /\ \A x \in Deletion :
       WF_vars(panic = "none" /\ del[x] # "idle" /\ DeleteStep(x))
  /\ \A c \in Crc : WF_vars(panic = "none" /\ Age(c))

(* A flow that is bound to a container in service and has gone idle loses  *)
(* its binding, unless a packet revives it or the container is deleted.    *)
IdleFlowExpires ==
  \A c \in Crc, e \in Elem :
    (crc2conn[c] = e /\ ~Stopped(e) /\ usage[c] = "stale")
      ~> \/ crc2conn[c] # e \/ Stopped(e) \/ usage[c] = "fresh"
         \/ panic # "none"

(* When no more packets come, the load of every container in service goes  *)
(* back to zero and stays there, so that the scale-down can see it.        *)
LoadDrains ==
  <>[](panic # "none" \/ \A e \in elems : Stopped(e) \/ fluxes[e] = 0)

-----------------------------------------------------------------------------
(* What the repository says, and the code does not do.                     *)

(* Delete's comments: the node takes no new fluxes, and its connections    *)
(* are reallocated.  So once Delete has replaced the element by another    *)
(* and returned, no flow is bound to it.                                   *)
NoRouteToDeleted ==
  \A x \in Deletion :
    del[x] = "done" /\ rce[x[1]] \notin {x[1], Nil}
      => \A c \in Crc : crc2conn[c] # x[1]

(* Delete's comment: no decrement after the container has been deleted.    *)
NoDecAfterDelete ==
  [][\A e \in Elem : Stopped(e) => fluxes'[e] >= fluxes[e]]_vars

=============================================================================
