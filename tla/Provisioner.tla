----------------------------- MODULE Provisioner ----------------------------
(***************************************************************************)
(* cnt/provisioner.go with the registration of cnt/handler.go: how         *)
(* functions are created, register as containers, and are taken away by    *)
(* their lease timer or by the scale-down.                                 *)
(*                                                                         *)
(* Goroutines: HandleScaling (the scaler), the loop of InstantiateFunctions*)
(* (the main loop), the one that keeps Min replicas running, one           *)
(* startDropFunction per Instance (the worker), one addEntryToChan per     *)
(* registration, which ends in the container's lease timer.  Time is       *)
(* abstract: a ticker or a timer may fire whenever its goroutine waits.    *)
(*                                                                         *)
(* The main loop holds cep.mu for reading during a whole scale-down and    *)
(* sends on decChan meanwhile; every other section of cep.mu is one action.*)
(* A goroutine that is about to take cep.mu for writing has called Lock.   *)
(* Delete is modelled as in ConnPool by its two critical sections, without *)
(* the list.                                                               *)
(***************************************************************************)
EXTENDS ScalingDelta, Sequences, FiniteSets

CONSTANTS
  Cnt,    \* the cntIds rand.Intn returns, each once
  Inst,   \* the Instances that may be allocated
  Asker,  \* who draws each cntId: an Instance, or "min" for the replicas
  Leased, \* the containers whose lease ends during the behaviour
  Fluxes, \* the values of the containers' counters, as int8
  Nil     \* nil, or nothing

ASSUME ProvisionerAssumption ==
  /\ Asker \in [Cnt -> Inst \cup {"min"}]
  /\ "min" \notin Inst /\ Leased \subseteq Cnt /\ Fluxes \subseteq -128..127
  /\ Nil \notin Cnt \cup Inst \cup Int \cup {"min"}

VARIABLES
  reg,      \* where each container's registration or lease timer is
  list,     \* the containers in cntLst
  c2p,      \* cep.c2p; the replicas' Instance is "min"
  c2e,      \* the keys of cep.c2e
  del,      \* how far each call of Delete has come
  cleared,  \* the containers whose element has a nil container
  offer,    \* the delta the scaler is sending, or Nil
  main,     \* the main loop: [pc, delta, todo, cnt]
  keeper,   \* the replica that is being created, or Nil
  worker,   \* each Instance: [pc, size, made, cnt, known, ids, chan, cap]
  panic     \* the run-time panic that ended the process, or "none"

cepVars == <<c2p, c2e>>
delVars == <<del, cleared>>
scaleVars == <<offer, main>>
vars == <<reg, list, cepVars, delVars, scaleVars, keeper, worker, panic>>

Deletion == Cnt \X {"lease", "scale"}

(* stopChan of the container's element is closed, its prev is nil.         *)
Dead(c) == \E x \in Deletion : x[1] = c /\ del[x] \in {"closed", "done"}

(* The ids that i can still draw: the bound on what it creates.            *)
Fresh(i) == {c \in Cnt : reg[c] = "free" /\ Asker[c] = i}

Idle == [pc |-> "idle", delta |-> 0, todo |-> {}, cnt |-> Nil]

NoWorker == [pc |-> "off", size |-> 0, made |-> 0, cnt |-> Nil,
             known |-> FALSE, ids |-> {}, chan |-> <<>>, cap |-> 0]

Init ==
  /\ reg = [c \in Cnt |-> "free"]
  /\ list = {}
  /\ c2p = [c \in Cnt |-> Nil] /\ c2e = {}
  /\ del = [x \in Deletion |-> "idle"] /\ cleared = {}
  /\ offer = Nil /\ main = Idle /\ keeper = Nil
  /\ worker = [i \in Inst |-> NoWorker]
  /\ panic = "none"

(* The process dies; nothing else happens.                                 *)
Crash(cause) ==
  /\ panic' = cause
  /\ UNCHANGED <<reg, list, cepVars, delVars, scaleVars, keeper, worker>>

(* cep.mu: nobody reads for long but the main loop; a waiting writer keeps *)
(* new readers out.                                                        *)
MayLock == main.pc = "idle"

WriterWaits ==
  \/ keeper # Nil
  \/ \E c \in Cnt : reg[c] = "listed"
  \/ \E i \in Inst : worker[i].pc \in {"add", "remove"}

MayRLock == MayLock \/ ~WriterWaits

(* Mutants: a channel takes one message too many; IsRepl is not asked; the *)
(* lease timer does not wait; the container stays in the list; the ids are *)
(* not remembered.                                                         *)
RoomForOneMore(i) == Len(worker[i].chan) <= worker[i].cap
SparedNobody(c) == FALSE
LeaseOverAtOnce(c) == reg[c] \in {"spawned", "armed", "leave"}
UnlistedNobody(i) == {}
RememberNothing(i, c) == worker[i].ids

Reg(c, l) == reg' = [reg EXCEPT ![c] = l]

-----------------------------------------------------------------------------
(* addEntryToChan: the function pings, its element is added to the pool    *)
(* and its container to the list, both to the maps; its timer is spawned,  *)
(* and reads the id of the container.                                      *)
Ping(c) ==
  /\ reg[c] = "asked"
  /\ Reg(c, "listed")
  /\ list' = list \cup {c}
  /\ UNCHANGED <<cepVars, delVars, scaleVars, keeper, worker, panic>>

AddConnElem(c) ==
  /\ reg[c] = "listed" /\ MayLock
  /\ Reg(c, "spawned")
  /\ c2e' = c2e \cup {c}
  /\ UNCHANGED <<list, c2p, delVars, scaleVars, keeper, worker, panic>>

TimerStart(c) ==
  /\ reg[c] = "spawned" /\ c \notin cleared
  /\ Reg(c, "armed")
  /\ UNCHANGED <<list, cepVars, delVars, scaleVars, keeper, worker, panic>>

TimerNil(c) ==
  /\ reg[c] = "spawned" /\ c \in cleared
  /\ Crash("nil container")

(* The lease ends: the container leaves the list, then Delete is called.   *)
TimerFires(c) ==
  /\ reg[c] = "armed" /\ c \in Leased
  /\ Reg(c, "leave")
  /\ list' = list \ {c}
  /\ UNCHANGED <<cepVars, delVars, scaleVars, keeper, worker, panic>>

TimerStops(c) ==
  /\ reg[c] = "armed" /\ Dead(c)
  /\ Reg(c, "over")
  /\ UNCHANGED <<list, cepVars, delVars, scaleVars, keeper, worker, panic>>

(* What the goroutines of a registration do by themselves.                 *)
Onboard(c) ==
  \/ AddConnElem(c) \/ TimerStart(c) \/ TimerNil(c) \/ TimerStops(c)

Registration(c) == Ping(c) \/ TimerFires(c) \/ Onboard(c)

-----------------------------------------------------------------------------
(* Delete of a container by its timer or by the worker that works on it.   *)
LeaseOver(c) == reg[c] = "leave"

Called(x) ==
  \/ x[2] = "lease" /\ LeaseOver(x[1])
  \/ x[2] = "scale"
     /\ \E i \in Inst : worker[i].pc = "delete" /\ worker[i].cnt = x[1]

DelStep(x, l) == del' = [del EXCEPT ![x] = l]

(* First section: an element deleted before forgets its container.         *)
DelUnlink(x) ==
  /\ del[x] = "idle" /\ Called(x)
  /\ IF Dead(x[1])
       THEN DelStep(x, "done") /\ cleared' = cleared \cup {x[1]}
       ELSE DelStep(x, "unlinked") /\ UNCHANGED cleared
  /\ UNCHANGED <<reg, list, cepVars, scaleVars, keeper, worker, panic>>

(* Second section: close stopChan, clear the pointers.                     *)
DelClose(x) ==
  /\ del[x] = "unlinked" /\ ~Dead(x[1])
  /\ DelStep(x, "closed")
  /\ UNCHANGED <<reg, list, cepVars, cleared, scaleVars, keeper>>
  /\ UNCHANGED <<worker, panic>>

DelCloseAgain(x) ==
  /\ del[x] = "unlinked" /\ Dead(x[1])
  /\ Crash("close of closed channel")

(* The rest of Delete sends the termination signal, and forgets the        *)
(* container when it never had a flow.                                     *)
DelEnd(x) ==
  /\ del[x] = "closed" /\ x[1] \notin cleared
  /\ DelStep(x, "done")
  /\ cleared' \in {cleared, cleared \cup {x[1]}}
  /\ UNCHANGED <<reg, list, cepVars, scaleVars, keeper, worker, panic>>

DelEndNil(x) ==
  /\ del[x] = "closed" /\ x[1] \in cleared
  /\ Crash("nil container")

Delete(x) ==
  \/ DelUnlink(x) \/ DelClose(x) \/ DelCloseAgain(x) \/ DelEnd(x)
  \/ DelEndNil(x)

-----------------------------------------------------------------------------
(* InstantiateFunctions, the goroutine that keeps Min replicas running:    *)
(* request one, then AddInstance.                                          *)
KeeperCreate ==
  /\ keeper = Nil
  /\ \E c \in Fresh("min") : keeper' = c /\ Reg(c, "asked")
  /\ UNCHANGED <<list, cepVars, delVars, scaleVars, worker, panic>>

KeeperAdd ==
  /\ keeper # Nil /\ MayLock
  /\ c2p' = [c2p EXCEPT ![keeper] = "min"]
  /\ keeper' = Nil
  /\ UNCHANGED <<reg, list, c2e, delVars, scaleVars, worker, panic>>

(* An Instance that is not in use, with ids for d functions.               *)
CanStart(i, d) == worker[i].pc = "off" /\ Cardinality(Fresh(i)) >= d

(* HandleScaling: a tick computes the delta; the send waits for the loop.  *)
(* Asker bounds how much the scaler asks for.                              *)
ScalerTick ==
  /\ offer = Nil
  /\ \E fl \in [list -> Fluxes] : offer' = Delta(Cardinality(list), Load(fl))
  /\ offer' > 0 => \E i \in Inst : CanStart(i, offer')
  /\ UNCHANGED <<reg, list, cepVars, delVars, main, keeper, worker, panic>>

-----------------------------------------------------------------------------
(* InstantiateFunctions, the main loop.                                    *)
MainZero ==
  /\ main.pc = "idle" /\ offer = 0
  /\ offer' = Nil
  /\ UNCHANGED <<reg, list, cepVars, delVars, main, keeper, worker, panic>>

Capacity(delta) == delta + 1

MainUp ==
  /\ main.pc = "idle" /\ offer # Nil /\ offer > 0
  /\ \E i \in Inst :
       /\ CanStart(i, offer)
       /\ worker' = [worker EXCEPT ![i] =
            [NoWorker EXCEPT !.pc = "make", !.size = offer,
                             !.cap = Capacity(offer)]]
  /\ offer' = Nil
  /\ UNCHANGED <<reg, list, cepVars, delVars, main, keeper, panic>>

MainDown ==
  /\ main.pc = "idle" /\ offer # Nil /\ offer < 0
  /\ main' = [pc |-> "scan", delta |-> offer, todo |-> c2e, cnt |-> Nil]
  /\ offer' = Nil
  /\ UNCHANGED <<reg, list, cepVars, delVars, keeper, worker, panic>>

(* One entry of c2e: IsAlive, and drop it when it is not.                  *)
MainScan(c) ==
  /\ main.pc = "scan" /\ c \in main.todo
  /\ IF Dead(c)
       THEN /\ c2e' = c2e \ {c}
            /\ main' = [main EXCEPT !.todo = @ \ {c}]
       ELSE /\ main' = [main EXCEPT !.pc = "test", !.cnt = c,
                                    !.todo = @ \ {c}]
            /\ UNCHANGED c2e
  /\ UNCHANGED <<reg, list, c2p, delVars, offer, keeper, worker, panic>>

(* It was alive: IsRepl, and look its Instance up.  The entry is dropped   *)
(* when there is none, or when the replica has died by now.                *)
Spared(c) == Asker[c] = "min"

Dropped(c) == IF Spared(c) THEN Dead(c) ELSE c2p[c] = Nil

MainTest ==
  LET c == main.cnt IN
  /\ main.pc = "test" /\ c \notin cleared
  /\ c2e' = IF Dropped(c) THEN c2e \ {c} ELSE c2e
  /\ main' = [main EXCEPT
                !.pc = IF Spared(c) \/ c2p[c] = Nil THEN "scan" ELSE "send"]
  /\ UNCHANGED <<reg, list, c2p, delVars, offer, keeper, worker, panic>>

MainTestNil ==
  /\ main.pc = "test" /\ main.cnt \in cleared
  /\ Crash("nil container")

(* inst.decChan <- cntId, once there is room.  Nobody receives from the    *)
(* channel of the replicas' Instance.                                      *)
Room(i) == Len(worker[i].chan) < worker[i].cap

MainSend ==
  LET i == c2p[main.cnt] IN
  /\ main.pc = "send"
  /\ i \in Inst /\ Room(i)
  /\ worker' = [worker EXCEPT ![i].chan = Append(@, main.cnt)]
  /\ main' = IF main.delta + 1 = 0
               THEN Idle
               ELSE [main EXCEPT !.pc = "scan", !.delta = @ + 1]
  /\ UNCHANGED <<reg, list, cepVars, delVars, offer, keeper, panic>>

MainEnd ==
  /\ main.pc = "scan" /\ main.todo = {}
  /\ main' = Idle
  /\ UNCHANGED <<reg, list, cepVars, delVars, offer, keeper, worker, panic>>

MainLoop ==
  \/ MainZero \/ MainUp \/ MainDown \/ MainTest \/ MainTestNil \/ MainSend
  \/ MainEnd \/ \E c \in Cnt : MainScan(c)

-----------------------------------------------------------------------------
Work(i, l) == worker' = [worker EXCEPT ![i].pc = l]

Remember(i, c) == worker[i].ids \cup {c}

(* startDropFunction: request a function and remember its id, AddInstance, *)
(* until there are size of them.                                           *)
WorkerCreate(i) ==
  /\ worker[i].pc = "make"
  /\ \E c \in Fresh(i) :
       /\ Reg(c, "asked")
       /\ worker' = [worker EXCEPT ![i].pc = "add", ![i].cnt = c,
                                   ![i].ids = Remember(i, c)]
  /\ UNCHANGED <<list, cepVars, delVars, scaleVars, keeper, panic>>

WorkerAdd(i) ==
  LET w == worker[i]
      more == w.made + 1 < w.size IN
  /\ w.pc = "add" /\ MayLock
  /\ c2p' = [c2p EXCEPT ![w.cnt] = i]
  /\ worker' = [worker EXCEPT ![i].pc = IF more THEN "make" ELSE "loop",
                              ![i].made = IF more THEN @ + 1 ELSE 0,
                              ![i].cnt = Nil]
  /\ UNCHANGED <<reg, list, c2e, delVars, scaleVars, keeper, panic>>

(* startDropFunction: a tick ends the worker, or makes size functions more.*)
WorkerTick(i) ==
  /\ worker[i].pc = "loop"
  /\ Cardinality(Fresh(i)) >= worker[i].size
  /\ Work(i, IF worker[i].size <= 0 THEN "returned" ELSE "make")
  /\ UNCHANGED <<reg, list, cepVars, delVars, scaleVars, keeper, panic>>

(* startDropFunction: an order to remove a function.  One that is not in   *)
(* cntIdMap any more is logged only.                                       *)
WorkerReceive(i) ==
  LET w == worker[i]
      c == Head(w.chan) IN
  /\ w.pc = "loop" /\ w.chan # <<>>
  /\ worker' = [worker EXCEPT ![i] =
       IF c \in w.ids
         THEN [w EXCEPT !.pc = "remove", !.cnt = c, !.ids = @ \ {c},
                        !.chan = Tail(@)]
         ELSE [w EXCEPT !.chan = Tail(@)]]
  /\ UNCHANGED <<reg, list, cepVars, delVars, scaleVars, keeper, panic>>

(* cep.RemoveInstance *)
WorkerRemove(i) ==
  /\ worker[i].pc = "remove" /\ MayLock
  /\ c2p' = [c2p EXCEPT ![worker[i].cnt] = Nil]
  /\ Work(i, "get")
  /\ UNCHANGED <<reg, list, c2e, delVars, scaleVars, keeper, panic>>

(* cep.GetConnElem, then GetContainer of the element.                      *)
WorkerGet(i) ==
  /\ worker[i].pc = "get" /\ MayRLock
  /\ worker[i].cnt \in c2e
  /\ Work(i, "read")
  /\ UNCHANGED <<reg, list, cepVars, delVars, scaleVars, keeper, panic>>

WorkerGetNil(i) ==
  /\ worker[i].pc = "get" /\ MayRLock
  /\ worker[i].cnt \notin c2e
  /\ Crash("nil element")

(* The main loop deletes from c2e under the read lock: GetConnElem may     *)
(* read the map meanwhile.                                                 *)
WorkerGetRace(i) ==
  /\ worker[i].pc = "get" /\ MayRLock
  /\ \/ main.pc = "scan" /\ \E c \in main.todo : Dead(c)
     \/ main.pc = "test" /\ main.cnt \notin cleared /\ Dropped(main.cnt)
  /\ Crash("concurrent map access")

WorkerRead(i) ==
  /\ worker[i].pc = "read"
  /\ worker' = [worker EXCEPT ![i].pc = "delete",
                              ![i].known = worker[i].cnt \notin cleared]
  /\ UNCHANGED <<reg, list, cepVars, delVars, scaleVars, keeper, panic>>

(* Delete has returned: RemoveContainer, which finds nothing when the      *)
(* container was nil, and count one function less.                         *)
Unlisted(i) == IF worker[i].known THEN {worker[i].cnt} ELSE {}

WorkerUnlist(i) ==
  /\ worker[i].pc = "delete" /\ del[<<worker[i].cnt, "scale">>] = "done"
  /\ list' = list \ Unlisted(i)
  /\ worker' = [worker EXCEPT ![i].pc = "loop", ![i].size = @ - 1,
                              ![i].cnt = Nil, ![i].known = FALSE]
  /\ UNCHANGED <<reg, cepVars, delVars, scaleVars, keeper, panic>>

WorkerStep(i) ==
  \/ WorkerCreate(i) \/ WorkerAdd(i) \/ WorkerTick(i) \/ WorkerReceive(i)
  \/ WorkerRemove(i) \/ WorkerGet(i) \/ WorkerGetNil(i) \/ WorkerGetRace(i)
  \/ WorkerRead(i) \/ WorkerUnlist(i)

-----------------------------------------------------------------------------
Next ==
  /\ panic = "none"
  /\ \/ \E c \in Cnt : Registration(c)
     \/ \E x \in Deletion : Delete(x)
     \/ KeeperCreate \/ KeeperAdd \/ ScalerTick \/ MainLoop
     \/ \E i \in Inst : WorkerStep(i)

Spec == Init /\ [][Next]_vars

-----------------------------------------------------------------------------
(* Type invariant of the provisioner.                                      *)
TypeOK ==
  /\ reg \in [Cnt -> {"free", "asked", "listed", "spawned",
                      "armed", "leave", "over"}]
  /\ list \in SUBSET Cnt
  /\ c2p \in [Cnt -> Inst \cup {"min", Nil}] /\ c2e \in SUBSET Cnt
  /\ del \in [Deletion -> {"idle", "unlinked", "closed", "done"}]
  /\ cleared \in SUBSET Cnt
  /\ offer \in Int \cup {Nil}
  /\ main \in [pc : {"idle", "scan", "test", "send"}, delta : Int,
               todo : SUBSET Cnt, cnt : Cnt \cup {Nil}]
  /\ keeper \in Cnt \cup {Nil}
  /\ \A i \in Inst :
       /\ worker[i].pc \in {"off", "make", "add", "loop", "remove", "get",
                            "read", "delete", "returned"}
       /\ worker[i].size \in Int /\ worker[i].cap \in Nat
       /\ worker[i].chan \in Seq(Cnt) /\ worker[i].ids \in SUBSET Cnt
       /\ Len(worker[i].chan) <= worker[i].cap
  /\ panic \in {"none", "nil container", "nil element",
                "close of closed channel", "concurrent map access"}

(* A container that is gone counts for the load only while the worker that *)
(* deleted it is about to take it off the list.                            *)
NoGhosts ==
  \A c \in list : Dead(c) =>
    \E i \in Inst :
      worker[i].pc = "delete" /\ worker[i].cnt = c /\ worker[i].known

(* Lease timers and registrations alone never crash the gateway: a panic   *)
(* needs a container that a scale-down has deleted or is looking at.       *)
CrashNeedsScaleDown ==
  panic # "none" =>
    \/ \E c \in Cnt : del[<<c, "scale">>] # "idle"
    \/ \E i \in Inst : worker[i].pc = "get"
    \/ main.pc = "test"

Unwrapped == {fl \in [list -> Fluxes] : \A c \in list : fl[c] >= 0}

(* As long as no counter has wrapped, GetLoadPercentage counts the         *)
(* containers that have reached their maximum.                             *)
LoadCounts ==
  \A fl \in Unwrapped :
    Load(fl) = Cardinality({c \in list : fl[c] >= MaxFluxes})

(* calculateScalingDelta neither starves nor flaps, whatever the list, as  *)
(* long as no counter has wrapped.                                         *)
Steady == \A fl \in Unwrapped : SteadyAt(Cardinality(list), Load(fl))

-----------------------------------------------------------------------------
(* The scheduler runs every goroutine that can run.  sync.RWMutex lets no  *)
(* waiting writer starve behind new readers, nor the readers that waited   *)
(* behind a writer: those who take cep.mu get it if it is free again and   *)
(* again.  That a function which was asked for ever pings is not assumed,  *)
(* nor that a lease ends.                                                  *)
LiveSpec ==
  /\ Spec
  /\ \A c \in Cnt : /\ WF_vars(panic = "none" /\ Onboard(c))
                    /\ SF_vars(panic = "none" /\ AddConnElem(c))
  /\ \A x \in Deletion : WF_vars(panic = "none" /\ Delete(x))
  /\ SF_vars(panic = "none" /\ KeeperAdd)
  /\ WF_vars(panic = "none" /\ MainLoop)
  /\ \A i \in Inst : SF_vars(panic = "none" /\ WorkerStep(i))

(* The main loop waits for room in a channel that nobody will make: the    *)
(* worker has returned, or itself waits for cep.mu.                        *)
Wedged ==
  LET i == c2p[main.cnt] IN
  /\ main.pc = "send"
  /\ i \in Inst /\ ~Room(i)
  /\ worker[i].pc \in {"returned", "add", "remove", "get"}

(* A scale-down comes to its end and releases cep.mu, unless the gateway   *)
(* crashes or the loop waits for a worker that has returned or that waits  *)
(* for cep.mu itself.                                                      *)
ScanEnds == main.pc # "idle" ~> (main.pc = "idle" \/ Wedged \/ panic # "none")

(* An order to remove a function is carried out, by whoever deletes the    *)
(* container first, unless the worker has returned before it read it.      *)
OrderObeyed ==
  \A i \in Inst, c \in Cnt :
    (\E k \in 1..Len(worker[i].chan) : worker[i].chan[k] = c)
      ~> (Dead(c) \/ worker[i].pc = "returned" \/ Wedged \/ panic # "none")

(* provisioner.go's log: an order for a function that is "not anymore      *)
(* present" is passed over.                                                *)
StaleOrderIgnored == panic # "nil element"

=============================================================================
