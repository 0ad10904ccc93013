-------------------------- MODULE ProvisionerProofs -------------------------
(***************************************************************************)
(* Proofs about Provisioner and ScalingDelta, for any set of containers,   *)
(* of Instances and of counter values.                                     *)
(***************************************************************************)
EXTENDS Provisioner, FiniteSetTheorems, TLAPS

(* A scale-down takes two fifths of the containers, or one of several.     *)
LEMMA DecrementBounds ==
  ASSUME NEW s \in Nat
  PROVE  /\ Decrement(s) \in Nat /\ Decrement(s) >= 1
         /\ Decrement(s) > 1 => 5 * Decrement(s) <= 2 * s
  BY DEF Decrement, DownDec

(* The increment is half of the containers, rounded up.                    *)
LEMMA IncrementBounds ==
  ASSUME NEW s \in Nat
  PROVE  LET u == (s * UpInc + 99) \div 100
         IN  u \in Nat /\ s <= 2 * u /\ 2 * u <= s + 1
  BY DEF UpInc

(* For any number of containers and of busy ones, calculateScalingDelta    *)
(* keeps Min containers and all busy ones, and does not flap: what a check *)
(* decides, the next check with the same busy containers does not revoke.  *)
THEOREM DeltaSteady ==
  ASSUME NEW s \in Nat, NEW full \in 0..s
  PROVE  SteadyAt(s, full)
<1> DEFINE d == Delta(s, full)
           u == (s * UpInc + 99) \div 100
<1>1. CASE s = 0
  BY <1>1 DEF SteadyAt, Delta
<1>2. CASE s # 0 /\ 100 * full >= UpThr * s
  <2>1. d = u /\ u \in Nat /\ s <= 2 * u /\ 2 * u <= s + 1
    BY <1>2, IncrementBounds DEF Delta
  <2>2. ~(100 * full <= DownThr * (s + u))
    BY <1>2, <2>1 DEF UpThr, DownThr
  <2>3. (s + u) * UpInc + 99 >= 0 /\ s + u \in Nat
    BY <2>1 DEF UpInc
  <2>4. ((s + u) * UpInc + 99) \div 100 \in Nat
    BY <2>3, IncrementBounds
  <2>5. Delta(s + u, full) >= 0
    BY <2>2, <2>4, <2>1 DEF Delta
  <2> HIDE DEF u
  <2> QED BY <2>1, <2>5 DEF SteadyAt
<1>3. CASE s # 0 /\ ~(100 * full >= UpThr * s) /\ 100 * full <= DownThr * s
  <2>1. d = KeepMin(s, Decrement(s))
    BY <1>3 DEF Delta
  <2>2. CASE s - Decrement(s) < Min
    BY <2>1, <2>2, DecrementBounds DEF KeepMin, SteadyAt, Min
  <2>3. CASE s - Decrement(s) >= Min
    <3> DEFINE c == Decrement(s)
    <3>1. c \in Nat /\ c >= 1 /\ (c > 1 => 5 * c <= 2 * s) /\ s - c >= 1
      BY <2>3, DecrementBounds DEF Min
    <3>2. d = -c
      BY <2>1, <2>3 DEF KeepMin
    <3> HIDE DEF c
    <3>3. full <= s - c /\ ~(100 * full >= UpThr * (s - c))
      BY <1>3, <3>1 DEF UpThr, DownThr
    <3>4. KeepMin(s - c, Decrement(s - c)) <= 0
      BY <3>1, DecrementBounds DEF KeepMin
    <3>5. Delta(s - c, full) <= 0
      BY <3>1, <3>3, <3>4 DEF Delta
    <3> QED BY <3>1, <3>2, <3>3, <3>5 DEF SteadyAt, Min
  <2> QED BY <2>2, <2>3, DecrementBounds DEF Min
<1>4. CASE s # 0 /\ ~(100 * full >= UpThr * s) /\ ~(100 * full <= DownThr * s)
  BY <1>4 DEF Delta, SteadyAt
<1> QED BY <1>1, <1>2, <1>3, <1>4

(* What GetLoadPercentage adds up: the containers of s that have reached   *)
(* their maximum of fluxes, and against them one debt for each ten that a  *)
(* counter has wrapped below zero.                                         *)
Busy(fl, s) == {c \in s : fl[c] >= MaxFluxes}
Owed(f) == {k \in 1..12 : f <= -(MaxFluxes * k)}
Debts(fl, s) == {p \in s \X (1..12) : fl[p[1]] <= -(MaxFluxes * p[2])}

(* One container adds 1 when it has reached its maximum and nothing below, *)
(* but a counter that has wrapped takes from the count of the others.      *)
LEMMA TermBalance ==
  ASSUME NEW f \in -128..127
  PROVE  /\ IsFiniteSet(Owed(f)) /\ Cardinality(Owed(f)) \in Nat
         /\ Term(f) = (IF f >= MaxFluxes THEN 1 ELSE 0) - Cardinality(Owed(f))
<1>1. CASE f >= 0
  <2>1. Owed(f) = {}
    BY <1>1 DEF Owed, MaxFluxes
  <2>2. Term(f) = (IF f >= MaxFluxes THEN 1 ELSE 0)
    BY <1>1 DEF Term, Quotient, MaxFluxes
  <2>3. IsFiniteSet(Owed(f)) /\ Cardinality(Owed(f)) = 0
    BY <2>1, FS_EmptySet
  <2> QED BY <2>2, <2>3
<1>2. CASE f < 0
  <2> DEFINE q == (-f) \div MaxFluxes
  <2>1. q \in 0..12 /\ Owed(f) = 1..q
    BY <1>2 DEF Owed, MaxFluxes
  <2>2. ~(f >= MaxFluxes) /\ Term(f) = 0 - q
    BY <1>2 DEF Term, Quotient, MaxFluxes
  <2>3. IsFiniteSet(1..q) /\ Cardinality(1..q) = q
    <3> HIDE DEF q
    <3>1. IsFiniteSet(1..q) /\ Cardinality(1..q) = IF 1 > q THEN 0 ELSE q - 1 + 1
      BY <2>1, FS_Interval
    <3> QED BY <2>1, <3>1
  <2> HIDE DEF q
  <2> QED BY <2>1, <2>2, <2>3
<1> QED BY <1>1, <1>2

LEMMA BusyFinite ==
  ASSUME NEW fl, NEW s, IsFiniteSet(s)
  PROVE  /\ IsFiniteSet(Busy(fl, s)) /\ Cardinality(Busy(fl, s)) \in Nat
         /\ IsFiniteSet(Debts(fl, s)) /\ Cardinality(Debts(fl, s)) \in Nat
<1>0. Busy(fl, s) \in SUBSET s
  BY DEF Busy
<1>1. Debts(fl, s) \in SUBSET (s \X (1..12))
  BY Zenon DEF Debts
<1>2. IsFiniteSet(1..12)
  <2>1. 1 \in Int /\ 12 \in Int
    OBVIOUS
  <2> QED BY <2>1, FS_Interval, Zenon
<1>3. IsFiniteSet(s \X (1..12))
  BY <1>2, FS_Product
<1> QED BY <1>0, <1>1, <1>3, FS_Subset, FS_CardinalityType

LEMMA BusyStep ==
  ASSUME NEW fl, NEW s, IsFiniteSet(s), NEW x \in s, fl[x] \in -128..127
  PROVE  Cardinality(Busy(fl, s))
           = Cardinality(Busy(fl, s \ {x})) + (IF fl[x] >= MaxFluxes THEN 1 ELSE 0)
<1> DEFINE rest == Busy(fl, s \ {x})
<1>1. IsFiniteSet(rest) /\ Cardinality(rest) \in Nat
  BY BusyFinite, FS_RemoveElement
<1>2. CASE fl[x] >= MaxFluxes
  <2>1. Busy(fl, s) = rest \cup {x} /\ x \notin rest
    BY <1>2 DEF Busy
  <2>2. Cardinality(rest \cup {x}) = Cardinality(rest) + 1
    <3> HIDE DEF rest
    <3> QED BY <1>1, <2>1, FS_AddElement
  <2> QED BY <1>2, <2>1, <2>2
<1>3. CASE ~(fl[x] >= MaxFluxes)
  <2>1. Busy(fl, s) = rest
    BY <1>3 DEF Busy
  <2> QED BY <1>1, <1>3, <2>1
<1> QED BY <1>2, <1>3

LEMMA DebtsStep ==
  ASSUME NEW fl, NEW s, IsFiniteSet(s), NEW x \in s, fl[x] \in -128..127
  PROVE  Cardinality(Debts(fl, s))
           = Cardinality(Debts(fl, s \ {x})) + Cardinality(Owed(fl[x]))
<1> DEFINE rest == Debts(fl, s \ {x})
           own == {x} \X Owed(fl[x])
<1>1. IsFiniteSet(rest) /\ Cardinality(rest) \in Nat
  BY BusyFinite, FS_RemoveElement
<1>2. IsFiniteSet(Owed(fl[x])) /\ Cardinality(Owed(fl[x])) \in Nat
  BY TermBalance
<1>3. IsFiniteSet({x}) /\ Cardinality({x}) = 1
  BY FS_Singleton, Zenon
<1>4. IsFiniteSet(own) /\ Cardinality(own) = 1 * Cardinality(Owed(fl[x]))
  BY <1>2, <1>3, FS_Product
<1>5. Debts(fl, s) = rest \cup own
  BY DEF Debts, Owed
<1>6. rest \cap own = {}
  BY DEF Debts
<1> HIDE DEF rest, own
<1>7. Cardinality(rest \cup own) = Cardinality(rest) + Cardinality(own) - Cardinality(rest \cap own)
  BY <1>1, <1>4, FS_Union
<1>8. Cardinality(rest \cap own) = 0
  BY <1>6, FS_EmptySet
<1> QED BY <1>1, <1>2, <1>4, <1>5, <1>7, <1>8 DEF rest

(* The fold of GetLoadPercentage: h maps each set of containers to its sum *)
(* when it solves the equation h = SumOver(fl, h).                         *)
Chosen(s) == CHOOSE c \in s : TRUE
SumOver(fl, h) ==
  [s \in SUBSET DOMAIN fl |->
     IF s = {} THEN 0 ELSE Term(fl[Chosen(s)]) + h[s \ {Chosen(s)}]]

(* The difference of the two takes one term for each element.              *)
LEMMA BalanceStep ==
  ASSUME NEW fl, NEW s, IsFiniteSet(s), s # {}, \A c \in s : fl[c] \in -128..127
  PROVE  Cardinality(Busy(fl, s)) - Cardinality(Debts(fl, s))
           = Term(fl[Chosen(s)]) + (Cardinality(Busy(fl, s \ {Chosen(s)}))
                                     - Cardinality(Debts(fl, s \ {Chosen(s)})))
<1> DEFINE x == Chosen(s)
<1>1. x \in s /\ fl[x] \in -128..127
  BY DEF Chosen
<1> HIDE DEF x
<1>2. /\ Cardinality(Busy(fl, s \ {x})) \in Nat
      /\ Cardinality(Debts(fl, s \ {x})) \in Nat
  BY BusyFinite, FS_RemoveElement
<1>3. /\ Cardinality(Owed(fl[x])) \in Nat
      /\ Term(fl[x]) = (IF fl[x] >= MaxFluxes THEN 1 ELSE 0) - Cardinality(Owed(fl[x]))
  BY <1>1, TermBalance
<1>4. Cardinality(Busy(fl, s))
        = Cardinality(Busy(fl, s \ {x})) + (IF fl[x] >= MaxFluxes THEN 1 ELSE 0)
  BY <1>1, BusyStep
<1>5. Cardinality(Debts(fl, s))
        = Cardinality(Debts(fl, s \ {x})) + Cardinality(Owed(fl[x]))
  BY <1>1, DebtsStep
<1> QED BY <1>2, <1>3, <1>4, <1>5 DEF x

(* The equation has one solution at most: of the sets where two solutions  *)
(* differ, a smallest one would have a smaller one.                        *)
LEMMA SumUnique ==
  ASSUME NEW fl, IsFiniteSet(DOMAIN fl), NEW h, NEW g, h = SumOver(fl, h), g = SumOver(fl, g)
  PROVE  h[DOMAIN fl] = g[DOMAIN fl]
<1> DEFINE D == DOMAIN fl
           T == {s \in SUBSET D : h[s] # g[s]}
<1>1. IsWellFoundedOn(StrictSubsetOrdering(D), SUBSET D)
  BY FS_StrictSubsetOrderingWellFounded, FS_FiniteSubsetsOfFinite
<1>2. ASSUME T # {} PROVE FALSE
  <2>0. T \subseteq SUBSET D
    OBVIOUS
  <2>1. PICK s \in T : \A y \in T : ~(<<y, s>> \in StrictSubsetOrdering(D))
    <3> HIDE DEF T, D
    <3> QED BY <1>1, <1>2, <2>0, WFMin
  <2>2. s \in SUBSET D /\ h[s] # g[s]
    OBVIOUS
  <2>3. CASE s = {}
    <3>1. h[s] = 0 
      BY <2>2, <2>3 DEF SumOver
    <3>2. g[s] = 0 
      BY <2>2, <2>3 DEF SumOver
    <3> QED BY <2>2, <3>1, <3>2
  <2>4. CASE s # {}
    <3> DEFINE r == s \ {Chosen(s)}
    <3>1. r \in SUBSET D /\ r # s
      BY <2>2, <2>4 DEF Chosen
    <3>2. r \notin T
      <4>1. <<r, s>> \in StrictSubsetOrdering(D)
        BY <2>2, <3>1 DEF StrictSubsetOrdering
      <4> QED BY <2>1, <4>1
    <3>3. h[r] = g[r]
      BY <3>1, <3>2
    <3>4. h[s] = Term(fl[Chosen(s)]) + h[r]
      BY <2>2, <2>4 DEF SumOver
    <3>5. g[s] = Term(fl[Chosen(s)]) + g[r]
      BY <2>2, <2>4 DEF SumOver
    <3> QED BY <2>2, <3>3, <3>4, <3>5
  <2> QED BY <2>3, <2>4
<1> QED BY <1>2

(* GetLoadPercentage is the number of busy containers less the debts, as a *)
(* uint32, for any list and any int8 counters: the difference solves the   *)
(* equation of the fold, and no other function does.                       *)
THEOREM LoadBalance ==
  ASSUME NEW fl, IsFiniteSet(DOMAIN fl), \A c \in DOMAIN fl : fl[c] \in -128..127
  PROVE  Load(fl) = Uint32(Cardinality(Busy(fl, DOMAIN fl))
                            - Cardinality(Debts(fl, DOMAIN fl)))
<1> DEFINE D == DOMAIN fl
           g == [s \in SUBSET D |-> Cardinality(Busy(fl, s)) - Cardinality(Debts(fl, s))]
           iter == CHOOSE h : h = SumOver(fl, h)
<1>1. Load(fl) = Uint32(iter[D])
  BY DEF Load, MapThenFoldSet, SumOver, Chosen
<1>2. g = SumOver(fl, g)
  <2>1. ASSUME NEW s \in SUBSET D
        PROVE  g[s] = IF s = {} THEN 0 ELSE Term(fl[Chosen(s)]) + g[s \ {Chosen(s)}]
    <3>1. CASE s = {}
      <4>1. Busy(fl, s) = {} /\ Debts(fl, s) = {}
        BY <3>1 DEF Busy, Debts
      <4>2. Cardinality(Busy(fl, s)) = 0 /\ Cardinality(Debts(fl, s)) = 0
        BY <4>1, FS_EmptySet
      <4> QED BY <3>1, <4>2
    <3>2. CASE s # {}
      <4>1. IsFiniteSet(s)
        BY FS_Subset
      <4>2. s \ {Chosen(s)} \in SUBSET D
        OBVIOUS
      <4> QED BY <3>2, <4>1, <4>2, BalanceStep
    <3> QED BY <3>1, <3>2
  <2> HIDE DEF g
  <2>2. g = [s \in SUBSET D |-> g[s]]
    BY DEF g
  <2> QED BY <2>1, <2>2 DEF SumOver
<1>3. iter = SumOver(fl, iter)
  <2> HIDE DEF g
  <2> QED BY <1>2
<1>4. iter[D] = g[D]
  <2> HIDE DEF g, iter
  <2> QED BY <1>2, <1>3, SumUnique
<1> HIDE DEF iter
<1> QED BY <1>1, <1>4

(* Without a wrapped counter it is the number of busy containers.          *)
LEMMA LoadOfUnwrapped ==
  ASSUME NEW fl, IsFiniteSet(DOMAIN fl), \A c \in DOMAIN fl : fl[c] \in 0..127
  PROVE  Load(fl) = Cardinality(Busy(fl, DOMAIN fl))
<1>1. Debts(fl, DOMAIN fl) = {}
  BY DEF Debts, MaxFluxes
<1>2. Cardinality(Debts(fl, DOMAIN fl)) = 0
  BY <1>1, FS_EmptySet
<1>3. Cardinality(Busy(fl, DOMAIN fl)) \in Nat
  BY BusyFinite
<1>4. Load(fl) = Uint32(Cardinality(Busy(fl, DOMAIN fl)) - Cardinality(Debts(fl, DOMAIN fl)))
  BY LoadBalance
<1> QED BY <1>2, <1>3, <1>4 DEF Uint32

(* A sum that has become negative makes calculateScalingDelta scale up,    *)
(* whatever the true load is, up to the list length for which Huge stands  *)
(* above every count.                                                      *)
LEMMA NegativeScalesUp ==
  ASSUME NEW s \in 1..Huge, NEW n \in Int, n < 0
  PROVE  Delta(s, Uint32(n)) > 0
<1>1. Uint32(n) = Huge
  BY DEF Uint32
<1>2. s # 0 /\ s \in Nat /\ 100 * Huge >= UpThr * s
  BY DEF Huge, UpThr
<1>3. (s * UpInc + 99) \div 100 > 0
  BY <1>2, IncrementBounds
<1> QED BY <1>1, <1>2, <1>3 DEF Delta

(* Wrapped counters make an idle gateway grow: as soon as the debts exceed *)
(* the busy containers, calculateScalingDelta scales up, however few       *)
(* containers are busy.                                                    *)
THEOREM DebtsScaleUp ==
  ASSUME NEW fl, IsFiniteSet(DOMAIN fl), \A c \in DOMAIN fl : fl[c] \in -128..127,
         Cardinality(DOMAIN fl) <= Huge,
         Cardinality(Busy(fl, DOMAIN fl)) < Cardinality(Debts(fl, DOMAIN fl))
  PROVE  Delta(Cardinality(DOMAIN fl), Load(fl)) > 0
<1> DEFINE D == DOMAIN fl
<1>1. /\ Cardinality(D) \in Nat
      /\ Cardinality(Busy(fl, D)) \in Nat /\ Cardinality(Debts(fl, D)) \in Nat
  BY BusyFinite, FS_CardinalityType
<1>2. Cardinality(D) # 0
  <2>1. ASSUME D = {} PROVE FALSE
    <3>1. Debts(fl, D) = {}
      BY <2>1 DEF Debts
    <3>2. Cardinality(Debts(fl, D)) = 0
      BY <3>1, FS_EmptySet
    <3> QED BY <1>1, <3>2
  <2> QED BY <2>1, FS_EmptySet
<1>3. Cardinality(D) \in 1..Huge
  BY <1>1, <1>2 DEF Huge
<1>4. Load(fl) = Uint32(Cardinality(Busy(fl, D)) - Cardinality(Debts(fl, D)))
  BY LoadBalance
<1> HIDE DEF D
<1> QED BY <1>1, <1>3, <1>4, NegativeScalesUp DEF D

-----------------------------------------------------------------------------
RegAt == {"free", "asked", "listed", "spawned", "armed", "leave", "over"}
WorkerAt == {"off", "make", "add", "loop", "remove", "get", "read", "delete",
             "returned"}
WorkerRec ==
  [pc : WorkerAt, size : Int, made : Nat, cnt : Cnt \cup {Nil}, known : BOOLEAN,
   ids : SUBSET Cnt, chan : Seq(Cnt), cap : Nat]
MainRec ==
  [pc : {"idle", "scan", "test", "send"}, delta : Int, todo : SUBSET Cnt,
   cnt : Cnt \cup {Nil}]
Panics == {"none", "nil container", "nil element", "close of closed channel",
           "concurrent map access"}

(* Where a worker has a function in hand.                                  *)
AtFunction == {"add", "remove", "get", "read", "delete"}

(* What the type invariant needs to be inductive: a worker that adds or    *)
(* removes a function and a main loop that looks at one have its id, and   *)
(* the list is finite, so that it has a length.                            *)
WorkerTyped ==
  /\ worker \in [Inst -> WorkerRec]
  /\ \A i \in Inst :
       /\ Len(worker[i].chan) <= worker[i].cap
       /\ worker[i].pc \in AtFunction => worker[i].cnt \in Cnt

MainTyped ==
  /\ main \in MainRec
  /\ main.pc \in {"test", "send"} => main.cnt \in Cnt

RestTyped ==
  /\ reg \in [Cnt -> RegAt]
  /\ list \in SUBSET Cnt /\ IsFiniteSet(list)
  /\ c2p \in [Cnt -> Inst \cup {"min", Nil}] /\ c2e \in SUBSET Cnt
  /\ del \in [Deletion -> {"idle", "unlinked", "closed", "done"}]
  /\ cleared \in SUBSET Cnt
  /\ offer \in Int \cup {Nil}
  /\ keeper \in Cnt \cup {Nil}
  /\ panic \in Panics

ProvTyped == WorkerTyped /\ MainTyped /\ RestTyped

LEMMA ProvTypedIsTypeOK == ProvTyped => TypeOK
  BY DEF ProvTyped, WorkerTyped, MainTyped, RestTyped, TypeOK, WorkerRec, MainRec,
     WorkerAt, RegAt, Panics

LEMMA ProvTypedInit == Init => ProvTyped
<1> SUFFICES ASSUME Init PROVE ProvTyped
  OBVIOUS
<1>1. IsFiniteSet({})
  BY FS_EmptySet
<1>2. WorkerTyped
  BY DEF Init, WorkerTyped, WorkerRec, WorkerAt, NoWorker, AtFunction
<1>3. MainTyped
  BY DEF Init, MainTyped, MainRec, Idle
<1>4. RestTyped
  BY <1>1 DEF Init, RestTyped, RegAt, Panics
<1> QED BY <1>2, <1>3, <1>4 DEF ProvTyped

(* A delta is an integer whatever the load is.                             *)
LEMMA DeltaInt == ASSUME NEW s \in Nat, NEW full PROVE Delta(s, full) \in Int
<1>1. (s * UpInc + 99) \div 100 \in Int
  BY DEF UpInc
<1>2. KeepMin(s, Decrement(s)) \in Int
  BY DEF KeepMin, Decrement, DownDec
<1> QED BY <1>1, <1>2 DEF Delta

-----------------------------------------------------------------------------
(* A step of one worker.                                                   *)
LEMMA WorkerSet ==
  ASSUME WorkerTyped, NEW i \in Inst, NEW w \in WorkerRec,
         worker' = [worker EXCEPT ![i] = w],
         Len(w.chan) <= w.cap, w.pc \in AtFunction => w.cnt \in Cnt
  PROVE  WorkerTyped'
  BY DEF WorkerTyped

LEMMA CrashTyped ==
  ASSUME ProvTyped, NEW p \in Panics, Crash(p)
  PROVE  ProvTyped'
<1>1. UNCHANGED <<reg, list, c2p, c2e, del, cleared, offer, main, keeper, worker>>
      /\ panic' \in Panics
  BY DEF Crash, cepVars, delVars, scaleVars
<1> QED BY <1>1 DEF ProvTyped, WorkerTyped, MainTyped, RestTyped

LEMMA RegistrationTyped ==
  ASSUME ProvTyped, NEW c \in Cnt, Registration(c)
  PROVE  ProvTyped'
<1>1. CASE TimerNil(c)
  BY <1>1, CrashTyped DEF TimerNil, Panics
<1>2. CASE ~TimerNil(c)
  <2>1. /\ UNCHANGED <<worker, main, c2p, del, cleared, offer, keeper, panic>>
        /\ c2e' \in {c2e, c2e \cup {c}}
        /\ list' \in {list, list \cup {c}, list \ {c}}
        /\ \E l \in RegAt : Reg(c, l)
    BY <1>2 DEF Registration, Onboard, Ping, TimerFires, AddConnElem, TimerStart,
       TimerStops, cepVars, delVars, scaleVars, RegAt
  <2>2. list' \in SUBSET Cnt /\ IsFiniteSet(list')
    BY <2>1, FS_AddElement, FS_RemoveElement DEF ProvTyped, RestTyped
  <2> QED BY <2>1, <2>2 DEF ProvTyped, WorkerTyped, MainTyped, RestTyped, Reg
<1> QED BY <1>1, <1>2

LEMMA DeleteTyped ==
  ASSUME ProvTyped, NEW x \in Deletion, Delete(x)
  PROVE  ProvTyped'
<1>1. CASE DelCloseAgain(x) \/ DelEndNil(x)
  BY <1>1, CrashTyped DEF DelCloseAgain, DelEndNil, Panics
<1>2. CASE DelUnlink(x) \/ DelClose(x) \/ DelEnd(x)
  <2>1. /\ UNCHANGED <<worker, main, reg, list, c2p, c2e, offer, keeper, panic>>
        /\ cleared' \in {cleared, cleared \cup {x[1]}}
        /\ \E l \in {"unlinked", "closed", "done"} : DelStep(x, l)
    BY <1>2 DEF DelUnlink, DelClose, DelEnd, cepVars, scaleVars
  <2>2. x[1] \in Cnt
    BY DEF Deletion
  <2> QED BY <2>1, <2>2 DEF ProvTyped, WorkerTyped, MainTyped, RestTyped, DelStep
<1> QED BY <1>1, <1>2 DEF Delete

LEMMA KeeperTyped ==
  ASSUME ProvTyped, KeeperCreate \/ KeeperAdd
  PROVE  ProvTyped'
<1>1. CASE KeeperCreate
  BY <1>1 DEF KeeperCreate, Fresh, Reg, RegAt, cepVars, delVars, scaleVars, ProvTyped,
     WorkerTyped, MainTyped, RestTyped
<1>2. CASE KeeperAdd
  BY <1>2 DEF KeeperAdd, delVars, scaleVars, ProvTyped, WorkerTyped, MainTyped, RestTyped
<1> QED BY <1>1, <1>2

LEMMA ScalerTyped ==
  ASSUME ProvTyped, ScalerTick
  PROVE  ProvTyped'
<1>1. Cardinality(list) \in Nat
  BY FS_CardinalityType DEF ProvTyped, RestTyped
<1>2. offer' \in Int
  BY <1>1, DeltaInt DEF ScalerTick
<1>3. UNCHANGED <<reg, list, c2p, c2e, del, cleared, main, keeper, worker, panic>>
  BY DEF ScalerTick, cepVars, delVars
<1> QED BY <1>2, <1>3 DEF ProvTyped, WorkerTyped, MainTyped, RestTyped

LEMMA MainTypedStep ==
  ASSUME ProvTyped, MainLoop
  PROVE  ProvTyped'
<1>1. CASE MainTestNil
  BY <1>1, CrashTyped DEF MainTestNil, Panics
<1>2. CASE MainZero
  BY <1>2 DEF MainZero, cepVars, delVars, ProvTyped, WorkerTyped, MainTyped, RestTyped
<1>3. CASE MainUp
  <2>1. PICK i \in Inst :
          worker' = [worker EXCEPT ![i] =
            [NoWorker EXCEPT !.pc = "make", !.size = offer, !.cap = Capacity(offer)]]
    BY <1>3 DEF MainUp
  <2>2. offer \in Int /\ offer > 0
    BY <1>3 DEF MainUp, ProvTyped, RestTyped
  <2>3. Capacity(offer) \in Nat
    BY <2>2 DEF Capacity
  <2> DEFINE w == [NoWorker EXCEPT !.pc = "make", !.size = offer,
                                   !.cap = Capacity(offer)]
  <2>4. WorkerTyped'
    <3>1. NoWorker \in WorkerRec /\ NoWorker.chan = <<>>
      BY DEF WorkerRec, WorkerAt, NoWorker
    <3>2. w \in WorkerRec
      BY <2>2, <2>3, <3>1 DEF WorkerRec, WorkerAt
    <3>3. w.pc = "make" /\ w.chan = <<>> /\ w.cap = Capacity(offer)
      BY <2>2, <2>3, <3>1 DEF WorkerRec
    <3>4. Len(w.chan) <= w.cap
      BY <2>3, <3>3
    <3> HIDE DEF w
    <3> QED BY <2>1, <3>2, <3>3, <3>4, WorkerSet DEF ProvTyped, AtFunction, w
  <2>5. /\ UNCHANGED <<reg, list, c2p, c2e, del, cleared, main, keeper, panic>>
        /\ offer' = Nil
    BY <1>3 DEF MainUp, cepVars, delVars
  <2> QED BY <2>4, <2>5 DEF ProvTyped, MainTyped, RestTyped
<1>4. CASE MainDown
  <2>1. MainTyped'
    BY <1>4 DEF MainDown, ProvTyped, MainTyped, MainRec, RestTyped
  <2>2. /\ UNCHANGED <<reg, list, c2p, c2e, del, cleared, worker, keeper, panic>>
        /\ offer' = Nil
    BY <1>4 DEF MainDown, cepVars, delVars
  <2> QED BY <2>1, <2>2 DEF ProvTyped, WorkerTyped, RestTyped
<1>5. ASSUME NEW c \in Cnt, MainScan(c) PROVE ProvTyped'
  <2>1. MainTyped'
    <3>1. main' \in {[main EXCEPT !.todo = @ \ {c}],
                     [main EXCEPT !.pc = "test", !.cnt = c, !.todo = @ \ {c}]}
      BY <1>5 DEF MainScan
    <3>2. main \in MainRec /\ main.pc = "scan"
      BY <1>5 DEF MainScan, ProvTyped, MainTyped
    <3> QED BY <3>1, <3>2 DEF MainTyped, MainRec
  <2>2. UNCHANGED <<reg, list, c2p, del, cleared, offer, worker, keeper, panic>>
        /\ c2e' \in {c2e, c2e \ {c}}
    BY <1>5 DEF MainScan, delVars
  <2> QED BY <2>1, <2>2 DEF ProvTyped, WorkerTyped, RestTyped
<1>6. CASE MainTest
  <2>1. MainTyped'
    <3>1. main' \in {[main EXCEPT !.pc = "scan"], [main EXCEPT !.pc = "send"]}
      BY <1>6 DEF MainTest
    <3>2. main \in MainRec /\ main.cnt \in Cnt
      BY <1>6 DEF MainTest, ProvTyped, MainTyped
    <3> QED BY <3>1, <3>2 DEF MainTyped, MainRec
  <2>2. UNCHANGED <<reg, list, c2p, del, cleared, offer, worker, keeper, panic>>
        /\ c2e' \in {c2e, c2e \ {main.cnt}}
    BY <1>6 DEF MainTest, delVars
  <2> QED BY <2>1, <2>2 DEF ProvTyped, WorkerTyped, RestTyped
<1>7. CASE MainSend
  <2> DEFINE i == c2p[main.cnt]
  <2>1. main.cnt \in Cnt /\ i \in Inst /\ Len(worker[i].chan) < worker[i].cap
    BY <1>7 DEF MainSend, Room, ProvTyped, MainTyped
  <2>2. worker' = [worker EXCEPT ![i].chan = Append(@, main.cnt)]
    BY <1>7 DEF MainSend
  <2>3. WorkerTyped'
    <3> HIDE DEF i
    <3> DEFINE w == [worker[i] EXCEPT !.chan = Append(@, main.cnt)]
    <3>1. worker[i] \in WorkerRec
      BY <2>1 DEF ProvTyped, WorkerTyped
    <3>2. /\ Append(worker[i].chan, main.cnt) \in Seq(Cnt)
          /\ Len(Append(worker[i].chan, main.cnt)) = Len(worker[i].chan) + 1
          /\ worker[i].cap \in Nat /\ Len(worker[i].chan) \in Nat
      BY <2>1, <3>1 DEF WorkerRec
    <3>3. w \in WorkerRec
      BY <3>1, <3>2 DEF WorkerRec
    <3>4. /\ w.pc = worker[i].pc /\ w.cnt = worker[i].cnt /\ w.cap = worker[i].cap
          /\ w.chan = Append(worker[i].chan, main.cnt)
      BY <3>1, <3>2 DEF WorkerRec
    <3>5. Len(w.chan) <= w.cap /\ (w.pc \in AtFunction => w.cnt \in Cnt)
      BY <2>1, <3>2, <3>4 DEF ProvTyped, WorkerTyped
    <3>6. worker' = [worker EXCEPT ![i] = w]
      BY <2>2
    <3> HIDE DEF w
    <3> QED BY <2>1, <3>3, <3>5, <3>6, WorkerSet DEF ProvTyped
  <2>4. MainTyped'
    <3>1. main' \in {Idle, [main EXCEPT !.pc = "scan", !.delta = @ + 1]}
      BY <1>7 DEF MainSend
    <3>2. Idle \in MainRec /\ Idle.pc = "idle"
      BY DEF Idle, MainRec
    <3>3. main \in MainRec
      BY DEF ProvTyped, MainTyped
    <3>4. CASE main' = Idle
      BY <3>2, <3>4 DEF MainTyped
    <3>5. CASE main' = [main EXCEPT !.pc = "scan", !.delta = @ + 1]
      <4> DEFINE d == main.delta + 1
      <4>0. d \in Int
        BY <3>3 DEF MainRec
      <4>1. main' \in MainRec
        <5>1. main' = [main EXCEPT !.pc = "scan", !.delta = d]
          BY <3>5
        <5> HIDE DEF d
        <5> QED BY <3>3, <4>0, <5>1 DEF MainRec
      <4>2. main'.pc = "scan"
        BY <3>3, <3>5 DEF MainRec
      <4> QED BY <4>1, <4>2 DEF MainTyped
    <3> QED BY <3>1, <3>4, <3>5
  <2>5. UNCHANGED <<reg, list, c2p, c2e, del, cleared, offer, keeper, panic>>
    BY <1>7 DEF MainSend, cepVars, delVars
  <2> QED BY <2>3, <2>4, <2>5 DEF ProvTyped, RestTyped
<1>8. CASE MainEnd
  BY <1>8 DEF MainEnd, Idle, cepVars, delVars, ProvTyped, WorkerTyped, MainTyped, MainRec,
     RestTyped
<1> QED BY <1>1, <1>2, <1>3, <1>4, <1>5, <1>6, <1>7, <1>8 DEF MainLoop

LEMMA WorkerTypedStep ==
  ASSUME ProvTyped, NEW i \in Inst, WorkerStep(i)
  PROVE  ProvTyped'
<1>0. worker[i] \in WorkerRec /\ Len(worker[i].chan) <= worker[i].cap
  BY DEF ProvTyped, WorkerTyped
<1>1. CASE WorkerGetNil(i) \/ WorkerGetRace(i)
  BY <1>1, CrashTyped DEF WorkerGetNil, WorkerGetRace, Panics
<1>2. CASE WorkerCreate(i)
  <2>1. PICK c \in Fresh(i) :
          /\ Reg(c, "asked")
          /\ worker' = [worker EXCEPT ![i].pc = "add", ![i].cnt = c,
                                      ![i].ids = Remember(i, c)]
    BY <1>2 DEF WorkerCreate
  <2>2. c \in Cnt /\ Remember(i, c) \in SUBSET Cnt
    BY <1>0 DEF Fresh, Remember, WorkerRec
  <2> DEFINE w == [worker[i] EXCEPT !.pc = "add", !.cnt = c, !.ids = Remember(i, c)]
  <2>3. w \in WorkerRec
    BY <1>0, <2>2 DEF WorkerRec, WorkerAt
  <2>4. w.cnt = c /\ w.chan = worker[i].chan /\ w.cap = worker[i].cap
    BY <1>0, <2>2 DEF WorkerRec
  <2>5. worker' = [worker EXCEPT ![i] = w]
    BY <2>1 DEF ProvTyped, WorkerTyped
  <2>6. WorkerTyped'
    <3> HIDE DEF w
    <3> QED BY <1>0, <2>2, <2>3, <2>4, <2>5, WorkerSet DEF ProvTyped
  <2>7. UNCHANGED <<list, c2p, c2e, del, cleared, offer, main, keeper, panic>>
    BY <1>2 DEF WorkerCreate, cepVars, delVars, scaleVars
  <2> QED BY <2>1, <2>2, <2>6, <2>7 DEF ProvTyped, MainTyped, RestTyped, Reg, RegAt
<1>3. CASE WorkerAdd(i)
  <2> DEFINE more == worker[i].made + 1 < worker[i].size
             l == IF more THEN "make" ELSE "loop"
             n == IF more THEN worker[i].made + 1 ELSE 0
             w == [worker[i] EXCEPT !.pc = l, !.made = n, !.cnt = Nil]
  <2>0. l \in {"make", "loop"} /\ n \in Nat
    BY <1>0 DEF WorkerRec
  <2>1. worker' = [worker EXCEPT ![i] = w]
    BY <1>3 DEF WorkerAdd, ProvTyped, WorkerTyped
  <2>2. w \in WorkerRec
    <3> HIDE DEF l, n
    <3> QED BY <1>0, <2>0 DEF WorkerRec, WorkerAt
  <2>3. w.pc = l /\ w.chan = worker[i].chan /\ w.cap = worker[i].cap
    <3> HIDE DEF l, n
    <3> QED BY <1>0, <2>0 DEF WorkerRec
  <2>4. WorkerTyped'
    <3> HIDE DEF w
    <3> QED BY <1>0, <2>0, <2>1, <2>2, <2>3, WorkerSet DEF ProvTyped, AtFunction
  <2>5. /\ UNCHANGED <<reg, list, c2e, del, cleared, offer, main, keeper, panic>>
        /\ c2p' = [c2p EXCEPT ![worker[i].cnt] = i]
    BY <1>3 DEF WorkerAdd, delVars, scaleVars
  <2> QED BY <2>4, <2>5 DEF ProvTyped, MainTyped, RestTyped
<1>4. CASE WorkerTick(i) \/ WorkerRemove(i) \/ WorkerGet(i)
  <2>1. \E l \in {"returned", "make", "get", "read"} :
          /\ Work(i, l)
          /\ l \in AtFunction => worker[i].pc \in AtFunction
    BY <1>4 DEF WorkerTick, WorkerRemove, WorkerGet, AtFunction
  <2>2. WorkerTyped'
    <3>1. PICK l \in {"returned", "make", "get", "read"} :
            /\ Work(i, l)
            /\ l \in AtFunction => worker[i].pc \in AtFunction
      BY <2>1
    <3> DEFINE w == [worker[i] EXCEPT !.pc = l]
    <3>2. w \in WorkerRec
      BY <1>0 DEF WorkerRec, WorkerAt
    <3>3. /\ w.pc = l /\ w.cnt = worker[i].cnt /\ w.chan = worker[i].chan
          /\ w.cap = worker[i].cap
      BY <1>0 DEF WorkerRec
    <3>4. worker' = [worker EXCEPT ![i] = w]
      BY <3>1 DEF Work
    <3>5. w.pc \in AtFunction => w.cnt \in Cnt
      BY <3>1, <3>3 DEF ProvTyped, WorkerTyped
    <3> HIDE DEF w
    <3> QED BY <1>0, <3>2, <3>3, <3>4, <3>5, WorkerSet DEF ProvTyped
  <2>3. /\ UNCHANGED <<reg, list, c2e, del, cleared, offer, main, keeper, panic>>
        /\ c2p' \in {c2p, [c2p EXCEPT ![worker[i].cnt] = Nil]}
    BY <1>4 DEF WorkerTick, WorkerRemove, WorkerGet, cepVars, delVars, scaleVars
  <2> QED BY <2>2, <2>3 DEF ProvTyped, MainTyped, RestTyped
<1>5. CASE WorkerReceive(i)
  <2> DEFINE c == Head(worker[i].chan)
             w == IF c \in worker[i].ids
                    THEN [worker[i] EXCEPT !.pc = "remove", !.cnt = c, !.ids = @ \ {c},
                                           !.chan = Tail(@)]
                    ELSE [worker[i] EXCEPT !.chan = Tail(@)]
  <2>1. worker' = [worker EXCEPT ![i] = w] /\ worker[i].chan # <<>>
        /\ worker[i].pc = "loop"
    BY <1>5 DEF WorkerReceive
  <2>2. /\ worker[i].chan \in Seq(Cnt) /\ worker[i].ids \in SUBSET Cnt
        /\ worker[i].cap \in Nat
    BY <1>0 DEF WorkerRec
  <2>3. /\ c \in Cnt /\ Tail(worker[i].chan) \in Seq(Cnt)
        /\ Len(Tail(worker[i].chan)) <= worker[i].cap
    BY <1>0, <2>1, <2>2
  <2>4. w \in WorkerRec
    <3> HIDE DEF c
    <3> QED BY <1>0, <2>2, <2>3 DEF WorkerRec, WorkerAt
  <2>5. /\ w.pc = "loop" \/ w.cnt = c
        /\ w.chan = Tail(worker[i].chan) /\ w.cap = worker[i].cap
    <3> HIDE DEF c
    <3> QED BY <1>0, <2>1, <2>2, <2>3 DEF WorkerRec
  <2>6. WorkerTyped'
    <3> HIDE DEF w, c
    <3> QED BY <2>1, <2>3, <2>4, <2>5, WorkerSet DEF ProvTyped, AtFunction
  <2>7. UNCHANGED <<reg, list, c2p, c2e, del, cleared, offer, main, keeper, panic>>
    BY <1>5 DEF WorkerReceive, cepVars, delVars, scaleVars
  <2> QED BY <2>6, <2>7 DEF ProvTyped, MainTyped, RestTyped
<1>6. CASE WorkerRead(i)
  <2> DEFINE k == worker[i].cnt \notin cleared
             w == [worker[i] EXCEPT !.pc = "delete", !.known = k]
  <2>1. worker' = [worker EXCEPT ![i] = w]
    BY <1>6 DEF WorkerRead, ProvTyped, WorkerTyped
  <2>2. k \in BOOLEAN /\ worker[i].cnt \in Cnt
    BY <1>6 DEF WorkerRead, ProvTyped, WorkerTyped, AtFunction
  <2>3. w \in WorkerRec
    <3> HIDE DEF k
    <3> QED BY <1>0, <2>2 DEF WorkerRec, WorkerAt
  <2>4. w.cnt = worker[i].cnt /\ w.chan = worker[i].chan /\ w.cap = worker[i].cap
    <3> HIDE DEF k
    <3> QED BY <1>0, <2>2 DEF WorkerRec
  <2>5. WorkerTyped'
    <3> HIDE DEF w
    <3> QED BY <1>0, <2>1, <2>2, <2>3, <2>4, WorkerSet DEF ProvTyped
  <2>6. UNCHANGED <<reg, list, c2p, c2e, del, cleared, offer, main, keeper, panic>>
    BY <1>6 DEF WorkerRead, cepVars, delVars, scaleVars
  <2> QED BY <2>5, <2>6 DEF ProvTyped, MainTyped, RestTyped
<1>7. CASE WorkerUnlist(i)
  <2> DEFINE n == worker[i].size - 1
             w == [worker[i] EXCEPT !.pc = "loop", !.size = n, !.cnt = Nil,
                                    !.known = FALSE]
  <2>0. n \in Int
    BY <1>0 DEF WorkerRec
  <2>1. worker' = [worker EXCEPT ![i] = w]
    BY <1>7 DEF WorkerUnlist, ProvTyped, WorkerTyped
  <2>2. w \in WorkerRec
    <3> HIDE DEF n
    <3> QED BY <1>0, <2>0 DEF WorkerRec, WorkerAt
  <2>3. w.pc = "loop" /\ w.chan = worker[i].chan /\ w.cap = worker[i].cap
    <3> HIDE DEF n
    <3> QED BY <1>0, <2>0 DEF WorkerRec
  <2>4. WorkerTyped'
    <3> HIDE DEF w
    <3> QED BY <1>0, <2>1, <2>2, <2>3, WorkerSet DEF ProvTyped, AtFunction
  <2>5. /\ UNCHANGED <<reg, c2p, c2e, del, cleared, offer, main, keeper, panic>>
        /\ list' \in {list, list \ {worker[i].cnt}}
    BY <1>7 DEF WorkerUnlist, Unlisted, cepVars, delVars, scaleVars
  <2>6. IsFiniteSet(list')
    BY <2>5, FS_RemoveElement DEF ProvTyped, RestTyped
  <2> QED BY <2>4, <2>5, <2>6 DEF ProvTyped, MainTyped, RestTyped
<1> QED BY <1>1, <1>2, <1>3, <1>4, <1>5, <1>6, <1>7 DEF WorkerStep

LEMMA ProvTypedStep ==
  ASSUME ProvTyped, [Next]_vars
  PROVE  ProvTyped'
<1>1. CASE Next
  BY <1>1, RegistrationTyped, DeleteTyped, KeeperTyped, ScalerTyped, MainTypedStep,
     WorkerTypedStep DEF Next
<1>2. CASE UNCHANGED vars
  BY <1>2 DEF vars, cepVars, delVars, scaleVars, ProvTyped, WorkerTyped, MainTyped,
     RestTyped
<1> QED BY <1>1, <1>2

(* The type invariant, for any number of containers and Instances; a       *)
(* decChan never holds more orders than it was made for.                   *)
THEOREM ProvTypeCorrect == Spec => []TypeOK
  BY ProvTypedInit, ProvTypedStep, ProvTypedIsTypeOK, PTL DEF Spec

-----------------------------------------------------------------------------
(* A container that has registered stays registered, and never registers   *)
(* again: its id is drawn once.                                            *)
Joined == {"spawned", "armed", "leave", "over"}

(* The life of a container: it is on the list neither before its ping nor  *)
(* after the end of its lease, and an element that has lost its container  *)
(* was deleted to the end.                                                 *)
LifeInv ==
  \A c \in Cnt :
    /\ c \in list => reg[c] \notin {"free", "asked", "leave"}
    /\ c \in c2e => reg[c] \in Joined
    /\ del[<<c, "lease">>] # "idle" => reg[c] = "leave"
    /\ del[<<c, "scale">>] # "idle" => reg[c] \in Joined
    /\ c \in cleared => "done" \in {del[<<c, "lease">>], del[<<c, "scale">>]}

AtRemoval == {"remove", "get", "read", "delete"}

Deleting(i, c) == worker[i].pc = "delete" /\ worker[i].cnt = c

(* Only the worker that asked for a function removes it, and only once; it *)
(* keeps it in hand from the first step of Delete until it takes it off    *)
(* the list, and a container it does not know by then has left the list.   *)
HandAt(i) ==
  /\ \A c \in worker[i].ids :
       /\ Asker[c] = i /\ del[<<c, "scale">>] = "idle"
       /\ worker[i].pc \in AtRemoval => worker[i].cnt # c
  /\ worker[i].pc \in AtRemoval => Asker[worker[i].cnt] = i
  /\ worker[i].pc \in {"remove", "get", "read"}
       => del[<<worker[i].cnt, "scale">>] = "idle"
  /\ worker[i].pc \in {"read", "delete"} => reg[worker[i].cnt] \in Joined
  /\ worker[i].pc = "delete" => worker[i].known \/ worker[i].cnt \notin list

ScaleAt(c) ==
  del[<<c, "scale">>] # "idle"
    => \/ \E i \in Inst : Deleting(i, c)
       \/ del[<<c, "scale">>] = "done" /\ c \notin list

HandInv == (\A i \in Inst : HandAt(i)) /\ (\A c \in Cnt : ScaleAt(c))

-----------------------------------------------------------------------------
(* What the steps leave alone.                                             *)
LEMMA RegistrationFrame ==
  ASSUME ProvTyped, NEW c \in Cnt, Registration(c)
  PROVE  /\ UNCHANGED <<del, cleared, worker>>
         /\ \/ UNCHANGED <<reg, list, c2e>>
            \/ reg[c] = "asked" /\ Reg(c, "listed") /\ list' = list \cup {c} /\ c2e' = c2e
            \/ /\ Reg(c, "spawned") /\ list' = list /\ c2e' = c2e \cup {c}
               /\ reg[c] = "listed"
            \/ Reg(c, "armed") /\ UNCHANGED <<list, c2e>> /\ reg[c] = "spawned"
            \/ Reg(c, "leave") /\ list' = list \ {c} /\ c2e' = c2e /\ reg[c] = "armed"
            \/ Reg(c, "over") /\ UNCHANGED <<list, c2e>> /\ reg[c] = "armed"
  BY DEF Registration, Onboard, Ping, TimerFires, AddConnElem, TimerStart, TimerNil,
     TimerStops, Crash, cepVars, delVars

LEMMA DeleteFrame ==
  ASSUME NEW x \in Deletion, Delete(x)
  PROVE  /\ UNCHANGED <<reg, list, c2e, worker>>
         /\ \/ UNCHANGED <<del, cleared>>
            \/ /\ del[x] = "idle" /\ Called(x)
               /\ \/ DelStep(x, "unlinked") /\ cleared' = cleared
                  \/ DelStep(x, "done") /\ cleared' = cleared \cup {x[1]}
            \/ del[x] = "unlinked" /\ DelStep(x, "closed") /\ cleared' = cleared
            \/ /\ del[x] = "closed" /\ DelStep(x, "done")
               /\ cleared' \in {cleared, cleared \cup {x[1]}}
  BY DEF Delete, DelUnlink, DelClose, DelCloseAgain, DelEnd, DelEndNil, Crash, cepVars,
     delVars

LEMMA MainFrame ==
  ASSUME MainLoop
  PROVE  /\ UNCHANGED <<reg, list, del, cleared>> /\ c2e' \subseteq c2e
         /\ MainUp \/ MainSend \/ worker' = worker
  BY DEF MainLoop, MainZero, MainUp, MainDown, MainScan, MainTest, MainTestNil, MainSend,
     MainEnd, Crash, cepVars, delVars

LEMMA WorkerFrame ==
  ASSUME NEW i \in Inst, WorkerStep(i)
  PROVE  /\ UNCHANGED <<c2e, del, cleared>> /\ list' \subseteq list
         /\ reg' = reg \/ \E c \in Fresh(i) : Reg(c, "asked")
  BY DEF WorkerStep, WorkerCreate, WorkerAdd, WorkerTick, WorkerReceive, WorkerRemove,
     WorkerGet, WorkerGetNil, WorkerGetRace, WorkerRead, WorkerUnlist, Crash, cepVars,
     delVars

LEMMA KeeperFrame ==
  ASSUME KeeperCreate \/ KeeperAdd \/ ScalerTick
  PROVE  /\ UNCHANGED <<list, c2e, del, cleared, worker>>
         /\ reg' = reg \/ \E c \in Fresh("min") : Reg(c, "asked")
  BY DEF KeeperCreate, KeeperAdd, ScalerTick, cepVars, delVars

-----------------------------------------------------------------------------
LEMMA LifeKept ==
  ASSUME ProvTyped, LifeInv, UNCHANGED <<del, cleared>>, c2e' \subseteq c2e,
         list' \subseteq list,
         \/ reg' = reg
         \/ \E c \in Cnt : reg[c] = "free" /\ Reg(c, "asked")
  PROVE  LifeInv'
<1>0. reg \in [Cnt -> RegAt]
  BY DEF ProvTyped, RestTyped
<1>1. \A c \in Cnt : reg'[c] = reg[c] \/ (reg[c] = "free" /\ reg'[c] = "asked")
  BY <1>0 DEF Reg
<1> SUFFICES ASSUME NEW c \in Cnt
             PROVE  /\ c \in list' => reg'[c] \notin {"free", "asked", "leave"}
                    /\ c \in c2e' => reg'[c] \in Joined
                    /\ del'[<<c, "lease">>] # "idle" => reg'[c] = "leave"
                    /\ del'[<<c, "scale">>] # "idle" => reg'[c] \in Joined
                    /\ c \in cleared'
                         => "done" \in {del'[<<c, "lease">>], del'[<<c, "scale">>]}
  BY DEF LifeInv
<1> QED BY <1>1 DEF LifeInv, Joined

LEMMA LifeRegistration ==
  ASSUME ProvTyped, LifeInv, NEW b \in Cnt, Registration(b)
  PROVE  LifeInv'
<1>0. reg \in [Cnt -> RegAt]
  BY DEF ProvTyped, RestTyped
<1> SUFFICES ASSUME NEW c \in Cnt
             PROVE  /\ c \in list' => reg'[c] \notin {"free", "asked", "leave"}
                    /\ c \in c2e' => reg'[c] \in Joined
                    /\ del'[<<c, "lease">>] # "idle" => reg'[c] = "leave"
                    /\ del'[<<c, "scale">>] # "idle" => reg'[c] \in Joined
                    /\ c \in cleared'
                         => "done" \in {del'[<<c, "lease">>], del'[<<c, "scale">>]}
  BY DEF LifeInv
<1>1. UNCHANGED <<del, cleared>>
  BY RegistrationFrame
<1>2. CASE c # b
  <2>1. reg'[c] = reg[c] /\ (c \in list' <=> c \in list) /\ (c \in c2e' <=> c \in c2e)
    BY <1>0, <1>2, RegistrationFrame DEF Reg
  <2> QED BY <1>1, <2>1 DEF LifeInv
<1>3. CASE c = b
  <2>1. CASE UNCHANGED <<reg, list, c2e>>
    BY <1>1, <2>1 DEF LifeInv
  <2>2. CASE reg[c] = "asked" /\ reg'[c] = "listed" /\ c2e' = c2e
    BY <1>1, <2>2 DEF LifeInv, Joined
  <2>3. CASE reg[c] = "listed" /\ reg'[c] = "spawned" /\ list' = list
    BY <1>1, <2>3 DEF LifeInv, Joined
  <2>4. CASE reg[c] = "spawned" /\ reg'[c] = "armed" /\ UNCHANGED <<list, c2e>>
    BY <1>1, <2>4 DEF LifeInv, Joined
  <2>5. CASE reg[c] = "armed" /\ reg'[c] = "leave" /\ c \notin list' /\ c2e' = c2e
    BY <1>1, <2>5 DEF LifeInv, Joined
  <2>6. CASE reg[c] = "armed" /\ reg'[c] = "over" /\ UNCHANGED <<list, c2e>>
    BY <1>1, <2>6 DEF LifeInv, Joined
  <2>7. \/ UNCHANGED <<reg, list, c2e>>
        \/ reg[c] = "asked" /\ reg'[c] = "listed" /\ c2e' = c2e
        \/ reg[c] = "listed" /\ reg'[c] = "spawned" /\ list' = list
        \/ reg[c] = "spawned" /\ reg'[c] = "armed" /\ UNCHANGED <<list, c2e>>
        \/ reg[c] = "armed" /\ reg'[c] = "leave" /\ c \notin list' /\ c2e' = c2e
        \/ reg[c] = "armed" /\ reg'[c] = "over" /\ UNCHANGED <<list, c2e>>
    BY <1>0, <1>3, RegistrationFrame DEF Reg
  <2> QED BY <2>1, <2>2, <2>3, <2>4, <2>5, <2>6, <2>7
<1> QED BY <1>2, <1>3

(* The timer calls Delete when the lease is over, a worker when it has got *)
(* the element from c2e.                                                   *)
LEMMA CalledJoined ==
  ASSUME HandInv, NEW c \in Cnt, NEW k \in {"lease", "scale"}, Called(<<c, k>>)
  PROVE  /\ k = "lease" => reg[c] = "leave"
         /\ k = "scale" => reg[c] \in Joined /\ \E i \in Inst : Deleting(i, c)
  BY DEF Called, LeaseOver, HandInv, HandAt, Deleting

LEMMA LifeDelete ==
  ASSUME ProvTyped, LifeInv, HandInv, NEW x \in Deletion, Delete(x)
  PROVE  LifeInv'
<1>0. del \in [Deletion -> {"idle", "unlinked", "closed", "done"}]
  BY DEF ProvTyped, RestTyped
<1>1. UNCHANGED <<reg, list, c2e>>
  BY DeleteFrame
<1>2. PICK b \in Cnt, k \in {"lease", "scale"} : x = <<b, k>>
  BY DEF Deletion
<1>3. \A c \in Cnt : <<c, "lease">> \in Deletion /\ <<c, "scale">> \in Deletion
  BY DEF Deletion
<1>4. \A y \in Deletion : y # x => del'[y] = del[y]
  BY <1>0, DeleteFrame DEF DelStep
<1>5. del'[x] = del[x] \/ del[x] # "idle" \/ Called(x)
  BY <1>0, DeleteFrame DEF DelStep
<1>6. cleared' = cleared \/ (cleared' = cleared \cup {b} /\ del'[x] = "done")
  BY <1>0, <1>2, DeleteFrame DEF DelStep
<1>7. del'[x] = del[x] \/ del[x] # "done"
  BY <1>0, DeleteFrame DEF DelStep
<1> SUFFICES ASSUME NEW c \in Cnt
             PROVE  /\ del'[<<c, "lease">>] # "idle" => reg[c] = "leave"
                    /\ del'[<<c, "scale">>] # "idle" => reg[c] \in Joined
                    /\ c \in cleared'
                         => "done" \in {del'[<<c, "lease">>], del'[<<c, "scale">>]}
  BY <1>1 DEF LifeInv
<1>8. del'[<<c, "lease">>] # "idle" => reg[c] = "leave"
  <2>1. CASE x = <<c, "lease">>
    BY <1>5, <2>1, CalledJoined DEF LifeInv
  <2>2. CASE x # <<c, "lease">>
    BY <1>3, <1>4, <2>2 DEF LifeInv
  <2> QED BY <2>1, <2>2
<1>9. del'[<<c, "scale">>] # "idle" => reg[c] \in Joined
  <2>1. CASE x = <<c, "scale">>
    BY <1>5, <2>1, CalledJoined DEF LifeInv
  <2>2. CASE x # <<c, "scale">>
    BY <1>3, <1>4, <2>2 DEF LifeInv
  <2> QED BY <2>1, <2>2
<1>10. c \in cleared' => "done" \in {del'[<<c, "lease">>], del'[<<c, "scale">>]}
  <2>1. CASE c \in cleared
    <3>1. PICK y \in {<<c, "lease">>, <<c, "scale">>} : del[y] = "done"
      BY <2>1 DEF LifeInv
    <3>2. del'[y] = "done"
      BY <1>3, <1>4, <1>7, <3>1
    <3> QED BY <3>1, <3>2
  <2>2. CASE c \notin cleared /\ c \in cleared'
    BY <1>2, <1>6, <2>2
  <2> QED BY <2>1, <2>2
<1> QED BY <1>8, <1>9, <1>10

LEMMA LifeStep ==
  ASSUME ProvTyped, LifeInv, HandInv, Next
  PROVE  LifeInv'
<1>1. ASSUME NEW c \in Cnt, Registration(c) PROVE LifeInv'
  BY <1>1, LifeRegistration
<1>2. ASSUME NEW x \in Deletion, Delete(x) PROVE LifeInv'
  BY <1>2, LifeDelete
<1>3. CASE KeeperCreate \/ KeeperAdd \/ ScalerTick
  BY <1>3, KeeperFrame, LifeKept DEF Fresh
<1>4. CASE MainLoop
  BY <1>4, MainFrame, LifeKept
<1>5. ASSUME NEW i \in Inst, WorkerStep(i) PROVE LifeInv'
  BY <1>5, WorkerFrame, LifeKept DEF Fresh
<1> QED BY <1>1, <1>2, <1>3, <1>4, <1>5 DEF Next

-----------------------------------------------------------------------------
(* Containers that have joined stay so, and do not come back to the list.  *)
Settled ==
  \A c \in Cnt : reg[c] \in Joined => reg'[c] \in Joined /\ (c \in list' => c \in list)

LEMMA SettledStep ==
  ASSUME ProvTyped, Next
  PROVE  Settled
<1>0. reg \in [Cnt -> RegAt]
  BY DEF ProvTyped, RestTyped
<1>1. ASSUME NEW c \in Cnt, Registration(c) PROVE Settled
  BY <1>0, <1>1, RegistrationFrame DEF Settled, Joined, Reg
<1>2. ASSUME list' \subseteq list,
             reg' = reg \/ \E c \in Cnt : reg[c] = "free" /\ Reg(c, "asked")
      PROVE  Settled
  BY <1>0, <1>2 DEF Settled, Joined, Reg
<1>3. CASE KeeperCreate \/ KeeperAdd \/ ScalerTick
  BY <1>2, <1>3, KeeperFrame DEF Fresh
<1>4. CASE MainLoop
  BY <1>2, <1>4, MainFrame
<1>5. ASSUME NEW i \in Inst, WorkerStep(i) PROVE Settled
  BY <1>2, <1>5, WorkerFrame DEF Fresh
<1>6. ASSUME NEW x \in Deletion, Delete(x) PROVE Settled
  BY <1>2, <1>6, DeleteFrame
<1> QED BY <1>1, <1>3, <1>4, <1>5, <1>6 DEF Next

(* A worker that does not move keeps what it has in hand.                  *)
LEMMA HandKept ==
  ASSUME ProvTyped, Settled, del' = del, NEW i \in Inst, HandAt(i),
         worker'[i].pc = worker[i].pc, worker'[i].cnt = worker[i].cnt,
         worker'[i].ids = worker[i].ids, worker'[i].known = worker[i].known
  PROVE  HandAt(i)'
<1>1. worker[i].pc \in AtRemoval => worker[i].cnt \in Cnt
  BY DEF ProvTyped, WorkerTyped, AtRemoval, AtFunction
<1> QED BY <1>1 DEF HandAt, Settled, AtRemoval

LEMMA ScaleKept ==
  ASSUME ProvTyped, LifeInv, Settled, del' = del, NEW c \in Cnt, ScaleAt(c),
         \A i \in Inst : Deleting(i, c) => Deleting(i, c)'
  PROVE  ScaleAt(c)'
  BY DEF ScaleAt, Settled, LifeInv

LEMMA HandsStill ==
  ASSUME ProvTyped, LifeInv, HandInv, Settled, UNCHANGED <<del, worker>>
  PROVE  HandInv'
<1>1. \A i \in Inst : HandAt(i)'
  BY HandKept DEF HandInv
<1>2. \A c \in Cnt : ScaleAt(c)'
  BY ScaleKept DEF HandInv, Deleting
<1> QED BY <1>1, <1>2 DEF HandInv

LEMMA HandDelete ==
  ASSUME ProvTyped, LifeInv, HandInv, NEW x \in Deletion, Delete(x)
  PROVE  HandInv'
<1>0. del \in [Deletion -> {"idle", "unlinked", "closed", "done"}]
  BY DEF ProvTyped, RestTyped
<1>1. UNCHANGED <<reg, list, c2e, worker>>
  BY DeleteFrame
<1>2. PICK b \in Cnt, k \in {"lease", "scale"} : x = <<b, k>>
  BY DEF Deletion
<1>3. \A y \in Deletion : y # x => del'[y] = del[y]
  BY <1>0, DeleteFrame DEF DelStep
<1>4. /\ \/ del'[x] = del[x]
         \/ del[x] \in {"unlinked", "closed"} /\ del'[x] # "idle"
         \/ Called(x) /\ del'[x] # "idle"
  BY <1>0, DeleteFrame DEF DelStep
<1>5. ASSUME NEW c \in Cnt, del'[<<c, "scale">>] # del[<<c, "scale">>]
      PROVE  \E i \in Inst : Deleting(i, c)
  <2>1. x = <<c, "scale">>
    BY <1>3, <1>5 DEF Deletion
  <2>2. CASE del[x] \in {"unlinked", "closed"}
    BY <2>1, <2>2 DEF HandInv, ScaleAt
  <2>3. CASE Called(x)
    BY <2>1, <2>3, CalledJoined
  <2> QED BY <1>4, <1>5, <2>1, <2>2, <2>3
<1>6. ASSUME NEW i \in Inst PROVE HandAt(i)'
  <2>0. /\ worker[i].ids \in SUBSET Cnt
        /\ worker[i].pc \in AtRemoval => worker[i].cnt \in Cnt
    BY DEF ProvTyped, WorkerTyped, WorkerRec, AtRemoval, AtFunction
  <2>1. ASSUME NEW c \in worker[i].ids PROVE del'[<<c, "scale">>] = "idle"
    <3>1. c \in Cnt /\ Asker[c] = i /\ del[<<c, "scale">>] = "idle"
      BY <2>0 DEF HandInv, HandAt
    <3>2. \A j \in Inst : ~Deleting(j, c)
      BY <3>1 DEF HandInv, HandAt, Deleting, AtRemoval
    <3> QED BY <1>5, <3>1, <3>2
  <2>2. ASSUME worker[i].pc \in {"remove", "get", "read"}
        PROVE  del'[<<worker[i].cnt, "scale">>] = "idle"
    <3> DEFINE c == worker[i].cnt
    <3>1. c \in Cnt /\ Asker[c] = i /\ del[<<c, "scale">>] = "idle"
      BY <2>0, <2>2 DEF HandInv, HandAt, AtRemoval
    <3>2. \A j \in Inst : ~Deleting(j, c)
      BY <2>2, <3>1 DEF HandInv, HandAt, Deleting, AtRemoval
    <3> QED BY <1>5, <3>1, <3>2
  <2> QED BY <1>1, <2>1, <2>2 DEF HandInv, HandAt
<1>7. ASSUME NEW c \in Cnt PROVE ScaleAt(c)'
  <2>1. CASE del'[<<c, "scale">>] = del[<<c, "scale">>]
    BY <1>1, <2>1 DEF HandInv, ScaleAt, Deleting
  <2>2. CASE del'[<<c, "scale">>] # del[<<c, "scale">>]
    <3>1. PICK i \in Inst : Deleting(i, c)
      BY <1>5, <2>2
    <3>2. Deleting(i, c)'
      BY <1>1, <3>1 DEF Deleting
    <3> QED BY <3>2 DEF ScaleAt
  <2> QED BY <2>1, <2>2
<1> QED BY <1>6, <1>7 DEF HandInv

LEMMA HandMain ==
  ASSUME ProvTyped, LifeInv, HandInv, Settled, MainLoop
  PROVE  HandInv'
<1>0. worker \in [Inst -> WorkerRec] /\ UNCHANGED <<reg, list, del>>
  BY MainFrame DEF ProvTyped, WorkerTyped
<1>1. CASE worker' = worker
  BY <1>0, <1>1, HandsStill
<1>2. CASE MainUp
  <2> DEFINE w == [NoWorker EXCEPT !.pc = "make", !.size = offer,
                                   !.cap = Capacity(offer)]
  <2>1. PICK i \in Inst : worker[i].pc = "off" /\ worker' = [worker EXCEPT ![i] = w]
    BY <1>2 DEF MainUp, CanStart
  <2>2. NoWorker \in WorkerRec /\ NoWorker.ids = {}
    BY DEF WorkerRec, WorkerAt, NoWorker
  <2>3. w.pc = "make" /\ w.ids = {}
    BY <2>2 DEF WorkerRec
  <2> HIDE DEF w
  <2>4. HandAt(i)'
    BY <1>0, <2>1, <2>3 DEF HandAt, AtRemoval
  <2>5. ASSUME NEW j \in Inst, j # i PROVE HandAt(j)'
    <3>1. worker'[j] = worker[j]
      BY <2>1, <2>5
    <3> QED BY <1>0, <3>1, HandKept DEF HandInv
  <2>6. ASSUME NEW c \in Cnt PROVE ScaleAt(c)'
    <3>1. \A j \in Inst : Deleting(j, c) => Deleting(j, c)'
      BY <1>0, <2>1 DEF Deleting
    <3> QED BY <1>0, <3>1, ScaleKept DEF HandInv
  <2> QED BY <2>4, <2>5, <2>6 DEF HandInv
<1>3. CASE MainSend
  <2> DEFINE i == c2p[main.cnt]
             w == [worker[i] EXCEPT !.chan = Append(@, main.cnt)]
  <2>1. i \in Inst /\ worker' = [worker EXCEPT ![i] = w]
    BY <1>3 DEF MainSend
  <2>2. /\ w.pc = worker[i].pc /\ w.cnt = worker[i].cnt
        /\ w.ids = worker[i].ids /\ w.known = worker[i].known
    <3>1. worker[i] \in WorkerRec
      BY <1>0, <2>1
    <3> HIDE DEF i
    <3> QED BY <3>1 DEF WorkerRec
  <2> HIDE DEF w, i
  <2>3. \A j \in Inst : /\ worker'[j].pc = worker[j].pc /\ worker'[j].cnt = worker[j].cnt
                        /\ worker'[j].ids = worker[j].ids
                        /\ worker'[j].known = worker[j].known
    BY <1>0, <2>1, <2>2
  <2>4. \A j \in Inst : HandAt(j)'
    BY <1>0, <2>3, HandKept DEF HandInv
  <2>5. \A c \in Cnt : ScaleAt(c)'
    BY <1>0, <2>3, ScaleKept DEF HandInv, Deleting
  <2> QED BY <2>4, <2>5 DEF HandInv
<1> QED BY <1>1, <1>2, <1>3, MainFrame

(* The fields of a worker after its step that the invariant speaks of.     *)
LEMMA WorkerFields ==
  ASSUME ProvTyped, NEW i \in Inst
  PROVE  /\ WorkerCreate(i) => \E c \in Fresh(i) :
              /\ worker'[i].pc = "add" /\ worker'[i].cnt = c
              /\ worker'[i].ids = Remember(i, c) /\ Reg(c, "asked")
         /\ WorkerAdd(i) =>
              worker'[i].pc \in {"make", "loop"} /\ worker'[i].ids = worker[i].ids
         /\ WorkerTick(i) =>
              worker'[i].pc \in {"make", "returned"} /\ worker'[i].ids = worker[i].ids
         /\ WorkerReceive(i) =>
              \/ worker'[i].pc = "loop" /\ worker'[i].ids = worker[i].ids
              \/ \E c \in worker[i].ids :
                   /\ worker'[i].pc = "remove" /\ worker'[i].cnt = c
                   /\ worker'[i].ids = worker[i].ids \ {c}
         /\ WorkerRemove(i) \/ WorkerGet(i) =>
              worker'[i].cnt = worker[i].cnt /\ worker'[i].ids = worker[i].ids
         /\ WorkerRemove(i) => worker'[i].pc = "get"
         /\ WorkerGet(i) => worker'[i].pc = "read"
         /\ WorkerRead(i) =>
              /\ worker'[i].pc = "delete" /\ worker'[i].cnt = worker[i].cnt
              /\ worker'[i].ids = worker[i].ids
              /\ worker[i].cnt \notin cleared => worker'[i].known
         /\ WorkerUnlist(i) =>
              worker'[i].pc = "loop" /\ worker'[i].ids = worker[i].ids
<1>0. worker \in [Inst -> WorkerRec] /\ worker[i] \in WorkerRec
  BY DEF ProvTyped, WorkerTyped
<1>1. ASSUME WorkerCreate(i)
      PROVE  \E c \in Fresh(i) :
               /\ worker'[i].pc = "add" /\ worker'[i].cnt = c
               /\ worker'[i].ids = Remember(i, c) /\ Reg(c, "asked")
  <2>1. PICK c \in Fresh(i) :
          /\ Reg(c, "asked")
          /\ worker' = [worker EXCEPT ![i].pc = "add", ![i].cnt = c,
                                      ![i].ids = Remember(i, c)]
    BY <1>1 DEF WorkerCreate
  <2>2. worker'[i] = [worker[i] EXCEPT !.pc = "add", !.cnt = c, !.ids = Remember(i, c)]
    BY <1>0, <2>1
  <2> QED BY <1>0, <2>1, <2>2 DEF WorkerRec
<1>2. ASSUME WorkerAdd(i)
      PROVE  worker'[i].pc \in {"make", "loop"} /\ worker'[i].ids = worker[i].ids
  <2> DEFINE more == worker[i].made + 1 < worker[i].size
             l == IF more THEN "make" ELSE "loop"
             n == IF more THEN worker[i].made + 1 ELSE 0
  <2>1. worker'[i] = [worker[i] EXCEPT !.pc = l, !.made = n, !.cnt = Nil]
    BY <1>0, <1>2 DEF WorkerAdd
  <2>2. l \in {"make", "loop"}
    OBVIOUS
  <2> HIDE DEF l, n
  <2> QED BY <1>0, <2>1, <2>2 DEF WorkerRec
<1>3. ASSUME WorkerTick(i) \/ WorkerRemove(i) \/ WorkerGet(i)
      PROVE  /\ worker'[i].cnt = worker[i].cnt /\ worker'[i].ids = worker[i].ids
             /\ WorkerTick(i) => worker'[i].pc \in {"make", "returned"}
             /\ WorkerRemove(i) => worker'[i].pc = "get"
             /\ WorkerGet(i) => worker'[i].pc = "read"
  <2>1. PICK l : /\ Work(i, l)
                 /\ WorkerTick(i) => l \in {"make", "returned"}
                 /\ WorkerRemove(i) => l = "get"
                 /\ WorkerGet(i) => l = "read"
    BY <1>3 DEF WorkerTick, WorkerRemove, WorkerGet
  <2>2. worker'[i] = [worker[i] EXCEPT !.pc = l]
    BY <1>0, <2>1 DEF Work
  <2> QED BY <1>0, <2>1, <2>2 DEF WorkerRec
<1>4. ASSUME WorkerReceive(i)
      PROVE  \/ worker'[i].pc = "loop" /\ worker'[i].ids = worker[i].ids
             \/ \E c \in worker[i].ids :
                  /\ worker'[i].pc = "remove" /\ worker'[i].cnt = c
                  /\ worker'[i].ids = worker[i].ids \ {c}
  <2> DEFINE c == Head(worker[i].chan)
             r == Tail(worker[i].chan)
  <2>1. worker[i].pc = "loop"
    BY <1>4 DEF WorkerReceive
  <2>2. CASE c \in worker[i].ids
    <3>1. worker'[i] = [worker[i] EXCEPT !.pc = "remove", !.cnt = c,
                          !.ids = worker[i].ids \ {c}, !.chan = r]
      BY <1>0, <1>4, <2>2 DEF WorkerReceive
    <3> HIDE DEF c, r
    <3>2. /\ worker'[i].pc = "remove" /\ worker'[i].cnt = c
          /\ worker'[i].ids = worker[i].ids \ {c}
      BY <1>0, <3>1 DEF WorkerRec
    <3> QED BY <2>2, <3>2
  <2>3. CASE c \notin worker[i].ids
    <3>1. worker'[i] = [worker[i] EXCEPT !.chan = r]
      BY <1>0, <1>4, <2>3 DEF WorkerReceive
    <3> HIDE DEF c, r
    <3> QED BY <1>0, <2>1, <3>1 DEF WorkerRec
  <2> QED BY <2>2, <2>3
<1>5. ASSUME WorkerRead(i)
      PROVE  /\ worker'[i].pc = "delete" /\ worker'[i].cnt = worker[i].cnt
             /\ worker'[i].ids = worker[i].ids
             /\ worker[i].cnt \notin cleared => worker'[i].known
  <2> DEFINE k == worker[i].cnt \notin cleared
  <2>1. worker'[i] = [worker[i] EXCEPT !.pc = "delete", !.known = k]
    BY <1>0, <1>5 DEF WorkerRead
  <2> HIDE DEF k
  <2>2. /\ worker'[i].pc = "delete" /\ worker'[i].cnt = worker[i].cnt
        /\ worker'[i].ids = worker[i].ids /\ worker'[i].known = k
    BY <1>0, <2>1 DEF WorkerRec
  <2> QED BY <2>2 DEF k
<1>6. ASSUME WorkerUnlist(i)
      PROVE  worker'[i].pc = "loop" /\ worker'[i].ids = worker[i].ids
  <2> DEFINE n == worker[i].size - 1
  <2>1. worker'[i] = [worker[i] EXCEPT !.pc = "loop", !.size = n, !.cnt = Nil,
                                       !.known = FALSE]
    BY <1>0, <1>6 DEF WorkerUnlist
  <2> HIDE DEF n
  <2> QED BY <1>0, <2>1 DEF WorkerRec
<1> QED BY <1>1, <1>2, <1>3, <1>4, <1>5, <1>6

LEMMA OtherWorkers ==
  ASSUME ProvTyped, NEW i \in Inst, WorkerStep(i)
  PROVE  \A j \in Inst : j # i => worker'[j] = worker[j]
<1>0. worker \in [Inst -> WorkerRec]
  BY DEF ProvTyped, WorkerTyped
<1> QED BY <1>0 DEF WorkerStep, WorkerCreate, WorkerAdd, WorkerTick, WorkerReceive,
     WorkerRemove, WorkerGet, WorkerGetNil, WorkerGetRace, WorkerRead, WorkerUnlist, Work,
     Crash

(* A worker draws an id nobody has drawn, takes one function in hand that  *)
(* it remembers, gets its element from c2e, and reads its container.       *)
LEMMA HandWorker ==
  ASSUME ProvTyped, LifeInv, HandInv, Settled, NEW i \in Inst, WorkerStep(i)
  PROVE  HandAt(i)'
<1>0. /\ worker[i].ids \in SUBSET Cnt
      /\ worker[i].pc \in AtRemoval => worker[i].cnt \in Cnt
  BY DEF ProvTyped, WorkerTyped, WorkerRec, AtRemoval, AtFunction
<1>1. del' = del /\ HandAt(i)
  BY WorkerFrame DEF HandInv
<1>2. CASE WorkerGetNil(i) \/ WorkerGetRace(i)
  BY <1>1, <1>2, HandKept DEF WorkerGetNil, WorkerGetRace, Crash
<1>3. CASE WorkerCreate(i)
  <2>1. PICK c \in Fresh(i) :
          worker'[i].pc = "add" /\ worker'[i].ids = worker[i].ids \cup {c}
    BY <1>3, WorkerFields DEF Remember
  <2>2. Asker[c] = i /\ del[<<c, "scale">>] = "idle"
    BY DEF Fresh, LifeInv, Joined
  <2> QED BY <1>1, <2>1, <2>2 DEF HandAt, AtRemoval
<1>4. CASE WorkerAdd(i) \/ WorkerTick(i) \/ WorkerUnlist(i)
  <2>1. worker'[i].pc \in {"make", "loop", "returned"} /\ worker'[i].ids = worker[i].ids
    BY <1>4, WorkerFields
  <2> QED BY <1>1, <2>1 DEF HandAt, AtRemoval
<1>5. CASE WorkerReceive(i)
  <2>1. CASE worker'[i].pc = "loop" /\ worker'[i].ids = worker[i].ids
    BY <1>1, <2>1 DEF HandAt, AtRemoval
  <2>2. CASE \E c \in worker[i].ids :
               /\ worker'[i].pc = "remove" /\ worker'[i].cnt = c
               /\ worker'[i].ids = worker[i].ids \ {c}
    <3>1. PICK c \in worker[i].ids :
            /\ worker'[i].pc = "remove" /\ worker'[i].cnt = c
            /\ worker'[i].ids = worker[i].ids \ {c}
      BY <2>2
    <3> QED BY <1>1, <3>1 DEF HandAt, AtRemoval
  <2> QED BY <1>5, <2>1, <2>2, WorkerFields
<1>6. CASE WorkerRemove(i)
  <2>1. worker[i].pc = "remove"
    BY <1>6 DEF WorkerRemove
  <2> QED BY <1>1, <1>6, <2>1, WorkerFields DEF HandAt, AtRemoval
<1>7. CASE WorkerGet(i)
  <2>1. worker[i].pc = "get" /\ worker[i].cnt \in c2e
    BY <1>7 DEF WorkerGet
  <2>2. reg[worker[i].cnt] \in Joined /\ worker[i].cnt \in Cnt
    BY <1>0, <2>1 DEF LifeInv, AtRemoval
  <2> QED BY <1>1, <1>7, <2>1, <2>2, WorkerFields DEF HandAt, AtRemoval, Settled
<1>8. CASE WorkerRead(i)
  <2>1. worker[i].pc = "read" /\ worker[i].cnt \in Cnt
    BY <1>0, <1>8 DEF WorkerRead, AtRemoval
  <2>2. reg[worker[i].cnt] \in Joined /\ del[<<worker[i].cnt, "scale">>] = "idle"
    BY <1>1, <2>1 DEF HandAt
  <2>3. worker[i].cnt \in cleared => worker[i].cnt \notin list
    BY <2>1, <2>2 DEF LifeInv
  <2>4. worker'[i].known \/ worker[i].cnt \notin list'
    BY <1>8, <2>1, <2>2, <2>3, WorkerFields DEF Settled
  <2> QED BY <1>1, <1>8, <2>1, <2>2, <2>4, WorkerFields DEF HandAt, AtRemoval, Settled
<1> QED BY <1>2, <1>3, <1>4, <1>5, <1>6, <1>7, <1>8 DEF WorkerStep

(* A worker ends a removal when Delete has returned and the container is   *)
(* off the list.                                                           *)
LEMMA ScaleWorker ==
  ASSUME ProvTyped, LifeInv, HandInv, Settled, NEW i \in Inst, WorkerStep(i),
         NEW c \in Cnt
  PROVE  ScaleAt(c)'
<1>0. del' = del /\ \A j \in Inst : j # i => worker'[j] = worker[j]
  BY WorkerFrame, OtherWorkers
<1>1. CASE WorkerUnlist(i) /\ worker[i].cnt = c
  <2>1. /\ worker[i].pc = "delete" /\ del[<<c, "scale">>] = "done"
        /\ list' = list \ Unlisted(i)
    BY <1>1 DEF WorkerUnlist
  <2>2. c \notin list'
    BY <1>1, <2>1 DEF HandInv, HandAt, Unlisted
  <2> QED BY <1>0, <2>1, <2>2 DEF ScaleAt
<1>2. CASE ~(WorkerUnlist(i) /\ worker[i].cnt = c)
  <2>1. Deleting(i, c) => worker' = worker
    BY <1>2
    DEF Deleting, WorkerStep, WorkerCreate, WorkerAdd, WorkerTick, WorkerReceive,
        WorkerRemove, WorkerGet, WorkerGetNil, WorkerGetRace, WorkerRead, Crash
  <2>2. \A j \in Inst : Deleting(j, c) => Deleting(j, c)'
    BY <1>0, <2>1 DEF Deleting
  <2> QED BY <1>0, <2>2, ScaleKept DEF HandInv
<1> QED BY <1>1, <1>2

LEMMA HandStep ==
  ASSUME ProvTyped, LifeInv, HandInv, Next
  PROVE  HandInv'
<1>0. Settled
  BY SettledStep
<1>1. ASSUME NEW c \in Cnt, Registration(c) PROVE HandInv'
  BY <1>0, <1>1, RegistrationFrame, HandsStill
<1>2. ASSUME NEW x \in Deletion, Delete(x) PROVE HandInv'
  BY <1>2, HandDelete
<1>3. CASE KeeperCreate \/ KeeperAdd \/ ScalerTick
  BY <1>0, <1>3, KeeperFrame, HandsStill
<1>4. CASE MainLoop
  BY <1>0, <1>4, HandMain
<1>5. ASSUME NEW i \in Inst, WorkerStep(i) PROVE HandInv'
  <2>1. \A j \in Inst : HandAt(j)'
    BY <1>0, <1>5, HandWorker, HandKept, OtherWorkers, WorkerFrame DEF HandInv
  <2>2. \A c \in Cnt : ScaleAt(c)'
    BY <1>0, <1>5, ScaleWorker
  <2> QED BY <2>1, <2>2 DEF HandInv
<1> QED BY <1>1, <1>2, <1>3, <1>4, <1>5 DEF Next

ProvInv == ProvTyped /\ LifeInv /\ HandInv

LEMMA ProvInvariant == Spec => []ProvInv
<1>1. Init => ProvInv
  <2> SUFFICES ASSUME Init PROVE LifeInv /\ HandInv
    BY ProvTypedInit DEF ProvInv
  <2>1. LifeInv
    BY DEF Init, LifeInv, Deletion
  <2>2. \A i \in Inst : worker[i] = NoWorker
    BY DEF Init
  <2>3. NoWorker.pc = "off" /\ NoWorker.ids = {}
    BY DEF NoWorker
  <2>4. \A i \in Inst : HandAt(i)
    BY <2>2, <2>3 DEF HandAt, AtRemoval
  <2>5. \A c \in Cnt : ScaleAt(c)
    BY DEF Init, ScaleAt, Deletion
  <2> QED BY <2>1, <2>4, <2>5 DEF HandInv
<1>2. ProvInv /\ [Next]_vars => ProvInv'
  <2> SUFFICES ASSUME ProvInv, [Next]_vars PROVE ProvInv'
    OBVIOUS
  <2>1. ProvTyped'
    BY ProvTypedStep DEF ProvInv
  <2>2. CASE Next
    BY <2>1, <2>2, LifeStep, HandStep DEF ProvInv
  <2>3. CASE UNCHANGED vars
    <3>1. UNCHANGED <<reg, list, c2e, del, cleared, worker>>
      BY <2>3 DEF vars, cepVars, delVars
    <3>2. LifeInv'
      BY <3>1 DEF ProvInv, LifeInv
    <3>3. HandInv'
      BY <3>1 DEF ProvInv, HandInv, HandAt, ScaleAt, Deleting
    <3> QED BY <2>1, <3>2, <3>3 DEF ProvInv
  <2> QED BY <2>2, <2>3
<1> QED BY <1>1, <1>2, PTL DEF Spec

(* No ghosts in the load: a container that is gone but still on the list   *)
(* is in the hand of a worker that knows it and takes it off the list next.*)
THEOREM ProvNoGhosts == Spec => []NoGhosts
<1>1. ProvInv => NoGhosts
  <2> SUFFICES ASSUME ProvInv, NEW c \in list, Dead(c)
               PROVE  \E i \in Inst : worker[i].pc = "delete" /\ worker[i].cnt = c
                                      /\ worker[i].known
    BY DEF NoGhosts
  <2>1. c \in Cnt
    BY DEF ProvInv, ProvTyped, RestTyped
  <2>2. del[<<c, "lease">>] = "idle"
    BY <2>1 DEF ProvInv, LifeInv
  <2>3. del[<<c, "scale">>] # "idle"
    BY <2>2 DEF Dead, Deletion
  <2>4. PICK i \in Inst : Deleting(i, c)
    BY <2>1, <2>3 DEF ProvInv, HandInv, ScaleAt
  <2> QED BY <2>4 DEF ProvInv, HandInv, HandAt, Deleting
<1> QED BY <1>1, ProvInvariant, PTL

(* Lease timers and registrations alone never crash the gateway: an element*)
(* whose stopChan is closed or whose container is nil before its timer or  *)
(* its lease's Delete comes was deleted by a scale-down.                   *)
THEOREM ProvCrashNeedsScaleDown == Spec => []CrashNeedsScaleDown
<1>1. Init => CrashNeedsScaleDown
  BY DEF Init, CrashNeedsScaleDown
<1>2. ASSUME ProvInv, CrashNeedsScaleDown, [Next]_vars
      PROVE  CrashNeedsScaleDown'
  <2> DEFINE Reason == \/ \E c \in Cnt : del[<<c, "scale">>] # "idle"
                       \/ \E i \in Inst : worker[i].pc = "get"
                       \/ main.pc = "test"
  <2>1. ASSUME NEW p, Crash(p), Reason PROVE CrashNeedsScaleDown'
    <3>1. UNCHANGED <<del, main, worker>>
      BY <2>1 DEF Crash, delVars, scaleVars
    <3> QED BY <2>1, <3>1 DEF CrashNeedsScaleDown
  <2> HIDE DEF Reason
  <2>2. ASSUME NEW c \in Cnt, c \in cleared, del[<<c, "lease">>] # "done" PROVE Reason
    BY <1>2, <2>2 DEF ProvInv, LifeInv, Reason
  <2>3. ASSUME NEW c \in Cnt, TimerNil(c) PROVE CrashNeedsScaleDown'
    <3>1. c \in cleared /\ reg[c] = "spawned" /\ Crash("nil container")
      BY <2>3 DEF TimerNil
    <3>2. del[<<c, "lease">>] = "idle"
      BY <1>2, <3>1 DEF ProvInv, LifeInv
    <3> QED BY <2>1, <2>2, <3>1, <3>2
  <2>4. ASSUME NEW x \in Deletion, DelCloseAgain(x) PROVE CrashNeedsScaleDown'
    <3>1. PICK c \in Cnt, k \in {"lease", "scale"} : x = <<c, k>>
      BY DEF Deletion
    <3>2. del[x] = "unlinked" /\ Dead(c) /\ Crash("close of closed channel")
      BY <2>4, <3>1 DEF DelCloseAgain
    <3>3. PICK l \in {"lease", "scale"} : del[<<c, l>>] \in {"closed", "done"}
      <4>1. PICK y \in Deletion : y[1] = c /\ del[y] \in {"closed", "done"}
        BY <3>2 DEF Dead
      <4>2. PICK d \in Cnt, m \in {"lease", "scale"} : y = <<d, m>>
        BY DEF Deletion
      <4> QED BY <4>1, <4>2
    <3>4. l # k
      BY <3>1, <3>2, <3>3
    <3>5. del[<<c, "scale">>] # "idle"
      BY <3>1, <3>2, <3>3, <3>4
    <3> QED BY <2>1, <3>2, <3>5 DEF Reason
  <2>5. ASSUME NEW x \in Deletion, DelEndNil(x) PROVE CrashNeedsScaleDown'
    <3>1. PICK c \in Cnt, k \in {"lease", "scale"} : x = <<c, k>>
      BY DEF Deletion
    <3>2. del[<<c, k>>] = "closed" /\ c \in cleared /\ Crash("nil container")
      BY <2>5, <3>1 DEF DelEndNil
    <3>3. Reason
      BY <2>2, <3>2 DEF Reason
    <3> QED BY <2>1, <3>2, <3>3
  <2>6. CASE MainTestNil
    <3>1. main.pc = "test" /\ Crash("nil container")
      BY <2>6 DEF MainTestNil
    <3> QED BY <2>1, <3>1 DEF Reason
  <2>7. ASSUME NEW i \in Inst, WorkerGetNil(i) \/ WorkerGetRace(i)
        PROVE  CrashNeedsScaleDown'
    <3>1. worker[i].pc = "get" /\ \E p : Crash(p)
      BY <2>7 DEF WorkerGetNil, WorkerGetRace
    <3>2. Reason
      BY <3>1 DEF Reason
    <3> QED BY <2>1, <3>1, <3>2
  <2>8. ASSUME panic' = "none" PROVE CrashNeedsScaleDown'
    BY <2>8 DEF CrashNeedsScaleDown
  <2>9. CASE UNCHANGED vars
    BY <1>2, <2>9 DEF CrashNeedsScaleDown, vars, delVars, scaleVars
  <2>10. CASE Next
    <3>0. panic = "none"
      BY <2>10 DEF Next
    <3>1. ASSUME NEW c \in Cnt, Registration(c) PROVE TimerNil(c) \/ panic' = "none"
      BY <3>0, <3>1 DEF Registration, Onboard, Ping, TimerFires, AddConnElem, TimerStart,
         TimerStops
    <3>2. ASSUME NEW x \in Deletion, Delete(x)
          PROVE  DelCloseAgain(x) \/ DelEndNil(x) \/ panic' = "none"
      BY <3>0, <3>2 DEF Delete, DelUnlink, DelClose, DelEnd
    <3>3. MainLoop => MainTestNil \/ panic' = "none"
      BY <3>0
      DEF MainLoop, MainZero, MainUp, MainDown, MainScan, MainTest, MainSend, MainEnd
    <3>4. KeeperCreate \/ KeeperAdd \/ ScalerTick => panic' = "none"
      BY <3>0 DEF KeeperCreate, KeeperAdd, ScalerTick
    <3>5. ASSUME NEW i \in Inst, WorkerStep(i)
          PROVE  WorkerGetNil(i) \/ WorkerGetRace(i) \/ panic' = "none"
      BY <3>0, <3>5 DEF WorkerStep, WorkerCreate, WorkerAdd, WorkerTick, WorkerReceive,
         WorkerRemove, WorkerGet, WorkerRead, WorkerUnlist
    <3> QED
      BY <2>3, <2>4, <2>5, <2>6, <2>7, <2>8, <2>10, <3>1, <3>2, <3>3, <3>4, <3>5 DEF Next
  <2> QED BY <1>2, <2>9, <2>10
<1> QED BY <1>1, <1>2, ProvInvariant, PTL DEF Spec

(* In every reachable state, with whatever counters that have not wrapped, *)
(* GetLoadPercentage counts the containers that have reached their maximum.*)
THEOREM ProvLoadCounts == Spec => []LoadCounts
<1>1. ASSUME ProvInv PROVE LoadCounts
  <2> SUFFICES ASSUME NEW fl \in Unwrapped
               PROVE  Load(fl) = Cardinality({c \in list : fl[c] >= MaxFluxes})
    BY DEF LoadCounts
  <2>1. IsFiniteSet(list)
    BY <1>1 DEF ProvInv, ProvTyped, RestTyped
  <2>2. fl \in [list -> Fluxes] /\ \A c \in list : fl[c] >= 0
    BY DEF Unwrapped
  <2>3. DOMAIN fl = list /\ \A c \in list : fl[c] \in 0..127
    <3>1. Fluxes \subseteq -128..127
      BY ProvisionerAssumption, Zenon
    <3>2. DOMAIN fl = list
      BY <2>2
    <3>3. ASSUME NEW c \in list PROVE fl[c] \in 0..127
      <4>1. fl[c] \in Fluxes /\ fl[c] >= 0
        BY <2>2
      <4>2. fl[c] \in -128..127
        BY <3>1, <4>1, Zenon
      <4> QED BY <4>1, <4>2
    <3> QED BY <3>2, <3>3
  <2> QED BY <2>1, <2>3, LoadOfUnwrapped DEF Busy
<1> QED BY <1>1, ProvInvariant, PTL

(* calculateScalingDelta is steady on the lists of any length that are     *)
(* reachable, as long as no counter has wrapped.                           *)
THEOREM ProvSteady == Spec => []Steady
<1>1. ASSUME ProvInv, LoadCounts PROVE Steady
  <2> SUFFICES ASSUME NEW fl \in Unwrapped
               PROVE  SteadyAt(Cardinality(list), Load(fl))
    BY DEF Steady
  <2>1. IsFiniteSet(list) /\ Busy(fl, list) \subseteq list
    BY <1>1 DEF ProvInv, ProvTyped, RestTyped, Busy
  <2>2. /\ Cardinality(list) \in Nat /\ Cardinality(Busy(fl, list)) \in Nat
        /\ Cardinality(Busy(fl, list)) <= Cardinality(list)
    BY <2>1, FS_Subset, FS_CardinalityType
  <2>3. Load(fl) = Cardinality(Busy(fl, list))
    BY <1>1 DEF LoadCounts, Busy
  <2> QED BY <2>2, <2>3, DeltaSteady
<1> QED BY <1>1, ProvLoadCounts, ProvInvariant, PTL
=============================================================================
