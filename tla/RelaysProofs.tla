---------------------------- MODULE RelaysProofs ----------------------------
(***************************************************************************)
(* The buffer pool, for any number of buffers, users and clean-up          *)
(* goroutines: no buffer is in two places, every free one is zeroed,       *)
(* Release does not block, and the pool implements BufferLease.  Then what *)
(* the programs write, for any number of packets and buffers.              *)
(***************************************************************************)
EXTENDS Relays, FiniteSetTheorems, TLAPS

(* What Next or a clean-up goroutine leaves in a channel.                  *)
LEMMA TailFacts ==
  ASSUME NEW S, NEW s \in Seq(S), s # <<>>
  PROVE  /\ Tail(s) \in Seq(S) /\ Len(Tail(s)) = Len(s) - 1
         /\ Len(s) \in Nat /\ Len(s) > 0
         /\ Head(s) = s[1] /\ Head(s) \in S
         /\ \A k \in 1..Len(Tail(s)) : Tail(s)[k] = s[k + 1] /\ k + 1 \in 1..Len(s)
OBVIOUS

LEMMA AppendFacts ==
  ASSUME NEW S, NEW s \in Seq(S), NEW e \in S
  PROVE  /\ Append(s, e) \in Seq(S) /\ Len(Append(s, e)) = Len(s) + 1
         /\ Len(s) \in Nat
         /\ \A k \in 1..Len(s) : Append(s, e)[k] = s[k]
         /\ Append(s, e)[Len(s) + 1] = e
OBVIOUS

-----------------------------------------------------------------------------
(* A clean-up goroutine holds a buffer, which it has zeroed when it sends. *)
CleanersOK ==
  \A c \in Cleaner :
    /\ cleaner[c].pc # "receive" => cleaner[c].buf \in Buffer
    /\ cleaner[c].pc = "send" => buff[cleaner[c].buf] = 0

BuffersInv == BuffersTypeOK /\ Conserved /\ CleanersOK /\ ZeroedInPool

LEMMA BuffersInitInv == BuffersInit => BuffersInv
<1> SUFFICES ASSUME BuffersInit PROVE BuffersInv
  OBVIOUS
<1>1. /\ pool \in Seq(Buffer) /\ Len(pool) = PoolSize
      /\ \A k \in 1..PoolSize : pool[k] = k - 1
  BY BuffersAssumption DEF BuffersInit, Buffer
<1>2. cleanChan \in Seq(Buffer) /\ Len(cleanChan) = 0
  BY DEF BuffersInit
<1>3. BuffersTypeOK
  BY <1>1, <1>2 DEF BuffersInit, BuffersTypeOK
<1>4. \A b \in Buffer : ~InClean(b) /\ ~InHand(b) /\ held[b] = 0
  BY <1>2 DEF BuffersInit, InClean, InHand
<1>5. Conserved
  <2>1. \A j, k \in 1..Len(pool) : pool[j] = pool[k] => j = k
    BY <1>1, BuffersAssumption
  <2>2. \A j, k \in 1..Len(cleanChan) : cleanChan[j] = cleanChan[k] => j = k
    BY <1>2
  <2>3. \A c \in Cleaner : cleaner[c].pc = "receive"
    BY DEF BuffersInit
  <2> QED BY <1>4, <2>1, <2>2, <2>3 DEF Conserved
<1>6. CleanersOK
  BY DEF BuffersInit, CleanersOK
<1>7. ZeroedInPool
  <2>1. \A k \in 1..Len(pool) : pool[k] \in Buffer
    BY <1>1, BuffersAssumption DEF Buffer
  <2> QED BY <2>1 DEF BuffersInit, ZeroedInPool
<1> QED BY <1>3, <1>5, <1>6, <1>7 DEF BuffersInv

LEMMA NextInv ==
  ASSUME BuffersInv, NEW b \in Buffer, NextBuffer(b)
  PROVE  BuffersInv'
<1> USE DEF BuffersInv
<1>1. /\ pool' = Tail(pool) /\ pool # <<>> /\ b = Head(pool)
      /\ held' = [held EXCEPT ![b] = @ + 1]
      /\ UNCHANGED <<cleanChan, cleaner, buff>>
      /\ pool \in Seq(Buffer)
  BY DEF NextBuffer, Taken, BuffersTypeOK
<1>2. /\ pool' \in Seq(Buffer) /\ Len(pool') = Len(pool) - 1 /\ b = pool[1]
      /\ Len(pool) \in Nat /\ Len(pool) > 0
      /\ \A k \in 1..Len(pool') : pool'[k] = pool[k + 1] /\ k + 1 \in 1..Len(pool)
  BY <1>1, TailFacts
<1>3. InPool(b) /\ ~InPool(b)' /\ \A e \in Buffer : InPool(e)' => InPool(e)
  BY <1>2 DEF InPool, Conserved
<1>4. /\ \A e \in Buffer : (InClean(e)' <=> InClean(e)) /\ (InHand(e)' <=> InHand(e))
      /\ held[b] = 0 /\ held'[b] = 1 /\ \A e \in Buffer \ {b} : held'[e] = held[e]
  BY <1>1, <1>3 DEF InClean, InHand, Conserved, BuffersTypeOK
<1>5. BuffersTypeOK'
  BY <1>1, <1>2 DEF BuffersTypeOK
<1>6. \A j, k \in 1..Len(pool') : pool'[j] = pool'[k] => j = k
  BY <1>2 DEF Conserved
<1>7. Conserved'
  BY <1>1, <1>3, <1>4, <1>6 DEF Conserved
<1>8. CleanersOK' /\ ZeroedInPool'
  BY <1>1, <1>2 DEF CleanersOK, ZeroedInPool
<1> QED BY <1>5, <1>7, <1>8

LEMMA FillInv ==
  ASSUME BuffersInv, NEW b \in Buffer, NEW d \in Nat, Fill(b, d)
  PROVE  BuffersInv'
<1> USE DEF BuffersInv
<1>1. /\ buff' = [buff EXCEPT ![b] = d] /\ held[b] > 0
      /\ UNCHANGED <<pool, cleanChan, cleaner, held>>
  BY DEF Fill
<1>2. ~InPool(b) /\ ~InHand(b)
  BY <1>1 DEF Conserved
<1>3. BuffersTypeOK' /\ Conserved'
  BY <1>1 DEF BuffersTypeOK, Conserved, InPool, InClean, InHand
<1>4. CleanersOK'
  BY <1>1, <1>2 DEF CleanersOK, InHand, BuffersTypeOK
<1>5. ZeroedInPool'
  <2>1. \A k \in 1..Len(pool) : pool[k] \in Buffer /\ pool[k] # b
    BY <1>2 DEF InPool, BuffersTypeOK
  <2> QED BY <1>1, <2>1 DEF ZeroedInPool, BuffersTypeOK
<1> QED BY <1>3, <1>4, <1>5

LEMMA ReleaseInv ==
  ASSUME BuffersInv, NEW b \in Buffer, Release(b)
  PROVE  BuffersInv'
<1> USE DEF BuffersInv
<1>1. /\ cleanChan' = Append(cleanChan, b) /\ held[b] > 0
      /\ held' = [held EXCEPT ![b] = @ - 1]
      /\ UNCHANGED <<pool, cleaner, buff>>
      /\ cleanChan \in Seq(Buffer)
  BY DEF Release, BuffersTypeOK
<1>2. /\ cleanChan' \in Seq(Buffer) /\ Len(cleanChan') = Len(cleanChan) + 1
      /\ Len(cleanChan) \in Nat
      /\ \A k \in 1..Len(cleanChan) : cleanChan'[k] = cleanChan[k]
      /\ cleanChan'[Len(cleanChan) + 1] = b
  BY <1>1, AppendFacts
<1>3. ~InPool(b) /\ ~InClean(b) /\ ~InHand(b) /\ held[b] = 1
  BY <1>1 DEF Conserved, BuffersTypeOK
<1>4. \A e \in Buffer : /\ InClean(e)' => InClean(e) \/ e = b
                        /\ (InPool(e)' <=> InPool(e)) /\ (InHand(e)' <=> InHand(e))
  BY <1>1, <1>2 DEF InClean, InPool, InHand
<1>5. held'[b] = 0 /\ \A e \in Buffer \ {b} : held'[e] = held[e]
  BY <1>1, <1>3 DEF BuffersTypeOK
<1>6. BuffersTypeOK'
  BY <1>1, <1>2, <1>3 DEF BuffersTypeOK
<1>7. \A j, k \in 1..Len(cleanChan') : cleanChan'[j] = cleanChan'[k] => j = k
  BY <1>2, <1>3 DEF Conserved, InClean
<1>8. \A e \in Buffer :
        /\ ~(InPool(e)' /\ InClean(e)') /\ ~(InPool(e)' /\ InHand(e)')
        /\ ~(InClean(e)' /\ InHand(e)')
        /\ held'[e] <= 1
        /\ held'[e] > 0 => ~InPool(e)' /\ ~InClean(e)' /\ ~InHand(e)'
  BY <1>3, <1>4, <1>5 DEF Conserved
<1>9. Conserved'
  BY <1>1, <1>7, <1>8 DEF Conserved
<1>10. CleanersOK' /\ ZeroedInPool'
  BY <1>1 DEF CleanersOK, ZeroedInPool
<1> QED BY <1>6, <1>9, <1>10

LEMMA ReceiveInv ==
  ASSUME BuffersInv, NEW c \in Cleaner, Receive(c)
  PROVE  BuffersInv'
<1> USE DEF BuffersInv
<1>0. PICK b \in Buffer : b = Head(cleanChan)
  BY TailFacts DEF Receive, BuffersTypeOK
<1>1. /\ cleanChan' = Tail(cleanChan) /\ cleanChan # <<>> /\ cleaner[c].pc = "receive"
      /\ cleaner' = [cleaner EXCEPT ![c] = [pc |-> "wipe", buf |-> b]]
      /\ UNCHANGED <<pool, held, buff>>
      /\ cleanChan \in Seq(Buffer)
  BY <1>0 DEF Receive, BuffersTypeOK
<1>2. /\ cleanChan' \in Seq(Buffer) /\ Len(cleanChan') = Len(cleanChan) - 1
      /\ b = cleanChan[1]
      /\ Len(cleanChan) \in Nat /\ Len(cleanChan) > 0
      /\ \A k \in 1..Len(cleanChan') :
           cleanChan'[k] = cleanChan[k + 1] /\ k + 1 \in 1..Len(cleanChan)
  BY <1>0, <1>1, TailFacts
<1>3. InClean(b) /\ ~InClean(b)' /\ \A e \in Buffer : InClean(e)' => InClean(e)
  BY <1>2 DEF InClean, Conserved
<1>4. /\ cleaner'[c].pc = "wipe" /\ cleaner'[c].buf = b
      /\ \A d \in Cleaner \ {c} : cleaner'[d] = cleaner[d]
  BY <1>1 DEF BuffersTypeOK
<1>5. /\ ~InPool(b) /\ ~InHand(b) /\ held[b] = 0
      /\ \A e \in Buffer : (InPool(e)' <=> InPool(e)) /\ (InHand(e)' => InHand(e) \/ e = b)
  <2>1. ~InPool(b) /\ ~InHand(b) /\ held[b] = 0
    <3>1. held[b] \in Nat
      BY DEF BuffersTypeOK
    <3>2. ~InPool(b) /\ ~InHand(b) /\ ~(held[b] > 0)
      BY <1>3 DEF Conserved
    <3> QED BY <3>1, <3>2
  <2>2. \A e \in Buffer : InPool(e)' <=> InPool(e)
    BY <1>1 DEF InPool
  <2>3. \A e \in Buffer : InHand(e)' => InHand(e) \/ e = b
    BY <1>4 DEF InHand
  <2> QED BY <2>1, <2>2, <2>3
<1>6. BuffersTypeOK'
  BY <1>1, <1>2 DEF BuffersTypeOK, Buffer
<1>7. \A j, k \in 1..Len(cleanChan') : cleanChan'[j] = cleanChan'[k] => j = k
  BY <1>2 DEF Conserved
<1>8. \A d, e \in Cleaner :
        /\ cleaner'[d].pc # "receive" /\ cleaner'[e].pc # "receive"
        /\ cleaner'[d].buf = cleaner'[e].buf
        => d = e
  BY <1>4, <1>5 DEF Conserved, InHand
<1>9. Conserved'
  BY <1>1, <1>3, <1>5, <1>7, <1>8 DEF Conserved
<1>10. CleanersOK' /\ ZeroedInPool'
  BY <1>1, <1>2, <1>4 DEF CleanersOK, ZeroedInPool
<1> QED BY <1>6, <1>9, <1>10

LEMMA WipeInv ==
  ASSUME BuffersInv, NEW c \in Cleaner, Wipe(c)
  PROVE  BuffersInv'
<1> USE DEF BuffersInv
<1> DEFINE b == cleaner[c].buf
<1>1. /\ cleaner[c].pc = "wipe" /\ b \in Buffer
      /\ buff' = [buff EXCEPT ![b] = 0]
      /\ cleaner' = [cleaner EXCEPT ![c].pc = "send"]
      /\ UNCHANGED <<pool, cleanChan, held>>
  BY DEF Wipe, Wiped, CleanersOK
<1>2. /\ cleaner'[c].pc = "send" /\ cleaner'[c].buf = b
      /\ \A d \in Cleaner \ {c} : cleaner'[d] = cleaner[d]
  BY <1>1 DEF BuffersTypeOK
<1> HIDE DEF b
<1>3. \A d \in Cleaner : /\ cleaner'[d].buf = cleaner[d].buf
                         /\ cleaner'[d].pc # "receive" <=> cleaner[d].pc # "receive"
  BY <1>1, <1>2 DEF b
<1>4. BuffersTypeOK'
  BY <1>1 DEF BuffersTypeOK
<1>5. Conserved'
  BY <1>1, <1>3 DEF Conserved, InPool, InClean, InHand
<1>6. /\ buff'[b] = 0
      /\ \A e \in Buffer : buff[e] = 0 => buff'[e] = 0
  BY <1>1 DEF BuffersTypeOK
<1>7. CleanersOK'
  BY <1>1, <1>2, <1>6 DEF CleanersOK
<1>8. ZeroedInPool'
  BY <1>1, <1>6 DEF ZeroedInPool, BuffersTypeOK
<1> QED BY <1>4, <1>5, <1>7, <1>8

LEMMA ReturnInv ==
  ASSUME BuffersInv, NEW c \in Cleaner, Return(c)
  PROVE  BuffersInv'
<1> USE DEF BuffersInv
<1>0. PICK b \in Buffer : b = cleaner[c].buf
  BY DEF Return, CleanersOK
<1>1. /\ cleaner[c].pc = "send" /\ buff[b] = 0
      /\ pool' = Append(pool, b)
      /\ cleaner' = [cleaner EXCEPT ![c].pc = "receive"]
      /\ UNCHANGED <<cleanChan, held, buff>>
      /\ pool \in Seq(Buffer)
  BY <1>0 DEF Return, CleanersOK, BuffersTypeOK
<1>2. /\ cleaner'[c].pc = "receive"
      /\ \A d \in Cleaner \ {c} : cleaner'[d] = cleaner[d]
  BY <1>1 DEF BuffersTypeOK
<1>3. InHand(b) /\ ~InHand(b)' /\ \A e \in Buffer : InHand(e)' => InHand(e)
  BY <1>0, <1>1, <1>2 DEF InHand, Conserved
<1>4. /\ pool' \in Seq(Buffer) /\ Len(pool') = Len(pool) + 1
      /\ Len(pool) \in Nat
      /\ \A k \in 1..Len(pool) : pool'[k] = pool[k]
      /\ pool'[Len(pool) + 1] = b
  BY <1>1, AppendFacts
<1>5. ~InPool(b) /\ ~InClean(b) /\ held[b] = 0
  BY <1>1, <1>3 DEF Conserved, BuffersTypeOK
<1>6. \A e \in Buffer : (InPool(e)' => InPool(e) \/ e = b) /\ (InClean(e)' <=> InClean(e))
  BY <1>1, <1>4 DEF InPool, InClean
<1>7. BuffersTypeOK'
  BY <1>1, <1>4 DEF BuffersTypeOK
<1>8. \A j, k \in 1..Len(pool') : pool'[j] = pool'[k] => j = k
  BY <1>4, <1>5 DEF Conserved, InPool
<1>9. Conserved'
  BY <1>1, <1>2, <1>3, <1>5, <1>6, <1>8 DEF Conserved
<1>10. CleanersOK' /\ ZeroedInPool'
  BY <1>1, <1>2, <1>4 DEF CleanersOK, ZeroedInPool
<1> QED BY <1>7, <1>9, <1>10

LEMMA BuffersStepInv == BuffersInv /\ [BuffersNext]_buffersVars => BuffersInv'
<1> SUFFICES ASSUME BuffersInv, [BuffersNext]_buffersVars PROVE BuffersInv'
  OBVIOUS
<1>1. CASE UNCHANGED buffersVars
  BY <1>1 DEF buffersVars, BuffersInv, BuffersTypeOK, Conserved, CleanersOK,
              ZeroedInPool, InPool, InClean, InHand
<1>2. CASE \E b \in Buffer : NextBuffer(b) \/ Release(b)
                             \/ \E d \in Nat \ {0} : Fill(b, d)
  BY <1>2, NextInv, ReleaseInv, FillInv
<1>3. CASE \E c \in Cleaner : CleanUp(c)
  BY <1>3, ReceiveInv, WipeInv, ReturnInv DEF CleanUp
<1> QED BY <1>1, <1>2, <1>3 DEF BuffersNext

(* A channel of distinct buffers that misses one has room for it.          *)
LEMMA Pigeonhole ==
  ASSUME NEW s \in Seq(Buffer), \A j, k \in 1..Len(s) : s[j] = s[k] => j = k,
         NEW b \in Buffer, \A k \in 1..Len(s) : s[k] # b
  PROVE  Len(s) < PoolSize
<1>0. PICK n \in Nat : n = Len(s)
  OBVIOUS
<1> DEFINE D == 1..n
           T == Buffer \ {b}
<1>1. n \in Int /\ PoolSize \in Nat
  BY BuffersAssumption
<1>2. IsFiniteSet(D) /\ Cardinality(D) = n
  BY <1>1, FS_Interval
<1>3. IsFiniteSet(Buffer) /\ Cardinality(Buffer) = PoolSize
  BY <1>1, FS_Interval DEF Buffer
<1>4. IsFiniteSet(T) /\ Cardinality(T) = PoolSize - 1
  BY <1>3, FS_RemoveElement
<1> DEFINE f == [k \in D |-> s[k]]
<1>5. f \in Injection(D, T)
  BY <1>0 DEF Injection, IsInjective
<1>6. Cardinality(D) <= Cardinality(T)
  BY <1>2, <1>4, <1>5, FS_Injection
<1> QED BY <1>0, <1>1, <1>2, <1>4, <1>6

(* No buffer is ever in two channels, twice in one, or in somebody's hand  *)
(* and elsewhere, with any number of users.                                *)
THEOREM BuffersConserved == BuffersSpec => []Conserved
<1>1. BuffersInv => Conserved
  BY DEF BuffersInv
<1> QED BY BuffersInitInv, BuffersStepInv, <1>1, PTL DEF BuffersSpec

(* What Next returns is always zeroed.                                     *)
THEOREM BuffersZeroed == BuffersSpec => []ZeroedInPool
<1>1. BuffersInv => ZeroedInPool
  BY DEF BuffersInv
<1> QED BY BuffersInitInv, BuffersStepInv, <1>1, PTL DEF BuffersSpec

(* cleanChan has room for every buffer that a user may release, although   *)
(* the clean-up goroutines may never run.                                  *)
THEOREM ReleaseHasRoom == BuffersSpec => []ReleaseNeverBlocks
<1>1. BuffersInv => ReleaseNeverBlocks
  BY Pigeonhole DEF BuffersInv, BuffersTypeOK, Conserved, ReleaseNeverBlocks,
                    RoomToRelease, InClean
<1> QED BY BuffersInitInv, BuffersStepInv, <1>1, PTL DEF BuffersSpec

-----------------------------------------------------------------------------
(* Every step of the pool is a step of the lease, or invisible.            *)
LEMMA StepRefines ==
  BuffersInv /\ [BuffersNext]_buffersVars => [Lease!LeaseNext]_<<held, buff>>
<1> SUFFICES ASSUME BuffersInv, [BuffersNext]_buffersVars
             PROVE  [Lease!LeaseNext]_<<held, buff>>
  OBVIOUS
<1> USE DEF BuffersInv, Lease!LeaseNext
<1>1. CASE UNCHANGED <<held, buff>>
  BY <1>1
<1>2. ASSUME NEW b \in Buffer, NextBuffer(b) PROVE Lease!Take(b)
  <2>1. InPool(b) /\ buff[b] = 0
    BY <1>2, TailFacts DEF NextBuffer, BuffersTypeOK, InPool, ZeroedInPool
  <2>2. held[b] = 0
    BY <2>1 DEF Conserved, BuffersTypeOK
  <2> QED BY <1>2, <2>1, <2>2 DEF NextBuffer, Lease!Take
<1>3. ASSUME NEW b \in Buffer, Release(b) PROVE Lease!Give(b)
  <2>1. held[b] = 1 /\ held[b] - 1 = 0
    BY <1>3 DEF Release, Conserved, BuffersTypeOK
  <2>2. held' = [held EXCEPT ![b] = 0] /\ UNCHANGED buff
    BY <1>3, <2>1 DEF Release
  <2> QED BY <2>1, <2>2 DEF Lease!Give
<1>4. ASSUME NEW b \in Buffer, NEW d \in Nat \ {0}, Fill(b, d) PROVE Lease!Use(b)
  BY <1>4 DEF Fill, Conserved, BuffersTypeOK, Lease!Use
<1>5. ASSUME NEW c \in Cleaner, Wipe(c) PROVE Lease!Clear(cleaner[c].buf)
  <2>1. InHand(cleaner[c].buf) /\ cleaner[c].buf \in Buffer
    BY <1>5 DEF Wipe, InHand, CleanersOK
  <2>2. held[cleaner[c].buf] = 0
    BY <2>1 DEF Conserved, BuffersTypeOK
  <2> QED BY <1>5, <2>2 DEF Wipe, Wiped, Lease!Clear
<1>6. ASSUME NEW c \in Cleaner, Receive(c) \/ Return(c) PROVE UNCHANGED <<held, buff>>
  BY <1>6 DEF Receive, Return
<1>7. \A c \in Cleaner : Wipe(c) => cleaner[c].buf \in Buffer
  BY DEF Wipe, CleanersOK
<1> QED BY <1>1, <1>2, <1>3, <1>4, <1>5, <1>6, <1>7
        DEF BuffersNext, buffersVars, CleanUp

(* The pool with its channels and clean-up goroutines implements the lease:*)
(* one holder at a time, a zeroed buffer for each, and nobody else writes  *)
(* a buffer while it is held.                                              *)
THEOREM PoolImplementsLease == BuffersSpec => ImplementsLease
<1>1. BuffersInit => Lease!LeaseInit
  BY DEF BuffersInit, Lease!LeaseInit
<1> QED BY <1>1, BuffersInitInv, BuffersStepInv, StepRefines, PTL
        DEF BuffersSpec, ImplementsLease, Lease!LeaseSpec

-----------------------------------------------------------------------------
ReaderAt == {"next", "read", "offer", "inline", "release", "stopped"}

SenderAt == {"off", "crc", "lookup", "check", "wait", "dial", "store", "write"}

SenderType ==
  [pc : SenderAt, from : Int, code : Flow, conn : Packet \cup {0, Nil},
   late : BOOLEAN]

RelaysTypeOK ==
  /\ program \in Program
  /\ reader \in [pc : ReaderAt, pkt : 0..Packets, buf : Nat]
  /\ rbuf \in 0..Packets
  /\ buff \in [Buffer -> 0..Packets]
  /\ sender \in [Packet -> SenderType]
  /\ connMap \in [Flow -> Packet \cup {0, Nil}]
  /\ out \in Seq(Packet)

(* A buffer that a sender of packet p reads has not been used since, is    *)
(* zeroed, or holds a later packet.                                        *)
NotEarlier(b, p) == buff[b] = 0 \/ buff[b] >= p

(* The memory and the code that the sender of packet p works with.         *)
SourceOK(p) ==
  sender[p].pc # "off" =>
    /\ p <= reader.pkt
    /\ program \notin {"main3", "main4"}
    /\ program \in {"gateway", "main1", "main2"} => sender[p].from = Own
    /\ program = "ip2ip" => sender[p].from = Shared /\ rbuf >= p
    /\ program = "tcp" => sender[p].from \in Buffer /\ NotEarlier(sender[p].from, p)
    /\ program \in {"gateway", "main2"} /\ sender[p].pc # "crc"
         => sender[p].code = FlowOf[p]

ReaderOK ==
  /\ rbuf <= reader.pkt
  /\ program = "tcp" /\ reader.pc \in {"read", "offer", "release"}
       => reader.buf \in Buffer /\ held[reader.buf] > 0
  /\ program = "tcp" /\ reader.pc = "offer" => buff[reader.buf] = reader.pkt
  /\ reader.pc = "inline" => program \in {"main3", "main4"} /\ rbuf = reader.pkt

RelaysInv ==
  /\ BuffersInv /\ RelaysTypeOK /\ ReaderOK /\ Faithful
  /\ \A p \in Packet : SourceOK(p)

LEMMA NoSenderType == NoSender \in SenderType /\ NoSender.pc = "off"
<1>1. ZeroFlow \in Flow /\ Own \in Int
  BY DEF Flow, Own
<1> QED BY <1>1 DEF NoSender, SenderType, SenderAt

LEMMA RelaysInitInv == Init => RelaysInv
<1> SUFFICES ASSUME Init PROVE RelaysInv
  OBVIOUS
<1>1. BuffersInv
  BY BuffersInitInv DEF Init
<1>2. NoSender \in SenderType /\ NoSender.pc = "off"
  BY NoSenderType
<1>3. RelaysTypeOK
  <2>1. reader \in [pc : ReaderAt, pkt : 0..Packets, buf : Nat]
    <3>1. 0 \in 0..Packets
      BY RelaysAssumption
    <3> QED BY <3>1 DEF Init, ReaderAt
  <2>2. sender \in [Packet -> SenderType]
    BY <1>2 DEF Init
  <2>3. rbuf \in 0..Packets /\ buff \in [Buffer -> 0..Packets]
    BY RelaysAssumption DEF Init, BuffersInit
  <2> QED BY <2>1, <2>2, <2>3 DEF Init, RelaysTypeOK
<1>4. ReaderOK /\ Faithful
  BY DEF Init, ReaderOK, Faithful
<1>5. \A p \in Packet : SourceOK(p)
  BY <1>2 DEF Init, SourceOK
<1> QED BY <1>1, <1>3, <1>4, <1>5 DEF RelaysInv

(* The programs use the pool as BuffersPool allows.                        *)
LEMMA UsesBuffers ==
  ASSUME RelaysInv, [Next]_vars
  PROVE  [BuffersNext]_buffersVars
<1>1. ASSUME NEW p \in Packet, TcpRead(p) PROVE BuffersNext
  <2>1. reader.buf \in Buffer /\ p \in Nat \ {0} /\ Fill(reader.buf, p)
    BY <1>1, RelaysAssumption DEF TcpRead, RelaysInv, ReaderOK, Packet
  <2> QED BY <2>1 DEF BuffersNext
<1>2. ASSUME TcpReadError \/ TcpRelease PROVE BuffersNext
  <2>1. reader.buf \in Buffer /\ Release(reader.buf)
    BY <1>2 DEF TcpReadError, TcpRelease, RelaysInv, ReaderOK
  <2> QED BY <2>1 DEF BuffersNext
<1>3. ASSUME TcpNext PROVE BuffersNext
  BY <1>3 DEF TcpNext, BuffersNext
<1>4. ASSUME NEW c \in Cleaner, CleanUp(c) PROVE BuffersNext
  BY <1>4 DEF BuffersNext
<1>5. ASSUME NEW p \in Packet,
             ReadAndSpawn(p) \/ ReadOne(p) \/ Offer(p) \/ WriteInline(p) \/ TcpOffer(p)
      PROVE  UNCHANGED buffersVars
  BY <1>5 DEF ReadAndSpawn, ReadOne, Offer, WriteInline, TcpOffer
<1>6. ASSUME NEW p \in Packet, Sender(p) \/ AwaitContainer(p)
      PROVE  UNCHANGED buffersVars
  BY <1>6 DEF Sender, AwaitContainer, Crc, Lookup, Dial, DialFatal, Store, MapRace,
              Write, WriteNil, Crash
<1>7. ASSUME ReadFatal PROVE UNCHANGED buffersVars
  BY <1>7 DEF ReadFatal, Crash
<1> QED BY <1>1, <1>2, <1>3, <1>4, <1>5, <1>6, <1>7 DEF Next, Reader, vars

LEMMA KeepsBuffers ==
  ASSUME RelaysInv, [Next]_vars
  PROVE  BuffersInv' /\ buff' \in [Buffer -> 0..Packets]
<1>1. BuffersInv'
  BY UsesBuffers, BuffersStepInv DEF RelaysInv
<1>2. buff \in [Buffer -> 0..Packets] /\ 0 \in 0..Packets /\ Packet \subseteq 0..Packets
  BY RelaysAssumption DEF RelaysInv, RelaysTypeOK, Packet
<1>3. ASSUME NEW p \in Packet, TcpRead(p) PROVE buff' \in [Buffer -> 0..Packets]
  BY <1>2, <1>3 DEF TcpRead, Fill
<1>4. ASSUME NEW c \in Cleaner, Wipe(c) PROVE buff' \in [Buffer -> 0..Packets]
  BY <1>2, <1>4 DEF Wipe, Wiped
<1>5. (\E p \in Packet : TcpRead(p)) \/ (\E c \in Cleaner : Wipe(c)) \/ UNCHANGED buff
  BY DEF Next, Reader, vars, buffersVars, ReadAndSpawn, ReadOne, Offer, WriteInline,
         TcpOffer, TcpNext, NextBuffer, TcpReadError, TcpRelease, Release, ReadFatal,
         Crash, Sender, AwaitContainer, Crc, Lookup, Dial, DialFatal, Store, MapRace,
         Write, WriteNil, CleanUp, Receive, Return
<1> QED BY <1>1, <1>2, <1>3, <1>4, <1>5

-----------------------------------------------------------------------------
(* The goroutine that sends packet p takes a step and writes nothing.      *)
LEMMA OneSender ==
  ASSUME RelaysInv, BuffersInv', NEW p \in Packet, sender[p].pc # "off",
         NEW r \in SenderType, sender' = [sender EXCEPT ![p] = r],
         r.from = sender[p].from,
         program \in {"gateway", "main2"} /\ r.pc # "crc" => r.code = FlowOf[p],
         connMap' \in [Flow -> Packet \cup {0, Nil}],
         UNCHANGED <<buff, held, program, reader, rbuf, out, last>>
  PROVE  RelaysInv'
<1>1. RelaysTypeOK'
  BY DEF RelaysInv, RelaysTypeOK
<1>2. ReaderOK' /\ Faithful'
  BY DEF RelaysInv, ReaderOK, Faithful
<1>3. ASSUME NEW q \in Packet PROVE SourceOK(q)'
  <2>1. SourceOK(q) /\ sender \in [Packet -> SenderType]
    BY DEF RelaysInv, RelaysTypeOK
  <2>2. CASE q = p
    <3>1. sender'[q] = r
      BY <2>1, <2>2
    <3> QED BY <2>1, <2>2, <3>1 DEF SourceOK, NotEarlier
  <2>3. CASE q # p
    <3>1. sender'[q] = sender[q]
      BY <2>1, <2>3
    <3> QED BY <2>1, <3>1 DEF SourceOK, NotEarlier
  <2> QED BY <2>2, <2>3
<1> QED BY <1>1, <1>2, <1>3 DEF RelaysInv

(* What a sender finds in its packet's memory.                             *)
LEMMA BytesFacts ==
  ASSUME RelaysInv, NEW p \in Packet, sender[p].pc # "off",
         NEW d \in Bytes(p, sender[p].from)
  PROVE  /\ program \notin {"ip2ip", "tcp"} => d = {p}
         /\ program = "ip2ip" => \A q \in d : q >= p
         /\ program = "tcp" => \A q \in d : q = 0 \/ q >= p
<1> DEFINE from == sender[p].from
<1>1. /\ SourceOK(p) /\ RelaysTypeOK /\ rbuf \in Nat /\ p \in Nat
      /\ program \in Programs /\ Arrivals[program] \in Nat
  BY RelaysAssumption DEF RelaysInv, RelaysTypeOK, Packet
<1>2. CASE program \notin {"ip2ip", "tcp"}
  <2>1. from = Own
    BY <1>1, <1>2 DEF SourceOK, Programs
  <2>2. Bytes(p, Own) = {{p}}
    BY DEF Bytes, Own, Shared
  <2> QED BY <2>1, <2>2, <1>2
<1>3. CASE program = "ip2ip"
  <2>1. from = Shared /\ Shared # Own /\ rbuf >= p
    BY <1>1, <1>3 DEF SourceOK, Shared, Own
  <2>2. PICK q \in rbuf..Arrivals[program] : d = {rbuf, q}
    BY <2>1 DEF Bytes
  <2>3. q >= p
    BY <2>1, <2>2, <1>1
  <2> QED BY <2>1, <2>2, <2>3, <1>3
<1>4. CASE program = "tcp"
  <2>1. from \in Buffer /\ (buff[from] = 0 \/ buff[from] >= p)
    BY <1>1, <1>4 DEF SourceOK, NotEarlier
  <2>2. from # Own /\ from # Shared
    BY <2>1, BuffersAssumption DEF Buffer, Own, Shared
  <2>3. PICK q \in {buff[from], 0} \cup ((p + 1)..Arrivals[program]) : d = {buff[from], q}
    BY <2>2 DEF Bytes
  <2>4. q = 0 \/ q >= p
    BY <2>1, <2>3, <1>1
  <2> QED BY <2>1, <2>3, <2>4, <1>4
<1> QED BY <1>2, <1>3, <1>4

(* They are packets that have arrived or will, or zeros.                   *)
LEMMA BytesRange ==
  ASSUME RelaysInv, NEW p \in Packet, sender[p].pc # "off",
         NEW d \in Bytes(p, sender[p].from)
  PROVE  d \subseteq Packet \cup {0}
<1> DEFINE from == sender[p].from
<1>1. /\ SourceOK(p) /\ rbuf \in 0..Packets /\ buff \in [Buffer -> 0..Packets]
      /\ program \in Programs /\ Arrivals[program] \in 0..Packets /\ Packets \in Nat
      /\ p \in Nat
  BY RelaysAssumption DEF RelaysInv, RelaysTypeOK, Packet
<1>2. CASE program \notin {"ip2ip", "tcp"}
  BY <1>2, BytesFacts
<1>3. CASE program = "ip2ip"
  <2>1. from = Shared /\ Shared # Own
    BY <1>1, <1>3 DEF SourceOK, Shared, Own
  <2>2. PICK q \in rbuf..Arrivals[program] : d = {rbuf, q}
    BY <2>1 DEF Bytes
  <2>3. q \in Packet \cup {0} /\ rbuf \in Packet \cup {0}
    BY <2>2, <1>1 DEF Packet
  <2> QED BY <2>2, <2>3
<1>4. CASE program = "tcp"
  <2>1. from \in Buffer /\ from # Own /\ from # Shared
    BY <1>1, <1>4, BuffersAssumption DEF SourceOK, Buffer, Own, Shared
  <2>2. PICK q \in {buff[from], 0} \cup ((p + 1)..Arrivals[program]) : d = {buff[from], q}
    BY <2>1 DEF Bytes
  <2>3. buff[from] \in 0..Packets
    BY <2>1, <1>1
  <2>4. q \in Packet \cup {0} /\ buff[from] \in Packet \cup {0}
    BY <2>2, <2>3, <1>1 DEF Packet
  <2> QED BY <2>2, <2>4
<1> QED BY <1>2, <1>3, <1>4

LEMMA CrcInv ==
  ASSUME RelaysInv, BuffersInv', NEW p \in Packet, Crc(p)
  PROVE  RelaysInv'
<1>0. PICK d \in Bytes(p, sender[p].from) : \E f \in CodesOf(d) :
        sender' = [sender EXCEPT
          ![p].code = f,
          ![p].pc = IF program = "gateway" THEN "write" ELSE "lookup",
          ![p].conn = IF program = "gateway" THEN p ELSE Nil]
  BY DEF Crc
<1>1. PICK f \in CodesOf(d) :
        sender' = [sender EXCEPT
          ![p].code = f,
          ![p].pc = IF program = "gateway" THEN "write" ELSE "lookup",
          ![p].conn = IF program = "gateway" THEN p ELSE Nil]
  BY <1>0
<1>2. sender[p].pc = "crc" /\ sender[p] \in SenderType /\ sender \in [Packet -> SenderType]
  BY DEF Crc, RelaysInv, RelaysTypeOK
<1>3. f \in Flow
  <2>1. d \subseteq Packet \cup {0}
    BY <1>2, BytesRange
  <2> QED BY <1>1, <2>1 DEF CodesOf, Flow
<1>4. program \in {"gateway", "main2"} => f = FlowOf[p]
  <2> SUFFICES ASSUME program \in {"gateway", "main2"} PROVE f = FlowOf[p]
    OBVIOUS
  <2>1. d = {p}
    BY <1>2, BytesFacts
  <2>2. Cardinality({p}) = 1 /\ p # 0
    BY FS_Singleton DEF Packet
  <2>3. CodesOf({p}) = {FlowOf[p]}
    BY <2>2 DEF CodesOf
  <2> QED BY <1>1, <2>1, <2>3
<1> DEFINE r == [sender[p] EXCEPT
                   !.code = f,
                   !.pc = IF program = "gateway" THEN "write" ELSE "lookup",
                   !.conn = IF program = "gateway" THEN p ELSE Nil]
<1>5. /\ r \in SenderType /\ r.from = sender[p].from /\ r.code = f
      /\ sender' = [sender EXCEPT ![p] = r]
  BY <1>1, <1>2, <1>3 DEF SenderType, SenderAt
<1>6. connMap' \in [Flow -> Packet \cup {0, Nil}]
  BY DEF Crc, RelaysInv, RelaysTypeOK
<1> HIDE DEF r
<1>7. UNCHANGED <<buff, held, program, reader, rbuf, out, last>>
  BY DEF Crc, buffersVars
<1> QED BY <1>2, <1>4, <1>5, <1>6, <1>7, OneSender

LEMMA LookupInv ==
  ASSUME RelaysInv, BuffersInv', NEW p \in Packet, Lookup(p)
  PROVE  RelaysInv'
<1> DEFINE f == sender[p].code
           at == IF Known(f) THEN "write"
                 ELSE IF sender[p].pc = "lookup" THEN "check"
                 ELSE IF program = "tcp" THEN "wait" ELSE "dial"
           conn == IF Known(f) THEN connMap[f] ELSE Nil
           r == [sender[p] EXCEPT !.pc = at, !.conn = conn]
<1>1. /\ sender[p].pc \in {"lookup", "check"} /\ sender[p] \in SenderType
      /\ sender \in [Packet -> SenderType] /\ f \in Flow
  BY DEF Lookup, RelaysInv, RelaysTypeOK, SenderType
<1>2. conn \in Packet \cup {0, Nil} /\ at \in SenderAt
  BY <1>1 DEF RelaysInv, RelaysTypeOK, SenderAt
<1>3. sender' = [sender EXCEPT ![p].pc = at, ![p].conn = conn]
  BY DEF Lookup
<1> HIDE DEF at, conn
<1>4. /\ r \in SenderType /\ r.from = sender[p].from /\ r.code = sender[p].code
      /\ sender' = [sender EXCEPT ![p] = r]
  BY <1>1, <1>2, <1>3 DEF SenderType
<1>5. program \in {"gateway", "main2"} => r.code = FlowOf[p]
  BY <1>1, <1>4 DEF RelaysInv, SourceOK
<1>6. connMap' \in [Flow -> Packet \cup {0, Nil}]
  BY DEF Lookup, RelaysInv, RelaysTypeOK
<1>7. UNCHANGED <<buff, held, program, reader, rbuf, out, last>>
  BY DEF Lookup, buffersVars
<1> HIDE DEF r
<1> QED BY <1>1, <1>4, <1>5, <1>6, <1>7, OneSender

(* AwaitContainer, Dial and Store change where the sender is and the       *)
(* connection.                                                             *)
LEMMA ConnectInv ==
  ASSUME RelaysInv, BuffersInv', NEW p \in Packet,
         sender[p].pc \in {"wait", "dial", "store"},
         NEW at \in SenderAt, NEW conn \in Packet \cup {0, Nil},
         sender' = [sender EXCEPT ![p].pc = at, ![p].conn = conn],
         connMap' \in [Flow -> Packet \cup {0, Nil}],
         UNCHANGED <<buffersVars, program, reader, rbuf, out, last>>
  PROVE  RelaysInv'
<1> DEFINE r == [sender[p] EXCEPT !.pc = at, !.conn = conn]
<1>1. sender[p] \in SenderType /\ sender \in [Packet -> SenderType]
  BY DEF RelaysInv, RelaysTypeOK
<1>2. /\ r \in SenderType /\ r.from = sender[p].from /\ r.code = sender[p].code
      /\ sender' = [sender EXCEPT ![p] = r]
  BY <1>1 DEF SenderType
<1>3. program \in {"gateway", "main2"} => r.code = FlowOf[p]
  BY <1>2 DEF RelaysInv, SourceOK
<1>4. UNCHANGED <<buff, held>>
  BY DEF buffersVars
<1> HIDE DEF r
<1> QED BY <1>2, <1>3, <1>4, OneSender

LEMMA DialsInv ==
  ASSUME RelaysInv, BuffersInv', NEW p \in Packet,
         AwaitContainer(p) \/ Dial(p) \/ Store(p)
  PROVE  RelaysInv'
<1>1. /\ sender \in [Packet -> SenderType] /\ sender[p] \in SenderType
      /\ sender[p].conn \in Packet \cup {0, Nil} /\ sender[p].code \in Flow
      /\ connMap \in [Flow -> Packet \cup {0, Nil}]
  BY DEF RelaysInv, RelaysTypeOK, SenderType
<1>2. {"dial", "store", "write"} \subseteq SenderAt
  BY DEF SenderAt
<1>3. \A l \in SenderAt : SenderTo(p, l) =>
        sender' = [sender EXCEPT ![p].pc = l, ![p].conn = sender[p].conn]
  BY <1>1 DEF SenderTo, SenderType
<1>4. CASE AwaitContainer(p)
  BY <1>1, <1>2, <1>3, <1>4, ConnectInv DEF AwaitContainer
<1>5. CASE Dial(p)
  <2>1. PICK c \in Packet \cup {0, Nil} :
          sender' = [sender EXCEPT ![p].pc = "store", ![p].conn = c]
    BY <1>5 DEF Dial
  <2> QED BY <1>1, <1>2, <1>5, <2>1, ConnectInv DEF Dial
<1>6. CASE Store(p)
  <2>1. connMap' \in [Flow -> Packet \cup {0, Nil}]
    BY <1>1, <1>6 DEF Store
  <2> QED BY <1>1, <1>2, <1>3, <1>6, <2>1, ConnectInv DEF Store
<1> QED BY <1>4, <1>5, <1>6

(* What is written last is the packet of the sender that wrote it.         *)
LEMMA LastWritten ==
  ASSUME out \in Seq(Packet), NEW p \in Packet, out' = Append(out, p)
  PROVE  out' \in Seq(Packet) /\ out'[Len(out')] = p
BY AppendFacts

LEMMA WriteInv ==
  ASSUME RelaysInv, BuffersInv', NEW p \in Packet, Write(p)
  PROVE  RelaysInv'
<1>1. /\ sender[p].pc = "write" /\ SourceOK(p) /\ RelaysTypeOK
      /\ sender \in [Packet -> SenderType] /\ program' = program
  BY DEF Write, RelaysInv, RelaysTypeOK
<1>2. PICK d \in Bytes(p, sender[p].from) : last' = [data |-> d, code |-> sender[p].code]
  BY DEF Write
<1>3. out' \in Seq(Packet) /\ out'[Len(out')] = p
  BY <1>1, LastWritten DEF Write, RelaysTypeOK
<1>4. Faithful'
  <2>1. last'.data = d /\ last'.code = sender[p].code
    BY <1>2
  <2>2. program \in {"gateway", "main2"} => sender[p].code = FlowOf[p]
    BY <1>1 DEF SourceOK
  <2>3. /\ program \notin {"ip2ip", "tcp"} => d = {p}
        /\ program = "ip2ip" => \A q \in d : q >= p
        /\ program = "tcp" => \A q \in d : q = 0 \/ q >= p
    BY <1>1, <1>2, BytesFacts
  <2> QED BY <1>1, <1>3, <2>1, <2>2, <2>3 DEF Faithful
<1>5. RelaysTypeOK'
  BY <1>1, <1>3, NoSenderType DEF Write, RelaysTypeOK, buffersVars
<1>6. ReaderOK'
  BY DEF Write, RelaysInv, ReaderOK, buffersVars
<1>7. ASSUME NEW q \in Packet PROVE SourceOK(q)'
  <2>1. q # p => sender'[q] = sender[q]
    BY <1>1 DEF Write
  <2>2. sender'[p].pc = "off"
    BY <1>1, NoSenderType DEF Write
  <2> QED BY <2>1, <2>2 DEF Write, RelaysInv, SourceOK, NotEarlier, buffersVars
<1> QED BY <1>4, <1>5, <1>6, <1>7 DEF RelaysInv

-----------------------------------------------------------------------------
(* The reader starts the sender of packet p, or none: what the other       *)
(* senders work with stays.                                                *)
LEMMA OneSpawn ==
  ASSUME RelaysInv, BuffersInv', NEW p \in Packet,
         NEW r \in SenderType, sender' = [sender EXCEPT ![p] = r],
         reader' \in [pc : ReaderAt, pkt : 0..Packets, buf : Nat],
         reader'.pkt >= reader.pkt, rbuf' \in 0..Packets, rbuf' >= rbuf,
         ReaderOK', SourceOK(p)',
         UNCHANGED <<buff, program, connMap, out, last>>
  PROVE  RelaysInv'
<1>1. /\ sender \in [Packet -> SenderType] /\ reader.pkt \in Nat /\ rbuf \in Nat
      /\ reader'.pkt \in Nat /\ rbuf' \in Nat
  BY RelaysAssumption DEF RelaysInv, RelaysTypeOK
<1>2. RelaysTypeOK'
  BY <1>1 DEF RelaysInv, RelaysTypeOK
<1>3. Faithful'
  BY DEF RelaysInv, Faithful
<1>4. ASSUME NEW q \in Packet, q # p PROVE SourceOK(q)'
  <2>1. SourceOK(q) /\ q \in Nat /\ sender'[q] = sender[q]
    BY <1>1, <1>4 DEF RelaysInv, Packet
  <2>2. q <= reader.pkt => q <= reader'.pkt
    BY <1>1, <2>1
  <2>3. rbuf >= q => rbuf' >= q
    BY <1>1, <2>1
  <2> QED BY <2>1, <2>2, <2>3 DEF SourceOK, NotEarlier
<1> QED BY <1>2, <1>3, <1>4 DEF RelaysInv

(* A goroutine that Spawn starts.                                          *)
LEMMA SpawnFacts ==
  ASSUME NEW p \in Packet, NEW from \in Int, sender \in [Packet -> SenderType],
         Spawn(p, from)
  PROVE  \E r \in SenderType : /\ sender' = [sender EXCEPT ![p] = r]
                               /\ r.pc = "crc" /\ r.from = from
<1> DEFINE r == [pc |-> "crc", from |-> from, code |-> ZeroFlow, conn |-> Nil,
                 late |-> connMap[FlowOf[p]] # 0]
<1>1. ZeroFlow \in Flow
  BY DEF Flow
<1>2. r \in SenderType /\ r.pc = "crc" /\ r.from = from
  BY <1>1 DEF SenderType, SenderAt
<1>3. sender' = [sender EXCEPT ![p] = r]
  BY DEF Spawn
<1> QED BY <1>2, <1>3

(* In the gateway's switch, a packet that is UDP has 17 where its second   *)
(* condition looks for 67.                                                 *)
LEMMA GatewayCopies ==
  ASSUME NEW p \in Packet, IsUDP(p)
  PROVE  GatewayFrom(p) = Own
<1>1. 23 - 14 = 9
  OBVIOUS
<1>2. FrameByte(p, 23) = 17
  BY <1>1 DEF FrameByte, IsUDP
<1> QED BY <1>2 DEF GatewayFrom, GivesBuffer

LEMMA ReadAndSpawnInv ==
  ASSUME RelaysInv, BuffersInv', NEW p \in Packet, ReadAndSpawn(p)
  PROVE  RelaysInv'
<1>1. /\ sender \in [Packet -> SenderType] /\ sender[p] \in SenderType
      /\ reader \in [pc : ReaderAt, pkt : 0..Packets, buf : Nat]
      /\ rbuf \in 0..Packets /\ rbuf <= reader.pkt /\ SourceOK(p)
  BY DEF RelaysInv, RelaysTypeOK, ReaderOK
<1>2. /\ reader.pc = "read" /\ p = reader.pkt + 1 /\ rbuf' = p
      /\ reader' = [reader EXCEPT !.pkt = p]
      /\ UNCHANGED <<buff, held, program, connMap, out, last>>
      /\ program \in {"gateway", "main2", "ip2ip"}
  BY DEF ReadAndSpawn, Arrives, buffersVars
<1>3. p \in 0..Packets /\ p >= reader.pkt /\ p >= rbuf /\ p <= p /\ ~(p <= reader.pkt)
  BY <1>1, <1>2, RelaysAssumption DEF Packet
<1>4. /\ reader' \in [pc : ReaderAt, pkt : 0..Packets, buf : Nat]
      /\ reader'.pkt = p /\ reader'.pc = "read"
  BY <1>1, <1>2, <1>3
<1>5. ReaderOK'
  BY <1>2, <1>3, <1>4 DEF ReaderOK
<1>6. CASE Dropped(p)
  <2>1. sender' = [sender EXCEPT ![p] = sender[p]]
    BY <1>1, <1>6 DEF ReadAndSpawn
  <2>2. sender[p].pc = "off" /\ sender' = sender
    BY <1>1, <1>3, <1>6 DEF SourceOK, ReadAndSpawn
  <2>3. SourceOK(p)'
    BY <2>2 DEF SourceOK
  <2> QED BY <1>1, <1>2, <1>3, <1>4, <1>5, <2>1, <2>3, OneSpawn
<1>7. CASE ~Dropped(p)
  <2>1. From(p) = IF program = "ip2ip" THEN Shared ELSE Own
    <3>1. CASE program = "gateway"
      BY <3>1, <1>7, GatewayCopies DEF From, Dropped
    <3>2. CASE program # "gateway"
      BY <3>2, <1>2 DEF From, PayloadFrom, SharedFrom
    <3> QED BY <3>1, <3>2
  <2>2. From(p) \in Int /\ Spawn(p, From(p))
    BY <2>1, <1>7 DEF Own, Shared, ReadAndSpawn
  <2>3. PICK r \in SenderType : /\ sender' = [sender EXCEPT ![p] = r]
                                /\ r.pc = "crc" /\ r.from = From(p)
    BY <2>2, <1>1, SpawnFacts
  <2>4. sender'[p] = r
    BY <2>3, <1>1
  <2>5. SourceOK(p)'
    BY <1>2, <1>3, <1>4, <2>1, <2>3, <2>4 DEF SourceOK
  <2> QED BY <1>1, <1>2, <1>3, <1>4, <1>5, <2>3, <2>5, OneSpawn
<1> QED BY <1>6, <1>7

LEMMA ReadOneInv ==
  ASSUME RelaysInv, BuffersInv', NEW p \in Packet, ReadOne(p)
  PROVE  RelaysInv'
<1> DEFINE at == IF Dropped(p) THEN "read"
                 ELSE IF program = "main1" THEN "offer" ELSE "inline"
<1>1. /\ sender \in [Packet -> SenderType] /\ sender[p] \in SenderType
      /\ reader \in [pc : ReaderAt, pkt : 0..Packets, buf : Nat]
      /\ rbuf \in 0..Packets /\ rbuf <= reader.pkt /\ SourceOK(p)
  BY DEF RelaysInv, RelaysTypeOK, ReaderOK
<1>2. /\ p = reader.pkt + 1 /\ rbuf' = p
      /\ reader' = [reader EXCEPT !.pkt = p, !.pc = at]
      /\ UNCHANGED <<buff, held, program, sender, connMap, out, last>>
      /\ program \in {"main1", "main3", "main4"}
  BY DEF ReadOne, Arrives, buffersVars
<1>3. p \in 0..Packets /\ p >= reader.pkt /\ p >= rbuf /\ p <= p /\ ~(p <= reader.pkt)
  BY <1>1, <1>2, RelaysAssumption DEF Packet
<1>4. at \in ReaderAt /\ (at = "inline" => program # "main1")
  BY DEF ReaderAt
<1> HIDE DEF at
<1>5. /\ reader' \in [pc : ReaderAt, pkt : 0..Packets, buf : Nat]
      /\ reader'.pkt = p /\ reader'.pc = at
  BY <1>1, <1>2, <1>3, <1>4
<1>6. ReaderOK'
  BY <1>2, <1>3, <1>4, <1>5 DEF ReaderOK
<1>7. sender[p].pc = "off" /\ sender' = [sender EXCEPT ![p] = sender[p]]
  BY <1>1, <1>2, <1>3 DEF SourceOK
<1>8. SourceOK(p)'
  BY <1>2, <1>7 DEF SourceOK
<1> QED BY <1>1, <1>2, <1>3, <1>5, <1>6, <1>7, <1>8, OneSpawn

LEMMA OfferInv ==
  ASSUME RelaysInv, BuffersInv', NEW p \in Packet, Offer(p)
  PROVE  RelaysInv'
<1> DEFINE r == [sender[p] EXCEPT !.pc = "write", !.from = Own, !.conn = p]
<1>1. /\ sender \in [Packet -> SenderType] /\ sender[p] \in SenderType
      /\ reader \in [pc : ReaderAt, pkt : 0..Packets, buf : Nat]
      /\ rbuf \in 0..Packets /\ rbuf <= reader.pkt
  BY DEF RelaysInv, RelaysTypeOK, ReaderOK
<1>2. /\ p = reader.pkt /\ rbuf' = rbuf /\ program = "main1"
      /\ reader' = [reader EXCEPT !.pc = "read"]
      /\ sender' = [sender EXCEPT ![p].pc = "write", ![p].from = From(p), ![p].conn = p]
      /\ UNCHANGED <<buff, held, program, connMap, out, last>>
  BY DEF Offer, buffersVars
<1>3. From(p) = Own /\ Own \in Int
  BY <1>2 DEF From, PayloadFrom, Own
<1>4. /\ reader' \in [pc : ReaderAt, pkt : 0..Packets, buf : Nat]
      /\ reader'.pkt = p /\ reader'.pc = "read"
  BY <1>1, <1>2 DEF ReaderAt
<1>5. ReaderOK'
  BY <1>1, <1>2, <1>4 DEF ReaderOK
<1>6. r \in SenderType /\ r.from = Own /\ sender' = [sender EXCEPT ![p] = r]
  BY <1>1, <1>2, <1>3 DEF SenderType, SenderAt
<1>7. sender'[p] = r
  BY <1>1, <1>6
<1>8. p \in Nat /\ p >= p /\ rbuf >= rbuf
  BY <1>1 DEF Packet
<1> HIDE DEF r
<1>9. SourceOK(p)'
  BY <1>2, <1>4, <1>6, <1>7, <1>8 DEF SourceOK
<1> QED BY <1>1, <1>2, <1>4, <1>5, <1>6, <1>8, <1>9, OneSpawn

LEMMA WriteInlineInv ==
  ASSUME RelaysInv, BuffersInv', NEW p \in Packet, WriteInline(p)
  PROVE  RelaysInv'
<1>1. /\ reader.pc = "inline" /\ p = reader.pkt /\ rbuf = p
      /\ program \in {"main3", "main4"} /\ RelaysTypeOK /\ rbuf <= reader.pkt
      /\ reader' = [reader EXCEPT !.pc = "read"]
      /\ UNCHANGED <<buff, held, program, rbuf, sender, connMap>>
  BY DEF WriteInline, RelaysInv, ReaderOK, buffersVars
<1>2. out' \in Seq(Packet) /\ out'[Len(out')] = p
  BY <1>1, LastWritten DEF WriteInline, RelaysTypeOK
<1>3. last'.data = {p}
  BY <1>1 DEF WriteInline, Inline
<1>4. reader' \in [pc : ReaderAt, pkt : 0..Packets, buf : Nat] /\ reader'.pkt = reader.pkt
      /\ reader'.pc = "read"
  BY <1>1 DEF RelaysTypeOK, ReaderAt
<1>5. RelaysTypeOK'
  BY <1>1, <1>2, <1>4 DEF RelaysTypeOK
<1>6. ReaderOK' /\ Faithful'
  BY <1>1, <1>2, <1>3, <1>4 DEF ReaderOK, Faithful
<1>7. \A q \in Packet : SourceOK(q)'
  BY <1>1, <1>4 DEF RelaysInv, SourceOK
<1> QED BY <1>5, <1>6, <1>7 DEF RelaysInv

(* A step of the TCP handler or of a clean-up goroutine that starts no     *)
(* sender and leaves in every buffer what was there, zeros, or the packet  *)
(* that was read last.                                                     *)
LEMMA OnlyBuffers ==
  ASSUME RelaysInv, BuffersInv', buff' \in [Buffer -> 0..Packets], ReaderOK',
         reader' \in [pc : ReaderAt, pkt : 0..Packets, buf : Nat],
         reader'.pkt >= reader.pkt,
         \A b \in Buffer : buff'[b] \in {buff[b], 0, reader'.pkt},
         UNCHANGED <<program, rbuf, sender, connMap, out, last>>
  PROVE  RelaysInv'
<1>1. RelaysTypeOK' /\ Faithful'
  <2>1. RelaysTypeOK'
    BY DEF RelaysInv, RelaysTypeOK
  <2>2. Faithful'
    BY DEF RelaysInv, Faithful
  <2> QED BY <2>1, <2>2
<1>2. reader.pkt \in Nat /\ reader'.pkt \in Nat
  BY RelaysAssumption DEF RelaysInv, RelaysTypeOK
<1>3. ASSUME NEW q \in Packet PROVE SourceOK(q)'
  <2>1. SourceOK(q) /\ q \in Nat
    BY DEF RelaysInv, Packet
  <2>2. q <= reader.pkt => q <= reader'.pkt
    BY <1>2, <2>1
  <2>3. ASSUME NEW b \in Buffer, NotEarlier(b, q), q <= reader.pkt
        PROVE  NotEarlier(b, q)'
    BY <1>2, <2>1, <2>2, <2>3 DEF NotEarlier
  <2> QED BY <2>1, <2>2, <2>3 DEF SourceOK
<1> QED BY <1>1, <1>3 DEF RelaysInv

LEMMA TcpNextInv ==
  ASSUME RelaysInv, BuffersInv', buff' \in [Buffer -> 0..Packets], TcpNext
  PROVE  RelaysInv'
<1>1. PICK b \in Buffer :
        NextBuffer(b) /\ reader' = [reader EXCEPT !.pc = "read", !.buf = b]
  BY DEF TcpNext
<1>2. /\ RelaysTypeOK /\ held \in [Buffer -> Nat] /\ b \in Nat
      /\ rbuf \in Nat /\ reader.pkt \in Nat /\ rbuf <= reader.pkt
  <2>1. b \in Nat
    BY BuffersAssumption DEF Buffer
  <2>2. held \in [Buffer -> Nat]
    BY DEF RelaysInv, BuffersInv, BuffersTypeOK
  <2>3. RelaysTypeOK /\ rbuf \in Nat /\ rbuf <= reader.pkt
    BY DEF RelaysInv, RelaysTypeOK, ReaderOK
  <2>4. reader.pkt \in Nat
    BY <2>3, RelaysAssumption DEF RelaysTypeOK
  <2> QED BY <2>1, <2>2, <2>3, <2>4
<1>3. /\ reader' \in [pc : ReaderAt, pkt : 0..Packets, buf : Nat]
      /\ reader'.pkt = reader.pkt /\ reader'.pc = "read" /\ reader'.buf = b
  BY <1>1, <1>2 DEF RelaysTypeOK, ReaderAt
<1>4. held'[b] > 0 /\ buff' = buff
  BY <1>1, <1>2 DEF NextBuffer
<1>5. ReaderOK'
  BY <1>2, <1>3, <1>4 DEF ReaderOK, TcpNext
<1> QED BY <1>2, <1>3, <1>4, <1>5, OnlyBuffers DEF TcpNext

LEMMA TcpReadInv ==
  ASSUME RelaysInv, BuffersInv', buff' \in [Buffer -> 0..Packets],
         NEW p \in Packet, TcpRead(p)
  PROVE  RelaysInv'
<1>1. /\ RelaysTypeOK /\ reader.buf \in Buffer /\ held[reader.buf] > 0
      /\ rbuf \in Nat /\ reader.pkt \in Nat /\ rbuf <= reader.pkt
      /\ p = reader.pkt + 1 /\ p \in 0..Packets /\ held' = held
      /\ buff' = [buff EXCEPT ![reader.buf] = p] /\ buff \in [Buffer -> 0..Packets]
      /\ reader' = [reader EXCEPT !.pc = "offer", !.pkt = p]
  BY RelaysAssumption
     DEF RelaysInv, RelaysTypeOK, ReaderOK, TcpRead, Arrives, Fill, Packet
<1>2. /\ reader' \in [pc : ReaderAt, pkt : 0..Packets, buf : Nat]
      /\ reader'.pkt = p /\ reader'.pc = "offer" /\ reader'.buf = reader.buf
  BY <1>1 DEF RelaysTypeOK, ReaderAt
<1>3. p >= reader.pkt /\ rbuf <= p
  BY <1>1
<1>4. buff'[reader.buf] = p /\ \A b \in Buffer : buff'[b] \in {buff[b], 0, p}
  BY <1>1
<1>5. ReaderOK'
  BY <1>1, <1>2, <1>3, <1>4 DEF ReaderOK, TcpRead
<1> QED BY <1>2, <1>3, <1>4, <1>5, OnlyBuffers DEF TcpRead

LEMMA TcpReleasesInv ==
  ASSUME RelaysInv, BuffersInv', buff' \in [Buffer -> 0..Packets],
         TcpReadError \/ TcpRelease
  PROVE  RelaysInv'
<1>1. PICK l \in {"stopped", "next"} : reader' = [reader EXCEPT !.pc = l]
  BY DEF TcpReadError, TcpRelease
<1>2. /\ RelaysTypeOK /\ buff' = buff
      /\ UNCHANGED <<program, rbuf, sender, connMap, out, last>>
      /\ rbuf \in Nat /\ reader.pkt \in Nat /\ rbuf <= reader.pkt
  BY RelaysAssumption
     DEF RelaysInv, RelaysTypeOK, ReaderOK, TcpReadError, TcpRelease, Release
<1>3. /\ reader' \in [pc : ReaderAt, pkt : 0..Packets, buf : Nat]
      /\ reader'.pkt = reader.pkt /\ reader'.pc = l
  BY <1>1, <1>2 DEF RelaysTypeOK, ReaderAt
<1>4. ReaderOK'
  BY <1>1, <1>2, <1>3 DEF ReaderOK
<1> QED BY <1>2, <1>3, <1>4, OnlyBuffers

LEMMA TcpOfferInv ==
  ASSUME RelaysInv, BuffersInv', NEW p \in Packet, TcpOffer(p)
  PROVE  RelaysInv'
<1>1. /\ RelaysTypeOK /\ reader.buf \in Buffer /\ held[reader.buf] > 0
      /\ program = "tcp" /\ buff[reader.buf] = p /\ p = reader.pkt /\ p \in Nat
      /\ rbuf \in 0..Packets /\ reader.pkt \in Nat /\ rbuf <= reader.pkt
      /\ reader' = [reader EXCEPT !.pc = "release"]
      /\ UNCHANGED <<buff, held, program, rbuf, connMap, out, last>>
  BY RelaysAssumption
     DEF RelaysInv, RelaysTypeOK, ReaderOK, TcpOffer, Packet, buffersVars
<1>2. /\ reader' \in [pc : ReaderAt, pkt : 0..Packets, buf : Nat]
      /\ reader'.pkt = p /\ reader'.pc = "release" /\ reader'.buf = reader.buf
  BY <1>1 DEF RelaysTypeOK, ReaderAt
<1>3. ReaderOK'
  BY <1>1, <1>2 DEF ReaderOK
<1>4. reader.buf \in Int /\ sender \in [Packet -> SenderType] /\ Spawn(p, reader.buf)
  BY <1>1 DEF RelaysTypeOK, TcpOffer
<1>5. PICK r \in SenderType : /\ sender' = [sender EXCEPT ![p] = r]
                              /\ r.pc = "crc" /\ r.from = reader.buf
  BY <1>4, SpawnFacts
<1>6. sender'[p] = r
  BY <1>4, <1>5
<1>7. p <= p /\ p >= reader.pkt /\ rbuf >= rbuf
  BY <1>1
<1>8. SourceOK(p)'
  BY <1>1, <1>2, <1>5, <1>6, <1>7 DEF SourceOK, NotEarlier
<1> QED BY <1>1, <1>2, <1>3, <1>5, <1>7, <1>8, OneSpawn

LEMMA CleanInv ==
  ASSUME RelaysInv, BuffersInv', buff' \in [Buffer -> 0..Packets],
         NEW c \in Cleaner, CleanUp(c), UNCHANGED relayVars
  PROVE  RelaysInv'
<1>1. /\ UNCHANGED <<program, reader, rbuf, sender, connMap, out, last>>
      /\ held' = held
  BY DEF relayVars, CleanUp, Receive, Wipe, Return
<1>2. /\ RelaysTypeOK /\ ReaderOK /\ Conserved /\ CleanersOK
      /\ buff \in [Buffer -> 0..Packets] /\ held \in [Buffer -> Nat]
  BY DEF RelaysInv, RelaysTypeOK, BuffersInv, BuffersTypeOK
<1>3. \A b \in Buffer : held[b] > 0 => buff'[b] = buff[b]
  <2>1. CASE Wipe(c)
    <3>1. cleaner[c].buf \in Buffer /\ InHand(cleaner[c].buf)
      BY <1>2, <2>1 DEF Wipe, CleanersOK, InHand
    <3>2. ~(held[cleaner[c].buf] > 0)
      BY <1>2, <3>1 DEF Conserved
    <3> QED BY <1>2, <2>1, <3>1, <3>2 DEF Wipe, Wiped
  <2>2. CASE ~Wipe(c)
    BY <2>2 DEF CleanUp, Receive, Return
  <2> QED BY <2>1, <2>2
<1>4. ReaderOK'
  BY <1>1, <1>2, <1>3 DEF ReaderOK
<1>5. \A b \in Buffer : buff'[b] \in {buff[b], 0, reader'.pkt}
  BY <1>2 DEF CleanUp, Receive, Wipe, Wiped, Return
<1>6. reader.pkt \in Nat /\ reader.pkt >= reader.pkt
  BY <1>2, RelaysAssumption DEF RelaysTypeOK
<1>7. reader' \in [pc : ReaderAt, pkt : 0..Packets, buf : Nat] /\ reader'.pkt >= reader.pkt
  BY <1>1, <1>2, <1>6 DEF RelaysTypeOK
<1> QED BY <1>1, <1>4, <1>5, <1>7, OnlyBuffers

-----------------------------------------------------------------------------
LEMMA RelaysStepInv == RelaysInv /\ [Next]_vars => RelaysInv'
<1> SUFFICES ASSUME RelaysInv, [Next]_vars PROVE RelaysInv'
  OBVIOUS
<1>1. BuffersInv' /\ buff' \in [Buffer -> 0..Packets]
  BY KeepsBuffers
<1>2. ASSUME UNCHANGED <<buffersVars, program, reader, rbuf, sender, connMap, out, last>>
      PROVE  RelaysInv'
  BY <1>1, <1>2 DEF RelaysInv, RelaysTypeOK, ReaderOK, Faithful, SourceOK, NotEarlier,
                    buffersVars
<1>3. ASSUME Reader PROVE RelaysInv'
  <2>1. ASSUME NEW p \in Packet, ReadAndSpawn(p) \/ ReadOne(p) \/ Offer(p)
        PROVE  RelaysInv'
    BY <1>1, <2>1, ReadAndSpawnInv, ReadOneInv, OfferInv
  <2>2. ASSUME NEW p \in Packet, WriteInline(p) \/ TcpRead(p) \/ TcpOffer(p)
        PROVE  RelaysInv'
    BY <1>1, <2>2, WriteInlineInv, TcpReadInv, TcpOfferInv
  <2>3. ASSUME TcpNext \/ TcpReadError \/ TcpRelease PROVE RelaysInv'
    BY <1>1, <2>3, TcpNextInv, TcpReleasesInv
  <2>4. ASSUME ReadFatal PROVE RelaysInv'
    BY <1>2, <2>4 DEF ReadFatal, Crash
  <2> QED BY <1>3, <2>1, <2>2, <2>3, <2>4 DEF Reader
<1>4. ASSUME NEW p \in Packet, Sender(p) \/ AwaitContainer(p) PROVE RelaysInv'
  <2>1. ASSUME DialFatal(p) \/ MapRace(p) \/ WriteNil(p) PROVE RelaysInv'
    BY <1>2, <2>1 DEF DialFatal, MapRace, WriteNil, Crash
  <2> QED BY <1>1, <1>4, <2>1, CrcInv, LookupInv, DialsInv, WriteInv DEF Sender
<1>5. ASSUME NEW c \in Cleaner, CleanUp(c), UNCHANGED relayVars PROVE RelaysInv'
  BY <1>1, <1>5, CleanInv
<1>6. ASSUME UNCHANGED vars PROVE RelaysInv'
  BY <1>2, <1>6 DEF vars, relayVars
<1> QED BY <1>3, <1>4, <1>5, <1>6 DEF Next

LEMMA RelaysAlways == Spec => []RelaysInv
<1> QED BY RelaysInitInv, RelaysStepInv, PTL DEF Spec

(* The gateway and the relays of eth2ip.go write exactly the packet that   *)
(* they read, and what ip2ip and the TCP handler write never comes from an *)
(* earlier packet, for any packets, buffers and clean-up goroutines.       *)
THEOREM RelaysFaithful == Spec => []Faithful
<1>1. RelaysInv => Faithful
  BY DEF RelaysInv
<1> QED BY <1>1, RelaysAlways, PTL

(* The TCP handler uses the pool as it is meant: each buffer it has taken  *)
(* is its own, zeroed, until it releases it, once.                         *)
THEOREM RelaysLease == Spec => ImplementsLease
<1>1. RelaysInv /\ [Next]_vars => [BuffersNext]_buffersVars
  BY UsesBuffers
<1>2. Init => BuffersInit
  BY DEF Init
<1>3. Spec => BuffersSpec
  BY <1>1, <1>2, RelaysAlways, PTL DEF Spec, BuffersSpec
<1> QED BY <1>3, PoolImplementsLease

-----------------------------------------------------------------------------
(* main2: a packet that found a connection for its flow when it was read   *)
(* keeps finding one, because the map never loses an entry; a sender that  *)
(* is about to store a connection has dialled it.                          *)
LateOK(p) ==
  program = "main2" =>
    /\ sender[p].pc # "wait"
    /\ sender[p].pc = "store" => sender[p].conn = p
    /\ sender[p].late => /\ connMap[FlowOf[p]] # 0
                         /\ sender[p].pc \notin {"dial", "store"}

LateInv == \A p \in Packet : LateOK(p)

(* main1, main3 and main4: every UDP packet that the loop is done with has *)
(* been written or is in the hands of the sender, who has written all the  *)
(* packets before it.                                                      *)
Done(p) == p < reader.pkt \/ (p = reader.pkt /\ reader.pc = "read")

OrderInv ==
  program \in {"main1", "main3", "main4"} =>
    /\ InOrder
    /\ \A p \in Packet : IsUDP(p) /\ Done(p) => Written(p) \/ sender[p].pc # "off"
    /\ \A q \in Packet : sender[q].pc # "off" =>
         /\ program = "main1" /\ sender[q].pc = "write"
         /\ \A p \in Packet : p < q /\ IsUDP(p) => Written(p)

LEMMA ProgramStays ==
  ASSUME [Next]_vars
  PROVE  program' = program
BY DEF Next, Reader, vars, relayVars, ReadAndSpawn, ReadOne, Offer, WriteInline,
       TcpOffer, TcpNext, TcpRead, TcpReadError, TcpRelease, ReadFatal, Crash, Sender,
       AwaitContainer, Crc, Lookup, Dial, DialFatal, Store, MapRace, Write, WriteNil

(* One sender of main2 goes on, or starts, and the map loses no entry.     *)
LEMMA LateFrame ==
  ASSUME LateInv, RelaysTypeOK, program = "main2", program' = program,
         NEW p \in Packet, NEW r, sender' = [sender EXCEPT ![p] = r],
         \A f \in Flow : connMap[f] # 0 => connMap'[f] # 0,
         r.pc # "wait", r.pc = "store" => r.conn = p,
         r.late => connMap'[FlowOf[p]] # 0 /\ r.pc \notin {"dial", "store"}
  PROVE  LateInv'
<1> SUFFICES ASSUME NEW q \in Packet PROVE LateOK(q)'
  BY DEF LateInv
<1>1. sender'[q] = IF q = p THEN r ELSE sender[q]
  BY DEF RelaysTypeOK
<1>2. FlowOf[q] \in Flow /\ LateOK(q)
  BY DEF Flow, LateInv
<1> QED BY <1>1, <1>2 DEF LateOK

LEMMA LateSender ==
  ASSUME RelaysInv, LateInv, program = "main2", program' = program,
         NEW p \in Packet, Sender(p) \/ AwaitContainer(p)
  PROVE  LateInv'
<1> DEFINE s == sender[p]
<1>1. /\ RelaysTypeOK /\ SourceOK(p) /\ LateOK(p)
      /\ sender \in [Packet -> SenderType] /\ s \in SenderType
  BY DEF RelaysInv, RelaysTypeOK, LateInv
<1>2. FlowOf[p] \in Flow /\ p # 0
  BY DEF Flow, Packet
<1>3. CASE Crc(p)
  <2>1. PICK f : sender' = [sender EXCEPT ![p].code = f, ![p].pc = "lookup", ![p].conn = Nil]
    BY <1>3 DEF Crc
  <2> DEFINE r == [s EXCEPT !.code = f, !.pc = "lookup", !.conn = Nil]
  <2>2. sender' = [sender EXCEPT ![p] = r] /\ r.pc = "lookup" /\ r.late = s.late
    BY <1>1, <2>1 DEF SenderType
  <2>3. connMap' = connMap
    BY <1>3 DEF Crc
  <2> HIDE DEF r
  <2> QED BY <1>1, <2>2, <2>3, LateFrame DEF LateOK
<1>4. CASE Lookup(p)
  <2> DEFINE at == IF Known(s.code) THEN "write"
                   ELSE IF s.pc = "lookup" THEN "check" ELSE "dial"
             c == IF Known(s.code) THEN connMap[s.code] ELSE Nil
             r == [s EXCEPT !.pc = at, !.conn = c]
  <2>1. sender' = [sender EXCEPT ![p].pc = at, ![p].conn = c] /\ connMap' = connMap
    BY <1>4 DEF Lookup
  <2>2. s.code = FlowOf[p]
    BY <1>1, <1>4 DEF Lookup, SourceOK
  <2>3. at \notin {"wait", "store"} /\ (s.late => at = "write")
    BY <1>1, <2>2 DEF LateOK, Known
  <2> HIDE DEF at, c
  <2>4. sender' = [sender EXCEPT ![p] = r] /\ r.pc = at /\ r.late = s.late
    BY <1>1, <2>1 DEF SenderType
  <2> HIDE DEF r
  <2> QED BY <1>1, <2>1, <2>3, <2>4, LateFrame DEF LateOK
<1>5. CASE Dial(p)
  <2> DEFINE r == [s EXCEPT !.pc = "store", !.conn = p]
  <2>1. sender' = [sender EXCEPT ![p].pc = "store", ![p].conn = p] /\ connMap' = connMap
    BY <1>5 DEF Dial
  <2>2. /\ sender' = [sender EXCEPT ![p] = r]
        /\ r.pc = "store" /\ r.conn = p /\ r.late = s.late
    BY <1>1, <2>1 DEF SenderType
  <2>3. ~s.late
    BY <1>1, <1>5 DEF Dial, LateOK, SenderType
  <2> HIDE DEF r
  <2> QED BY <1>1, <2>1, <2>2, <2>3, LateFrame
<1>6. CASE Store(p)
  <2> DEFINE r == [s EXCEPT !.pc = "write"]
  <2>1. s.pc = "store" /\ s.conn = p /\ s.code = FlowOf[p]
    BY <1>1, <1>6 DEF Store, LateOK, SourceOK
  <2>2. connMap' = [connMap EXCEPT ![FlowOf[p]] = p]
    BY <1>6, <2>1 DEF Store
  <2>3. connMap'[FlowOf[p]] # 0 /\ \A f \in Flow : connMap[f] # 0 => connMap'[f] # 0
    BY <1>1, <1>2, <2>2 DEF RelaysTypeOK
  <2>4. sender' = [sender EXCEPT ![p] = r] /\ r.pc = "write"
    BY <1>1, <1>6 DEF Store, SenderTo, SenderType
  <2> HIDE DEF r
  <2> QED BY <1>1, <2>3, <2>4, LateFrame
<1>7. CASE Write(p)
  <2>1. sender' = [sender EXCEPT ![p] = NoSender] /\ connMap' = connMap
    BY <1>7 DEF Write
  <2>2. NoSender.pc = "off" /\ ~NoSender.late
    BY DEF NoSender
  <2> QED BY <1>1, <2>1, <2>2, LateFrame
<1>8. CASE DialFatal(p) \/ MapRace(p) \/ WriteNil(p)
  <2>1. sender' = sender /\ connMap' = connMap
    BY <1>8 DEF DialFatal, MapRace, WriteNil, Crash
  <2> QED BY <2>1 DEF LateInv, LateOK
<1>9. ~AwaitContainer(p)
  BY <1>1 DEF AwaitContainer, LateOK
<1> QED BY <1>3, <1>4, <1>5, <1>6, <1>7, <1>8, <1>9 DEF Sender

LEMMA LateStepInv ==
  ASSUME RelaysInv, LateInv, [Next]_vars
  PROVE  LateInv'
<1>1. program' = program /\ RelaysTypeOK /\ sender \in [Packet -> SenderType]
  BY ProgramStays DEF RelaysInv, RelaysTypeOK
<1>2. CASE program # "main2"
  BY <1>1, <1>2 DEF LateInv, LateOK
<1>3. CASE program = "main2"
  <2>1. ASSUME UNCHANGED <<sender, connMap>> PROVE LateInv'
    BY <1>1, <2>1 DEF LateInv, LateOK
  <2>2. ASSUME NEW p \in Packet, ReadAndSpawn(p), ~Dropped(p) PROVE LateInv'
    <3> DEFINE r == [pc |-> "crc", from |-> From(p), code |-> ZeroFlow, conn |-> Nil,
                     late |-> connMap[FlowOf[p]] # 0]
    <3>1. sender' = [sender EXCEPT ![p] = r] /\ connMap' = connMap
      BY <2>2 DEF ReadAndSpawn, Spawn
    <3>2. r.pc = "crc" /\ (r.late => connMap[FlowOf[p]] # 0)
      OBVIOUS
    <3> HIDE DEF r
    <3> QED BY <1>1, <1>3, <3>1, <3>2, LateFrame
  <2>3. ASSUME Reader PROVE LateInv'
    <3>1. ASSUME NEW p \in Packet, ReadAndSpawn(p) PROVE LateInv'
      BY <2>1, <2>2, <3>1 DEF ReadAndSpawn
    <3>2. ASSUME NEW p \in Packet, WriteInline(p) PROVE LateInv'
      BY <2>1, <3>2 DEF WriteInline
    <3> QED BY <1>3, <2>1, <2>3, <3>1, <3>2
            DEF Reader, ReadOne, Offer, TcpRead, TcpOffer, TcpNext, TcpReadError,
                TcpRelease, ReadFatal, Crash
  <2> QED BY <1>1, <1>3, <2>1, <2>3, LateSender DEF Next, vars, relayVars
<1> QED BY <1>2, <1>3

(* main2 dials one connection for a flow, apart from packets that were     *)
(* read before the flow had one, for any number of packets.                *)
THEOREM RelaysNoSecondDial == Spec => []NoSecondDial
<1>1. Init => LateInv
  BY DEF Init, LateInv, LateOK, NoSender
<1>2. RelaysInv /\ LateInv /\ [Next]_vars => LateInv'
  BY LateStepInv
<1>3. LateInv => NoSecondDial
  BY DEF LateInv, LateOK, NoSecondDial
<1> QED BY <1>1, <1>2, <1>3, RelaysAlways, PTL DEF Spec

-----------------------------------------------------------------------------
(* What has been written stays so, and a further packet comes last.        *)
LEMMA AppendWritten ==
  ASSUME out \in Seq(Packet), NEW p \in Packet, out' = Append(out, p)
  PROVE  /\ Written(p)' /\ \A q \in Packet : Written(q) => Written(q)'
         /\ Len(out) \in Nat /\ Len(out') = Len(out) + 1
         /\ out'[Len(out) + 1] = p /\ \A k \in 1..Len(out) : out'[k] = out[k]
<1>1. /\ Len(out) \in Nat /\ Len(out') = Len(out) + 1
      /\ out'[Len(out) + 1] = p /\ \A k \in 1..Len(out) : out'[k] = out[k]
  BY AppendFacts
<1>2. /\ Len(out) + 1 \in 1..(Len(out) + 1)
      /\ \A k \in 1..Len(out) : k \in 1..(Len(out) + 1)
  BY <1>1
<1> QED BY <1>1, <1>2 DEF Written

(* A packet may be written when all UDP packets before it have been.       *)
LEMMA AppendInOrder ==
  ASSUME out \in Seq(Packet), NEW p \in Packet, out' = Append(out, p),
         program \in {"main1", "main3", "main4"}, InOrder, program' = program,
         \A q \in Packet : q < p /\ IsUDP(q) => Written(q)
  PROVE  InOrder'
<1> SUFFICES ASSUME NEW k \in 1..Len(out'), NEW q \in Packet, q < out'[k], IsUDP(q)
             PROVE  \E j \in 1..(k - 1) : out'[j] = q
  BY DEF InOrder
<1>1. /\ Len(out) \in Nat /\ Len(out') = Len(out) + 1
      /\ out'[Len(out) + 1] = p /\ \A i \in 1..Len(out) : out'[i] = out[i]
  BY AppendWritten
<1>2. CASE k = Len(out) + 1
  <2>1. PICK j \in 1..Len(out) : out[j] = q
    BY <1>1, <1>2 DEF Written
  <2>2. j \in 1..(k - 1)
    BY <1>1, <1>2, <2>1
  <2> QED BY <1>1, <2>1, <2>2
<1>3. CASE k \in 1..Len(out)
  <2>1. PICK j \in 1..(k - 1) : out[j] = q
    BY <1>1, <1>3 DEF InOrder
  <2>2. j \in 1..Len(out)
    BY <1>1, <1>3, <2>1
  <2> QED BY <1>1, <2>1, <2>2
<1> QED BY <1>1, <1>2, <1>3

LEMMA OrderReader ==
  ASSUME RelaysInv, OrderInv, program \in {"main1", "main3", "main4"},
         program' = program, NEW p \in Packet,
         ReadOne(p) \/ Offer(p) \/ WriteInline(p)
  PROVE  OrderInv'
<1>1. /\ RelaysTypeOK /\ reader.pkt \in Nat /\ p \in Nat /\ Packet \subseteq Nat
      /\ sender \in [Packet -> SenderType] /\ out \in Seq(Packet)
      /\ reader \in [pc : ReaderAt, pkt : 0..Packets, buf : Nat]
  BY RelaysAssumption DEF RelaysInv, RelaysTypeOK, Packet
<1>2. CASE ReadOne(p)
  <2>1. /\ UNCHANGED <<sender, out>> /\ reader.pc = "read" /\ reader'.pkt = reader.pkt + 1
        /\ p = reader.pkt + 1 /\ (reader'.pc = "read" => ~IsUDP(p))
    BY <1>1, <1>2 DEF ReadOne, Arrives, Dropped
  <2>2. \A q \in Packet : IsUDP(q) /\ Done(q)' => Done(q)
    BY <1>1, <2>1 DEF Done
  <2>3. InOrder' /\ \A q \in Packet : Written(q)' <=> Written(q)
    BY <2>1 DEF OrderInv, InOrder, Written
  <2> QED BY <2>1, <2>2, <2>3 DEF OrderInv
<1>3. CASE Offer(p)
  <2>1. /\ UNCHANGED out /\ reader.pc = "offer" /\ p = reader.pkt /\ LineFree
        /\ reader'.pkt = p /\ reader'.pc = "read" /\ program = "main1"
    BY <1>1, <1>3 DEF Offer
  <2>2. sender'[p].pc = "write" /\ \A q \in Packet : q # p => sender'[q] = sender[q]
    BY <1>1, <1>3 DEF Offer, SenderType
  <2>3. \A q \in Packet : Done(q)' => Done(q) \/ q = p
    BY <1>1, <2>1 DEF Done
  <2>4. InOrder' /\ \A q \in Packet : Written(q)' <=> Written(q)
    BY <2>1 DEF OrderInv, InOrder, Written
  <2>5. \A q \in Packet : q < p /\ IsUDP(q) => Written(q)
    BY <2>1 DEF OrderInv, Done, LineFree
  <2>6. \A q \in Packet : sender'[q].pc # "off" => q = p
    BY <2>1, <2>2 DEF LineFree
  <2> QED BY <2>1, <2>2, <2>3, <2>4, <2>5, <2>6 DEF OrderInv
<1>4. CASE WriteInline(p)
  <2>1. /\ UNCHANGED sender /\ reader.pc = "inline" /\ p = reader.pkt
        /\ reader'.pkt = p /\ reader'.pc = "read" /\ out' = Append(out, p)
        /\ program \in {"main3", "main4"}
    BY <1>1, <1>4 DEF WriteInline, RelaysInv, ReaderOK
  <2>2. \A q \in Packet : sender[q].pc = "off"
    BY <2>1 DEF OrderInv
  <2>3. \A q \in Packet : Done(q)' => Done(q) \/ q = p
    BY <1>1, <2>1 DEF Done
  <2>4. \A q \in Packet : q < p /\ IsUDP(q) => Written(q)
    BY <2>1, <2>2 DEF OrderInv, Done
  <2>5. InOrder'
    BY <1>1, <2>1, <2>4, AppendInOrder DEF OrderInv
  <2>6. Written(p)' /\ \A q \in Packet : Written(q) => Written(q)'
    BY <1>1, <2>1, AppendWritten
  <2> QED BY <2>1, <2>2, <2>3, <2>5, <2>6 DEF OrderInv
<1> QED BY <1>2, <1>3, <1>4

LEMMA OrderSender ==
  ASSUME RelaysInv, OrderInv, program \in {"main1", "main3", "main4"},
         program' = program, NEW p \in Packet, Write(p)
  PROVE  OrderInv'
<1>1. /\ sender[p].pc = "write" /\ out' = Append(out, p) /\ reader' = reader
      /\ out \in Seq(Packet) /\ sender \in [Packet -> SenderType]
      /\ sender' = [sender EXCEPT ![p] = NoSender]
  BY DEF Write, RelaysInv, RelaysTypeOK
<1>2. sender'[p].pc = "off" /\ \A q \in Packet : q # p => sender'[q] = sender[q]
  BY <1>1, NoSenderType
<1>3. \A q \in Packet : q < p /\ IsUDP(q) => Written(q)
  BY <1>1 DEF OrderInv
<1>4. InOrder'
  BY <1>1, <1>3, AppendInOrder DEF OrderInv
<1>5. Written(p)' /\ \A q \in Packet : Written(q) => Written(q)'
  BY <1>1, AppendWritten
<1>6. \A q \in Packet : Done(q)' <=> Done(q)
  BY <1>1 DEF Done
<1> QED BY <1>2, <1>4, <1>5, <1>6 DEF OrderInv

LEMMA OrderStepInv ==
  ASSUME RelaysInv, OrderInv, [Next]_vars
  PROVE  OrderInv'
<1>1. program' = program
  BY ProgramStays
<1>2. CASE program \notin {"main1", "main3", "main4"}
  BY <1>1, <1>2 DEF OrderInv
<1>3. CASE program \in {"main1", "main3", "main4"}
  <2>1. ASSUME UNCHANGED <<reader, sender, out>> PROVE OrderInv'
    BY <1>1, <2>1 DEF OrderInv, InOrder, Written, Done
  <2>2. ASSUME Reader PROVE OrderInv'
    BY <1>1, <1>3, <2>1, <2>2, OrderReader
    DEF Reader, ReadAndSpawn, TcpRead, TcpOffer, TcpNext, TcpReadError, TcpRelease,
        ReadFatal, Crash
  <2>3. ASSUME NEW p \in Packet, Sender(p) \/ AwaitContainer(p) PROVE OrderInv'
    <3>1. sender[p].pc # "off" => sender[p].pc = "write"
      BY <1>3 DEF OrderInv
    <3>2. Write(p) \/ WriteNil(p)
      BY <2>3, <3>1
      DEF Sender, AwaitContainer, Crc, Lookup, Dial, DialFatal, Store, MapRace
    <3> QED BY <1>1, <1>3, <2>1, <3>2, OrderSender DEF WriteNil, Crash
  <2> QED BY <2>1, <2>2, <2>3 DEF Next, vars, relayVars
<1> QED BY <1>2, <1>3

(* main1, main3 and main4 write the UDP packets in the order in which they *)
(* read them and leave none out, for any number of packets.                *)
THEOREM RelaysInOrder == Spec => []InOrder
<1>1. Init => OrderInv
  <2> SUFFICES ASSUME Init PROVE OrderInv
    OBVIOUS
  <2>1. /\ out = <<>> /\ reader.pkt = 0 /\ \A q \in Packet : sender[q].pc = "off"
    BY NoSenderType DEF Init
  <2>2. InOrder
    BY <2>1 DEF InOrder
  <2>3. \A q \in Packet : ~Done(q)
    BY <2>1, RelaysAssumption DEF Done, Packet
  <2> QED BY <2>1, <2>2, <2>3 DEF OrderInv
<1>2. RelaysInv /\ OrderInv /\ [Next]_vars => OrderInv'
  BY OrderStepInv
<1>3. OrderInv => InOrder
  BY DEF OrderInv, InOrder
<1> QED BY <1>1, <1>2, <1>3, RelaysAlways, PTL DEF Spec
=============================================================================
