---------------------------- MODULE BuffersPool -----------------------------
(***************************************************************************)
(* BuffersPool of utils/bytes_utils.go: a fixed set of byte buffers.  Next *)
(* takes one from the channel pool; Release puts it into cleanChan, from   *)
(* where the clean-up goroutines zero it and bring it back.                *)
(***************************************************************************)
EXTENDS Integers, Sequences

CONSTANTS
  PoolSize,   \* the number of buffers, and the capacity of both channels
  PerCleaner  \* one clean-up goroutine for so many buffers, 10

ASSUME BuffersAssumption ==
  PoolSize \in 0..255 /\ PerCleaner \in Nat \ {0}

VARIABLES
  pool,       \* bp.pool
  cleanChan,  \* bp.cleanChan
  cleaner,    \* the clean-up goroutines: [pc, buf]
  held,       \* how many users have each buffer, between Next and Release
  buff        \* what each buffer holds: 0 for zeros, else a packet's number

buffersVars == <<pool, cleanChan, cleaner, held, buff>>

Buffer == 0..(PoolSize - 1)

Cleaner == 1..(PoolSize \div PerCleaner)

(* NewBuffersPool *)
BuffersInit ==
  /\ pool = [k \in 1..PoolSize |-> k - 1]
  /\ cleanChan = <<>>
  /\ cleaner = [c \in Cleaner |-> [pc |-> "receive", buf |-> 0]]
  /\ held = [b \in Buffer |-> 0]
  /\ buff = [b \in Buffer |-> 0]

(* Mutants: the buffer stays in the channel; it is not zeroed; a channel   *)
(* is made too small.                                                      *)
TakenNone == pool
WipedNone(b) == buff
RoomForHalf == 2 * (Len(cleanChan) + 1) < PoolSize
RoomForFewer == Len(pool) < PoolSize - 1

(* Next; it blocks while the channel is empty.                             *)
Taken == Tail(pool)

NextBuffer(b) ==
  /\ pool # <<>> /\ b = Head(pool)
  /\ pool' = Taken
  /\ held' = [held EXCEPT ![b] = @ + 1]
  /\ UNCHANGED <<cleanChan, cleaner, buff>>

(* The holder writes the buffer.                                           *)
Fill(b, d) ==
  /\ held[b] > 0
  /\ buff' = [buff EXCEPT ![b] = d]
  /\ UNCHANGED <<pool, cleanChan, cleaner, held>>

(* Release; it blocks while the channel is full.                           *)
RoomToRelease == Len(cleanChan) < PoolSize

Release(b) ==
  /\ held[b] > 0
  /\ RoomToRelease
  /\ cleanChan' = Append(cleanChan, b)
  /\ held' = [held EXCEPT ![b] = @ - 1]
  /\ UNCHANGED <<pool, cleaner, buff>>

(* cleanUpRoutine: receive a buffer, zero it, send it.                     *)
Receive(c) ==
  /\ cleaner[c].pc = "receive" /\ cleanChan # <<>>
  /\ cleaner' = [cleaner EXCEPT ![c] = [pc |-> "wipe", buf |-> Head(cleanChan)]]
  /\ cleanChan' = Tail(cleanChan)
  /\ UNCHANGED <<pool, held, buff>>

Wiped(b) == [buff EXCEPT ![b] = 0]

Wipe(c) ==
  /\ cleaner[c].pc = "wipe"
  /\ buff' = Wiped(cleaner[c].buf)
  /\ cleaner' = [cleaner EXCEPT ![c].pc = "send"]
  /\ UNCHANGED <<pool, cleanChan, held>>

RoomToReturn == Len(pool) < PoolSize

Return(c) ==
  /\ cleaner[c].pc = "send" /\ RoomToReturn
  /\ pool' = Append(pool, cleaner[c].buf)
  /\ cleaner' = [cleaner EXCEPT ![c].pc = "receive"]
  /\ UNCHANGED <<cleanChan, held, buff>>

CleanUp(c) == Receive(c) \/ Wipe(c) \/ Return(c)

BuffersNext ==
  \/ \E b \in Buffer : NextBuffer(b) \/ Release(b) \/ \E d \in Nat \ {0} : Fill(b, d)
  \/ \E c \in Cleaner : CleanUp(c)

BuffersSpec == BuffersInit /\ [][BuffersNext]_buffersVars

-----------------------------------------------------------------------------
InPool(b) == \E k \in 1..Len(pool) : pool[k] = b

InClean(b) == \E k \in 1..Len(cleanChan) : cleanChan[k] = b

InHand(b) == \E c \in Cleaner : cleaner[c].pc # "receive" /\ cleaner[c].buf = b

(* Type invariant of the pool of buffers.                                  *)
BuffersTypeOK ==
  /\ pool \in Seq(Buffer) /\ cleanChan \in Seq(Buffer)
  /\ cleaner \in [Cleaner -> [pc : {"receive", "wipe", "send"}, buf : Nat]]
  /\ held \in [Buffer -> Nat]
  /\ buff \in [Buffer -> Nat]

(* No buffer is in two places: not twice in a channel, nor in the hands of *)
(* two goroutines, nor in a channel and in somebody's hand.                *)
Conserved ==
  /\ \A j, k \in 1..Len(pool) : pool[j] = pool[k] => j = k
  /\ \A j, k \in 1..Len(cleanChan) : cleanChan[j] = cleanChan[k] => j = k
  /\ \A c, d \in Cleaner :
       /\ cleaner[c].pc # "receive" /\ cleaner[d].pc # "receive"
       /\ cleaner[c].buf = cleaner[d].buf
       => c = d
  /\ \A b \in Buffer :
       /\ ~(InPool(b) /\ InClean(b)) /\ ~(InPool(b) /\ InHand(b))
       /\ ~(InClean(b) /\ InHand(b))
       /\ held[b] <= 1
       /\ held[b] > 0 => ~InPool(b) /\ ~InClean(b) /\ ~InHand(b)

(* Every buffer that Next may return is zeroed: what is left of an earlier *)
(* packet never follows a shorter one that is read into the same buffer.   *)
ZeroedInPool == \A k \in 1..Len(pool) : buff[pool[k]] = 0

(* Release never blocks its caller, whatever the clean-up goroutines do.   *)
ReleaseNeverBlocks == (\E b \in Buffer : held[b] > 0) => RoomToRelease

(* The pool gives every buffer to one holder at a time, zeroed, and leaves *)
(* it alone until it is released.                                          *)
Lease == INSTANCE BufferLease

ImplementsLease == Lease!LeaseSpec

=============================================================================
