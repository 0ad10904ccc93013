---------------------------- MODULE BufferLease -----------------------------
(***************************************************************************)
(* What a pool of buffers promises to its users: a buffer has one holder   *)
(* at a time, is zeroed when it is taken, and changes while it is held     *)
(* only when the holder fills it.                                          *)
(***************************************************************************)
EXTENDS Naturals

CONSTANT Buffer

VARIABLES
  held,  \* how many users hold each buffer
  buff   \* what each buffer holds, 0 for zeros

LeaseInit == held = [b \in Buffer |-> 0] /\ buff = [b \in Buffer |-> 0]

Take(b) ==
  /\ held[b] = 0 /\ buff[b] = 0
  /\ held' = [held EXCEPT ![b] = 1]
  /\ UNCHANGED buff

Use(b) ==
  /\ held[b] = 1
  /\ buff' = [buff EXCEPT ![b] = buff'[b]] /\ buff'[b] # 0
  /\ UNCHANGED held

Give(b) ==
  /\ held[b] = 1
  /\ held' = [held EXCEPT ![b] = 0]
  /\ UNCHANGED buff

Clear(b) ==
  /\ held[b] = 0
  /\ buff' = [buff EXCEPT ![b] = 0]
  /\ UNCHANGED held

LeaseNext == \E b \in Buffer : Take(b) \/ Use(b) \/ Give(b) \/ Clear(b)

LeaseSpec == LeaseInit /\ [][LeaseNext]_<<held, buff>>

=============================================================================
