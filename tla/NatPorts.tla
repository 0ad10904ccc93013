------------------------------ MODULE NatPorts ------------------------------
(***************************************************************************)
(* CntPortMapping of nat/context.go as openwhisk.CreateFunction uses it:   *)
(* every function of the NAT action is given two blocks of ports, which    *)
(* two goroutines (setHelper) take from one bit set.                       *)
(*                                                                         *)
(* AssignPorts holds cp.mu until both helpers have sent their block, so    *)
(* calls exclude each other.  The two helpers of a call do not: neither    *)
(* locks the bit set, and a bit is set by loading and storing a whole word.*)
(* A helper that finds no clear bit sends its block and goes on; nobody    *)
(* receives what it sends then, and it may outlive its call.               *)
(***************************************************************************)
EXTENDS Integers, Sequences

CONSTANTS
  Calls,  \* how often CreateFunction is called; each has a key of its own
  Ports,  \* the values of a uint16, 65536
  Chunk,  \* the ports of a block, 100
  Lower,  \* where the lower block is looked for, 1
  Upper,  \* where the upper block is looked for, 1025
  Word    \* the bits of a word of the bit set, 64

ASSUME NatAssumption ==
  /\ Calls \in Nat /\ Chunk \in Nat \ {0} /\ Word \in Nat \ {0}
  /\ Lower \in Nat /\ Upper \in Nat /\ Ports \in Nat
  /\ 0 < Lower /\ Lower < Upper /\ Upper < Ports

VARIABLES
  bSet,    \* the bits that are set
  length,  \* the length of the bit set, which Set may extend
  mu,      \* the call that holds cp.mu, or 0
  am,      \* cp.am; <<>> for no entry
  call,    \* where each call of CreateFunction is
  helper,  \* the two helpers of each call
  crowded  \* history variable: a block did not fit in its own region

natVars == <<bSet, length, mu, am, call, helper, crowded>>

-----------------------------------------------------------------------------
(* The calls of AssignPorts, numbered in the order in which they get cp.mu.*)
Fun == 1..Calls

Helper == Fun \X {"lower", "upper"}

(* Mutants: the upper helper starts where the lower one does; a helper     *)
(* returns when no port is left.                                           *)
OneOffset(h) == Lower
ReturnWhenFull(h) == "off"

Offset(h) == IF h[2] = "lower" THEN Lower ELSE Upper

Zeros == [k \in 1..Chunk |-> 0]

NoHelper == [pc |-> "off", idx |-> 0, limit |-> 0, n |-> 0, acc |-> Zeros,
             word |-> {}, avail |-> TRUE, sent |-> FALSE]

NatInit ==
  /\ bSet = {} /\ length = Ports
  /\ mu = 0
  /\ am = [f \in Fun |-> <<>>]
  /\ call = [f \in Fun |-> "idle"]
  /\ helper = [h \in Helper |-> NoHelper]
  /\ crowded = FALSE

Goto(f, l) == call' = [call EXCEPT ![f] = l]

(* AssignPorts: take cp.mu, start both helpers.                            *)
Assign(f) ==
  /\ call[f] = "idle" /\ mu = 0
  /\ \A g \in 1..(f - 1) : call[g] # "idle"
  /\ mu' = f
  /\ Goto(f, "lower")
  /\ helper' = [h \in Helper |-> IF h[1] = f
                                   THEN [NoHelper EXCEPT !.pc = "scan"]
                                   ELSE helper[h]]
  /\ UNCHANGED <<bSet, length, am, crowded>>

-----------------------------------------------------------------------------
(* The clear bits from the helper's offset on.                             *)
Clear(h) == (Offset(h)..(length - 1)) \ bSet

(* The block that starts at idx stays in the words of the helper's region. *)
Fits(h, idx) ==
  IF h[2] = "lower" THEN (idx + Chunk - 1) \div Word < Upper \div Word
                    ELSE idx + Chunk <= Ports

WhenFull(h) == "send"

(* setHelper: NextClear.  Without a clear bit the block is sent as it is,  *)
(* and the loop starts at bit 0.                                           *)
Scan(h) ==
  /\ helper[h].pc = "scan"
  /\ \/ /\ Clear(h) = {}
        /\ helper' = [helper EXCEPT ![h].pc = WhenFull(h), ![h].limit = Chunk,
                                    ![h].avail = FALSE]
        /\ crowded' = TRUE
     \/ \E i \in Clear(h) :
          /\ \A j \in Clear(h) : i <= j
          /\ helper' = [helper EXCEPT ![h].pc = "test", ![h].idx = i,
                                      ![h].limit = i + Chunk]
          /\ crowded' = (crowded \/ ~Fits(h, i))
  /\ UNCHANGED <<bSet, length, mu, am, call>>

(* setHelper: the loop ends, or Test finds the bit set or clear.           *)
Test(h) ==
  LET i == helper[h].idx IN
  /\ helper[h].pc = "test"
  /\ helper' = IF i = helper[h].limit THEN [helper EXCEPT ![h].pc = "send"]
               ELSE IF i \in bSet     THEN [helper EXCEPT ![h].idx = i + 1]
               ELSE                        [helper EXCEPT ![h].pc = "load"]
  /\ UNCHANGED <<bSet, length, mu, am, call, crowded>>

(* The bits that Set copies: those of the word, or all of them when it has *)
(* to extend the bit set.                                                  *)
Copied(i) == IF i < length THEN {b \in 0..i + Word : b \div Word = i \div Word}
                           ELSE 0..i

Load(h) ==
  /\ helper[h].pc = "load"
  /\ helper' = [helper EXCEPT ![h].pc = "store",
                              ![h].word = bSet \cap Copied(helper[h].idx)]
  /\ UNCHANGED <<bSet, length, mu, am, call, crowded>>

Stored(h) ==
  LET i == helper[h].idx IN (bSet \ Copied(i)) \cup helper[h].word \cup {i}

(* The word is stored, and the port noted as a uint16.                     *)
Store(h) ==
  LET i == helper[h].idx
      n == helper[h].n + 1 IN
  /\ helper[h].pc = "store"
  /\ bSet' = Stored(h)
  /\ length' = IF i < length THEN length ELSE i + 1
  /\ helper' = [helper EXCEPT ![h].pc = "test", ![h].idx = i + 1, ![h].n = n,
                              ![h].acc = [@ EXCEPT ![n] = i % Ports],
                              ![h].word = {}]
  /\ UNCHANGED <<mu, am, call, crowded>>

HelperStep(h) == Scan(h) \/ Test(h) \/ Load(h) \/ Store(h)

-----------------------------------------------------------------------------
(* AssignPorts receives the lower block, then the upper one.  The block is *)
(* the helper's own slice: one that found no clear bit goes on writing it. *)
CanSend(f, s) == helper[<<f, s>>].pc = "send" /\ ~helper[<<f, s>>].sent

Receive(f, s) ==
  LET h == <<f, s>> IN
  /\ call[f] = s /\ CanSend(f, s)
  /\ Goto(f, IF s = "lower" THEN "upper" ELSE "append")
  /\ helper' = [helper EXCEPT ![h].sent = TRUE,
                              ![h].pc = IF helper[h].avail THEN "off" ELSE "test"]
  /\ UNCHANGED <<bSet, length, mu, am, crowded>>

(* AssignPorts: the two blocks become the entry of the function.           *)
Enter(f) ==
  /\ call[f] = "append"
  /\ am' = [am EXCEPT ![f] =
              helper[<<f, "lower">>].acc \o helper[<<f, "upper">>].acc]
  /\ mu' = 0
  /\ Goto(f, "post")
  /\ UNCHANGED <<bSet, length, helper, crowded>>

(* CreateFunction: the request succeeds or fails; the ports stay assigned. *)
(* What ends in Fatalf ends the gateway, and the tables with it.           *)
Post(f) ==
  /\ call[f] = "post"
  /\ \E l \in {"made", "failed"} : Goto(f, l)
  /\ UNCHANGED <<bSet, length, mu, am, helper, crowded>>

CallStep(f) ==
  Assign(f) \/ Receive(f, "lower") \/ Receive(f, "upper") \/ Enter(f) \/ Post(f)

NatNext == (\E f \in Fun : CallStep(f)) \/ (\E h \in Helper : HelperStep(h))

=============================================================================
