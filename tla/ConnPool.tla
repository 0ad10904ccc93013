------------------------------ MODULE ConnPool ------------------------------
(***************************************************************************)
(* ConnPool of utils/rulemap.go: the circular doubly linked list of the    *)
(* containers that accept packets, and the cursor that Next moves round it.*)
(*                                                                         *)
(* Every operation is one critical section of cp.mu, except Delete, which  *)
(* has two: it unlinks the element, releases the lock, takes it again,     *)
(* closes stopChan and clears the element's own pointers.  Another         *)
(* goroutine may run between the two, so each section is an action.        *)
(***************************************************************************)
EXTENDS Integers, Sequences

CONSTANTS
  Elem,      \* the ConnPoolElems that may ever be added, one per registration
  Deletion,  \* the calls of Delete: pairs <<element, calling goroutine>>
  Nil        \* the nil pointer

ASSUME NilAssumption == Nil \notin Elem

ASSUME DeletionAssumption == \A x \in Deletion : x[1] \in Elem

VARIABLES
  elems,  \* the elements added so far
  head,   \* cp.headElem
  tail,   \* cp.tailElem
  curr,   \* cp.currElem
  next,   \* ce.next of every element
  prev,   \* ce.prev of every element
  del,    \* how far each call of Delete has come
  panic,  \* the run-time panic that ended the process, or "none"
  order   \* history variable: the linked elements from head to tail

links == <<head, tail, curr, next, prev, order>>
poolVars == <<elems, links, del, panic>>

-----------------------------------------------------------------------------
(* The state of a call of Delete.  "skipped" is the early return for an    *)
(* element deleted before; whatever follows "closed" counts as closed.     *)
Unlinked(x) == del[x] \notin {"idle", "skipped"}

Closed(x) == del[x] \notin {"idle", "skipped", "unlinked"}

(* ce.stopChan is closed.                                                  *)
Stopped(e) == \E x \in Deletion : x[1] = e /\ Closed(x)

(* The elements that are in the list.                                      *)
Linked == {e \in elems : \A x \in Deletion : x[1] = e => ~Unlinked(x)}

(* Two calls of Delete have both unlinked one element.                     *)
DoubleUnlink ==
  \E x, y \in Deletion : x # y /\ x[1] = y[1] /\ Unlinked(x) /\ Unlinked(y)

-----------------------------------------------------------------------------
(* The sequence s without its element e.                                   *)
Without(s, e) ==
  LET k == CHOOSE i \in 1..Len(s) : s[i] = e
  IN  IF \E i \in 1..Len(s) : s[i] = e
        THEN SubSeq(s, 1, k - 1) \o SubSeq(s, k + 1, Len(s))
        ELSE s

PoolInit ==
  /\ elems = {}
  /\ head = Nil /\ tail = Nil /\ curr = Nil
  /\ next = [e \in Elem |-> Nil]
  /\ prev = [e \in Elem |-> Nil]
  /\ del = [x \in Deletion |-> "idle"]
  /\ panic = "none"
  /\ order = <<>>

Crash(cause) == panic' = cause

(* Mutants: Add leaves the cursor alone, or does not link the old tail to  *)
(* the new element; Delete accepts an element never added, moves the cursor*)
(* backward, or the tail forward (as the code commented out in Delete).    *)
FirstCursorKept(e) == curr
LinkLastHalf(e) == [next EXCEPT ![e] = head]
MayDeleteAny(x) == del[x] = "idle"
CursorOffBack(e) == IF curr = e THEN prev[e] ELSE curr
TailOffForward(e) == IF tail = e THEN next[e] ELSE tail

(* Add on an empty list: the element becomes head, tail and cursor.        *)
FirstCursor(e) == e

AddFirst(e) ==
  /\ head = Nil
  /\ head' = e /\ tail' = e /\ curr' = FirstCursor(e)
  /\ next' = [next EXCEPT ![e] = e]
  /\ prev' = [prev EXCEPT ![e] = e]

(* Add on a list that has elements: between the tail and the head.         *)
LinkLast(e) == [next EXCEPT ![tail] = e, ![e] = head]

AddLast(e) ==
  /\ head # Nil
  /\ next' = LinkLast(e)
  /\ prev' = [prev EXCEPT ![e] = tail, ![head] = e]
  /\ tail' = e
  /\ UNCHANGED <<head, curr>>

Add(e) ==
  /\ e \notin elems
  /\ elems' = elems \cup {e}
  /\ AddFirst(e) \/ AddLast(e)
  /\ order' = Append(order, e)
  /\ UNCHANGED <<del, panic>>

(* Next returns the cursor's element r and moves the cursor to r.next.     *)
NextElem(r) ==
  /\ r = curr
  /\ curr' = next[r]
  /\ UNCHANGED <<head, tail, next, prev, order>>

(* Next with a nil cursor: res.next is a nil dereference.                  *)
NextNil ==
  /\ curr = Nil
  /\ Crash("nil cursor")
  /\ UNCHANGED links

(* Delete is called, once by each caller, on an element that Add returned. *)
MayDelete(x) == del[x] = "idle" /\ x[1] \in elems

(* Delete, first critical section, ce.next == ce: the list becomes empty.  *)
(* The cursor keeps pointing to the element.                               *)
UnlinkSole(x) ==
  /\ next[x[1]] = x[1]
  /\ head' = Nil /\ tail' = Nil
  /\ UNCHANGED <<curr, next, prev>>

(* Delete, first critical section: bridge the neighbours, and move cursor, *)
(* head and tail off the element.                                          *)
CursorOff(e) == IF curr = e THEN next[e] ELSE curr
HeadOff(e) == IF head = e THEN next[e] ELSE head
TailOff(e) == IF tail = e THEN prev[e] ELSE tail

UnlinkInner(x) ==
  LET e == x[1] IN
  /\ next[e] \notin {e, Nil} /\ prev[e] # Nil
  /\ next' = [next EXCEPT ![prev[e]] = next[e]]
  /\ prev' = [prev EXCEPT ![next[e]] = prev[e]]
  /\ curr' = CursorOff(e) /\ head' = HeadOff(e) /\ tail' = TailOff(e)

Unlink(x) ==
  /\ MayDelete(x)
  /\ UnlinkSole(x) \/ UnlinkInner(x)
  /\ del' = [del EXCEPT ![x] = "unlinked"]
  /\ order' = Without(order, x[1])
  /\ UNCHANGED <<elems, panic>>

(* Delete, first critical section, for an element without pointers.        *)
AlreadyDeleted(x) ==
  LET e == x[1] IN
  /\ MayDelete(x)
  /\ next[e] # e /\ (prev[e] = Nil \/ next[e] = Nil)
  /\ del' = [del EXCEPT ![x] = "skipped"]
  /\ UNCHANGED <<elems, links, panic>>

(* Delete, second critical section: close stopChan, clear the pointers.    *)
CloseStop(x) ==
  LET e == x[1] IN
  /\ del[x] = "unlinked"
  /\ ~Stopped(e)
  /\ del' = [del EXCEPT ![x] = "closed"]
  /\ next' = [next EXCEPT ![e] = Nil]
  /\ prev' = [prev EXCEPT ![e] = Nil]
  /\ UNCHANGED <<elems, head, tail, curr, order, panic>>

(* close of a channel that is closed already.                              *)
CloseAgain(x) ==
  /\ del[x] = "unlinked"
  /\ Stopped(x[1])
  /\ Crash("close of closed channel")
  /\ UNCHANGED <<elems, links, del>>

(* A call of Next that returns an element.                                 *)
PoolServe ==
  /\ panic = "none"
  /\ \E r \in Elem : NextElem(r)
  /\ UNCHANGED <<elems, del, panic>>

(* What the callers may do: the packet handlers call Next, registrations   *)
(* call Add, lease timers and the scale-down call Delete, in any order.    *)
PoolStep ==
  /\ panic = "none"
  /\ \/ \E e \in Elem : Add(e)
     \/ PoolServe
     \/ NextNil /\ UNCHANGED <<elems, del>>
     \/ \E x \in Deletion :
          Unlink(x) \/ AlreadyDeleted(x) \/ CloseStop(x) \/ CloseAgain(x)

PoolSpec == PoolInit /\ [][PoolStep]_poolVars

-----------------------------------------------------------------------------
Pointer == Elem \cup {Nil}

(* Type invariant of the list, the cursor and the calls of Delete.         *)
PoolTypeOK ==
  /\ elems \in SUBSET Elem
  /\ head \in Pointer /\ tail \in Pointer /\ curr \in Pointer
  /\ next \in [Elem -> Pointer]
  /\ prev \in [Elem -> Pointer]
  /\ del \in [Deletion -> {"idle", "unlinked", "closed", "skipped"}]
  /\ panic \in {"none", "nil cursor", "close of closed channel"}
  /\ order \in Seq(Elem)

(* The position after and before i in a circle of n.                       *)
After(i, n) == IF i = n THEN 1 ELSE i + 1
Before(i, n) == IF i = 1 THEN n ELSE i - 1

(* The pointers form one circle that visits exactly the linked elements.   *)
Circle ==
  LET n == Len(order) IN
  /\ \A i, j \in 1..n : order[i] = order[j] => i = j
  /\ \A e \in Elem : e \in Linked <=> \E i \in 1..n : order[i] = e
  /\ \A i \in 1..n : /\ next[order[i]] = order[After(i, n)]
                     /\ prev[order[i]] = order[Before(i, n)]

(* Head, tail and cursor are in the list, unless it is empty.              *)
Anchored ==
  IF order = <<>>
    THEN head = Nil /\ tail = Nil
    ELSE head = order[1] /\ tail = order[Len(order)] /\ curr \in Linked

(* An element that was never added, or whose stopChan is closed, points    *)
(* nowhere; so a later Delete of it returns early.                         *)
Detached ==
  \A e \in Elem : e \notin elems \/ Stopped(e) => next[e] = Nil /\ prev[e] = Nil

(* Delete is called on elements that Add returned.                         *)
Begun == \A x \in Deletion : del[x] # "idle" => x[1] \in elems

(* Whatever Add, Next and Delete interleave, with Delete in its two        *)
(* critical sections, the list stays one well-formed circle of exactly the *)
(* elements that were added and not deleted, and the cursor stays in it.   *)
(* The one exception is two calls of Delete that unlink the same element.  *)
RingOK == DoubleUnlink \/ (Circle /\ Anchored /\ Detached)

(* Next dereferences nil only when the list is empty, and stopChan is      *)
(* closed twice only when two calls of Delete unlinked the same element.   *)
PoolPanics ==
  /\ panic = "nil cursor" => DoubleUnlink \/ order = <<>>
  /\ panic = "close of closed channel" => DoubleUnlink

(* The inductive invariant behind RingOK and PoolPanics.                   *)
PoolInv == PoolTypeOK /\ Begun /\ RingOK /\ PoolPanics

=============================================================================
