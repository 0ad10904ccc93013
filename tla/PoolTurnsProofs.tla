-------------------------- MODULE PoolTurnsProofs ---------------------------
(***************************************************************************)
(* The list with its cursor as a round robin, for every set of elements    *)
(* and of calls of Delete, by itself and inside the flow table.            *)
(***************************************************************************)
EXTENDS PoolTurns, FlowTableProofs

(* What comes behind a position of a queue without repetitions.            *)
LEMMA BehindAt ==
  ASSUME NEW S, NEW s \in Seq(S), NEW k \in 1..Len(s),
         \A i, j \in 1..Len(s) : s[i] = s[j] => i = j
  PROVE  RR!Behind(s, s[k]) = s[After(k, Len(s))]
<1>1. (CHOOSE i \in 1..Len(s) : s[i] = s[k]) = k
  OBVIOUS
<1> QED BY <1>1 DEF RR!Behind, After

(* Add joins the queue.                                                    *)
LEMMA AddJoins ==
  ASSUME ListTypeOK, Circle, Anchored, NEW e \in Elem, Add(e)
  PROVE  RR!Join(e)
<1>1. e \notin RR!ToSet(order)
  <2>1. order \in Seq(Elem) /\ \A i \in 1..Len(order) : order[i] # e
    BY DEF Add, Circle, Linked, ListTypeOK
  <2>2. DOMAIN order = 1..Len(order)
    BY <2>1
  <2> QED BY <2>1, <2>2 DEF RR!ToSet
<1>2. order' = Append(order, e) /\ order' # <<>> /\ order \in Seq(Elem)
  <2>1. order' = Append(order, e) /\ order \in Seq(Elem)
    BY DEF Add, ListTypeOK
  <2>2. Len(order') = Len(order) + 1 /\ Len(order) \in Nat
    BY <2>1
  <2>3. order' # <<>>
    BY <2>2
  <2> QED BY <2>1, <2>3
<1>3. CASE order = <<>>
  <2>1. curr' = e
    BY <1>3 DEF Anchored, Add, AddFirst, AddLast, FirstCursor
  <2> QED BY <1>1, <1>2, <1>3, <2>1 DEF RR!Join
<1>4. CASE order # <<>>
  <2>1. head # Nil
    BY <1>2, <1>4, NilAssumption DEF Anchored
  <2>2. curr' = curr
    BY <2>1 DEF Add, AddFirst, AddLast
  <2> QED BY <1>1, <1>2, <1>4, <2>2 DEF RR!Join
<1> QED BY <1>3, <1>4

(* Next serves the one whose turn it is.                                   *)
LEMMA NextServes ==
  ASSUME ListTypeOK, Circle, Anchored, order # <<>>, NEW r \in Elem, NextElem(r)
  PROVE  RR!Serve
<1>1. PICK i \in 1..Len(order) : order[i] = curr
  BY DEF Anchored, Circle, ListTypeOK, Linked
<1>2. curr' = order[After(i, Len(order))] /\ order' = order
  BY <1>1 DEF NextElem, Circle
<1>3. RR!Behind(order, curr) = order[After(i, Len(order))]
  BY <1>1, BehindAt DEF Circle, ListTypeOK
<1> QED BY <1>2, <1>3 DEF RR!Serve

(* The first critical section of Delete leaves the queue.                  *)
LEMMA UnlinkLeaves ==
  ASSUME ListTypeOK, Circle, Anchored, ~DoubleUnlink', NEW x \in Deletion, Unlink(x)
  PROVE  RR!Leave(x[1])
<1> DEFINE e == x[1]
           n == Len(order)
<1>0. e \in Elem /\ order \in Seq(Elem) /\ n \in Nat
  <2>1. e \in Elem /\ order \in Seq(Elem)
    BY DeletionAssumption DEF ListTypeOK
  <2> QED BY <2>1
<1>1. e \in Linked
  <2>1. e \in elems /\ del[x] = "idle" /\ del' = [del EXCEPT ![x] = "unlinked"]
    BY DEF Unlink, MayDelete
  <2>2. ASSUME NEW y \in Deletion, y[1] = e, Unlinked(y) PROVE FALSE
    <3>1. y # x /\ Unlinked(y)' /\ Unlinked(x)'
      BY <2>1, <2>2 DEF Unlinked, ListTypeOK
    <3> QED BY <2>2, <3>1 DEF DoubleUnlink
  <2> QED BY <2>1, <2>2 DEF Linked
<1>2. PICK k \in 1..n : order[k] = e
  BY <1>0, <1>1 DEF Circle
<1>3. /\ next[e] = order[After(k, n)] /\ RR!Behind(order, e) = next[e]
      /\ \A i, j \in 1..n : order[i] = order[j] => i = j
  BY <1>0, <1>2, BehindAt DEF Circle
<1>4. order' = RR!RemoveAt(order, k)
  <2>1. (CHOOSE i \in 1..n : order[i] = e) = k
    BY <1>2, <1>3
  <2> QED BY <1>2, <2>1 DEF Unlink, Without, RR!RemoveAt
<1>5. Len(order') = n - 1 /\ order' \in Seq(Elem)
  BY <1>0, <1>2, <1>3, WithoutAt DEF Unlink
<1>6. CASE n = 1
  <2>1. order' = <<>>
    BY <1>5, <1>6
  <2> HIDE DEF e
  <2>2. RR!Leave(e)
    BY <1>2, <1>4, <1>6, <2>1 DEF RR!Leave
  <2> QED BY <2>2 DEF e
<1>7. CASE n # 1
  <2>1. n > 1 /\ order # <<>> /\ order' # <<>>
    BY <1>0, <1>2, <1>5, <1>7
  <2>2. After(k, n) \in 1..n /\ After(k, n) # k
    BY <1>2, <2>1 DEF After
  <2>3. next[e] # e
    BY <1>2, <1>3, <2>2
  <2>4. curr' = IF curr = e THEN RR!Behind(order, e) ELSE curr
    BY <1>3, <2>3 DEF Unlink, UnlinkSole, UnlinkInner, CursorOff
  <2> HIDE DEF e
  <2>5. RR!Leave(e)
    <3>1. \E i \in 1..n : order[i] = e /\ order' = RR!RemoveAt(order, i)
      BY <1>2, <1>4
    <3> QED BY <1>7, <2>1, <2>4, <3>1 DEF RR!Leave
  <2> QED BY <2>5 DEF e
<1> QED BY <1>6, <1>7

(* The steps that the list and its cursor can take.                        *)
ListStep ==
  \/ \E e \in Elem : Add(e)
  \/ \E r \in Elem : NextElem(r)
  \/ \E x \in Deletion : Unlink(x)
  \/ UNCHANGED <<order, curr>>

LEMMA PoolListStep ==
  ASSUME [PoolStep]_poolVars
  PROVE  ListStep
<1>1. ASSUME NEW x \in Deletion, AlreadyDeleted(x) \/ CloseStop(x) \/ CloseAgain(x)
      PROVE  UNCHANGED <<order, curr>>
  BY <1>1 DEF AlreadyDeleted, CloseStop, CloseAgain, links
<1>2. CASE NextNil \/ UNCHANGED poolVars
  BY <1>2 DEF NextNil, poolVars, links, ListStep
<1> QED BY <1>1, <1>2 DEF PoolStep, PoolServe, ListStep

(* Each of them is a step of the round robin, or invisible.                *)
LEMMA ListStepTakesTurns ==
  ASSUME ListTypeOK, Circle, Anchored, ~DoubleUnlink', ListStep
  PROVE  [RR!RRStep]_(RR!rrVars)
<1>1. ASSUME NEW e \in Elem, Add(e) PROVE RR!RRStep
  BY <1>1, AddJoins DEF RR!RRStep
<1>2. ASSUME NEW r \in Elem, NextElem(r) PROVE [RR!RRStep]_(RR!rrVars)
  <2>1. CASE order = <<>>
    BY <1>2, <2>1 DEF NextElem, RR!rrVars
  <2>2. CASE order # <<>>
    BY <1>2, <2>2, NextServes DEF RR!RRStep
  <2> QED BY <2>1, <2>2
<1>3. ASSUME NEW x \in Deletion, Unlink(x) PROVE RR!RRStep
  BY <1>3, UnlinkLeaves, DeletionAssumption DEF RR!RRStep
<1>4. CASE UNCHANGED <<order, curr>>
  BY <1>4 DEF RR!rrVars
<1> QED BY <1>1, <1>2, <1>3, <1>4 DEF ListStep

(* As long as no two calls of Delete unlink the same element, the linked   *)
(* list with its cursor implements the round robin: whatever Add, Next and *)
(* the two sections of Delete interleave, every container in service is    *)
(* handed out in turn, and one that leaves passes its turn on.             *)
THEOREM PoolIsRoundRobin == PoolSpec /\ []~DoubleUnlink => ImplementsRoundRobin
<1>1. PoolInit => RR!RRInit
  BY DEF PoolInit, RR!RRInit
<1>2. ASSUME PoolInv, ~DoubleUnlink, ~DoubleUnlink', [PoolStep]_poolVars
      PROVE  [RR!RRStep]_(RR!rrVars)
  <2>1. ListTypeOK /\ Circle /\ Anchored
    BY <1>2 DEF PoolInv, RingOK, PoolTypeOK, ListTypeOK
  <2> QED BY <1>2, <2>1, PoolListStep, ListStepTakesTurns
<1> QED BY <1>1, <1>2, PoolInvariant, PTL DEF PoolSpec, ImplementsRoundRobin, RR!RRSpec

-----------------------------------------------------------------------------
Distinct(q) == \A i, j \in 1..Len(q) : q[i] = q[j] => i = j

LEMMA PlaceAt ==
  ASSUME NEW S, NEW q \in Seq(S), Distinct(q), NEW i \in 1..Len(q)
  PROVE  Place(q, q[i]) = i
  BY DEF Place, Distinct

(* The wait of the container at place k when the cursor is at place i.     *)
Turns(n, i, k) == IF k >= i THEN k - i ELSE k - i + n

LEMMA WaitAt ==
  ASSUME NEW S, NEW q \in Seq(S), Distinct(q),
         NEW i \in 1..Len(q), NEW k \in 1..Len(q)
  PROVE  Wait(q, q[i], q[k]) = Turns(Len(q), i, k)
<1>1. Place(q, q[i]) = i /\ Place(q, q[k]) = k
  BY PlaceAt
<1>2. Len(q) \in Nat
  OBVIOUS
<1> QED BY <1>1, <1>2 DEF Wait, Turns

(* Next brings everybody but the one it returns one turn nearer.           *)
LEMMA NextNearer ==
  ASSUME NEW n \in Nat, NEW i \in 1..n, NEW k \in 1..n, k # i
  PROVE  Turns(n, After(i, n), k) = Turns(n, i, k) - 1
  BY DEF Turns, After

(* One behind the last puts back by one at most.                           *)
LEMMA AddTurns ==
  ASSUME NEW n \in Nat, NEW i \in 1..n, NEW k \in 1..n
  PROVE  Turns(n + 1, i, k) <= Turns(n, i, k) + 1
  BY DEF Turns

(* Where place i goes when place k is taken out.                           *)
Shift(k, i) == IF i < k THEN i ELSE i - 1

(* Taking out another place puts nobody back, also when the cursor was     *)
(* there and moves on.                                                     *)
LEMMA RemoveTurns ==
  ASSUME NEW n \in Nat, NEW i \in 1..n, NEW k \in 1..n, NEW j \in 1..n, k # j
  PROVE  /\ i # j => Turns(n - 1, Shift(j, i), Shift(j, k)) <= Turns(n, i, k)
         /\ Turns(n - 1, Shift(j, After(j, n)), Shift(j, k)) <= Turns(n, j, k)
<1>1. i # j => Turns(n - 1, Shift(j, i), Shift(j, k)) <= Turns(n, i, k)
  BY DEF Turns, Shift
<1>2. Turns(n - 1, Shift(j, After(j, n)), Shift(j, k)) <= Turns(n, j, k)
  BY DEF Turns, Shift, After
<1> QED BY <1>1, <1>2

LEMMA WithoutPlace ==
  ASSUME NEW S, NEW q \in Seq(S), Distinct(q), NEW j \in 1..Len(q)
  PROVE  /\ Without(q, q[j]) \in Seq(S) /\ Len(Without(q, q[j])) = Len(q) - 1
         /\ Distinct(Without(q, q[j]))
         /\ \A i \in 1..Len(q) :
              i # j => /\ Shift(j, i) \in 1..(Len(q) - 1)
                       /\ Without(q, q[j])[Shift(j, i)] = q[i]
<1> DEFINE w == Without(q, q[j])
           n == Len(q)
<1>0. n \in Nat
  OBVIOUS
<1>1. /\ w \in Seq(S) /\ Len(w) = n - 1
      /\ \A i \in 1..(n - 1) : w[i] = IF i < j THEN q[i] ELSE q[i + 1]
  BY WithoutAt DEF Distinct
<1> HIDE DEF w
<1>2. Distinct(w)
  <2> SUFFICES ASSUME NEW i \in 1..(n - 1), NEW k \in 1..(n - 1), w[i] = w[k]
               PROVE  i = k
    BY <1>1 DEF Distinct
  <2> DEFINE up(m) == IF m < j THEN m ELSE m + 1
  <2>1. up(i) \in 1..n /\ up(k) \in 1..n
    BY <1>0
  <2>2. w[i] = q[up(i)] /\ w[k] = q[up(k)]
    BY <1>1
  <2>3. up(i) = up(k)
    <3> HIDE DEF up
    <3> QED BY <2>1, <2>2 DEF Distinct
  <2> QED BY <1>0, <2>3
<1>3. ASSUME NEW i \in 1..n, i # j
      PROVE  Shift(j, i) \in 1..(n - 1) /\ w[Shift(j, i)] = q[i]
  <2>1. Shift(j, i) \in 1..(n - 1)
    BY <1>0, <1>3 DEF Shift
  <2>2. CASE i < j
    BY <1>1, <2>1, <2>2 DEF Shift
  <2>3. CASE ~(i < j)
    <3>1. i > j /\ Shift(j, i) = i - 1 /\ ~(i - 1 < j) /\ i - 1 + 1 = i
      BY <1>0, <1>3, <2>3 DEF Shift
    <3> QED BY <1>1, <2>1, <3>1
  <2> QED BY <2>1, <2>2, <2>3
<1> QED BY <1>1, <1>2, <1>3 DEF w

(* What a step from one list and cursor to the next may do to e.           *)
Near(e) ==
  /\ order' = order /\ curr' # curr /\ e # curr
       => Wait(order', curr', e) = Wait(order, curr, e) - 1
  /\ order' # order
       => Wait(order', curr', e)
            <= Wait(order, curr, e) + (IF elems' = elems THEN 0 ELSE 1)

(* A list with elements that are numbered and a cursor in it.              *)
LEMMA InList ==
  ASSUME ListTypeOK, Circle, Anchored, NEW e \in Linked
  PROVE  /\ order \in Seq(Elem) /\ Distinct(order) /\ Len(order) \in Nat
         /\ \E k \in 1..Len(order) : order[k] = e
         /\ \E i \in 1..Len(order) : order[i] = curr
<1>1. order \in Seq(Elem) /\ Distinct(order) /\ e \in Elem
  BY DEF ListTypeOK, Circle, Distinct, Linked
<1>2. Len(order) \in Nat
  BY <1>1
<1>3. PICK k \in 1..Len(order) : order[k] = e
  BY <1>1 DEF Circle
<1>4. order # <<>>
  BY <1>3
<1>5. curr \in Linked /\ curr \in Elem
  BY <1>4 DEF Anchored, Linked, ListTypeOK
<1>6. \E i \in 1..Len(order) : order[i] = curr
  BY <1>5 DEF Circle
<1> QED BY <1>1, <1>2, <1>3, <1>6

LEMMA AddNear ==
  ASSUME ListTypeOK, Circle, Anchored, NEW e \in Linked, NEW x \in Elem, Add(x)
  PROVE  Near(e)
<1> DEFINE n == Len(order)
<1>1. /\ order \in Seq(Elem) /\ Distinct(order) /\ n \in Nat
      /\ order' = Append(order, x) /\ elems' # elems
  BY InList DEF Add
<1>2. PICK k \in 1..n : order[k] = e
  BY InList
<1>3. PICK i \in 1..n : order[i] = curr
  BY InList
<1>4. curr' = curr
  <2>1. order # <<>>
    BY <1>2
  <2>2. head # Nil
    BY <1>1, <2>1, NilAssumption DEF Anchored
  <2> QED BY <2>2 DEF Add, AddFirst, AddLast
<1>5. /\ order' \in Seq(Elem) /\ Len(order') = n + 1
      /\ \A m \in 1..n : order'[m] = order[m]
      /\ order'[n + 1] = x
  BY <1>1, ListAppend
<1>6. Distinct(order')
  <2>1. \A m \in 1..n : order[m] # x
    BY <1>1 DEF Circle, Add, Linked
  <2>2. ASSUME NEW a \in 1..(n + 1), NEW b \in 1..(n + 1), order'[a] = order'[b]
        PROVE  a = b
    <3>1. CASE a = n + 1 \/ b = n + 1
      BY <1>1, <1>5, <2>1, <2>2, <3>1
    <3>2. CASE a \in 1..n /\ b \in 1..n
      BY <1>1, <1>5, <2>2, <3>2 DEF Distinct
    <3> QED BY <1>1, <3>1, <3>2
  <2> QED BY <1>5, <2>2 DEF Distinct
<1>7. Wait(order, curr, e) = Turns(n, i, k)
  BY <1>1, <1>2, <1>3, WaitAt
<1>8. Wait(order', curr', e) = Turns(n + 1, i, k)
  <2>1. i \in 1..Len(order') /\ k \in 1..Len(order')
    BY <1>1, <1>5
  <2>2. order'[i] = curr' /\ order'[k] = e
    BY <1>2, <1>3, <1>4, <1>5
  <2>3. Wait(order', order'[i], order'[k]) = Turns(Len(order'), i, k)
    BY <1>5, <1>6, <2>1, WaitAt
  <2> QED BY <1>5, <2>2, <2>3
<1>9. Turns(n + 1, i, k) <= Turns(n, i, k) + 1
  BY <1>1, AddTurns
<1>10. order' # order
  BY <1>1, <1>5
<1> QED BY <1>1, <1>7, <1>8, <1>9, <1>10 DEF Near

LEMMA NextNear ==
  ASSUME ListTypeOK, Circle, Anchored, NEW e \in Linked, NEW r \in Elem, NextElem(r)
  PROVE  Near(e)
<1> DEFINE n == Len(order)
<1>1. /\ order \in Seq(Elem) /\ Distinct(order) /\ n \in Nat /\ order' = order
  BY InList DEF NextElem
<1>2. PICK k \in 1..n : order[k] = e
  BY InList
<1>3. PICK i \in 1..n : order[i] = curr
  BY InList
<1>4. After(i, n) \in 1..n /\ curr' = order[After(i, n)]
  <2>1. After(i, n) \in 1..n
    BY <1>1 DEF After
  <2> QED BY <1>3, <2>1 DEF NextElem, Circle
<1> SUFFICES ASSUME e # curr
             PROVE  Wait(order', curr', e) = Wait(order, curr, e) - 1
  BY <1>1 DEF Near
<1>5. Wait(order, curr, e) = Turns(n, i, k)
  BY <1>1, <1>2, <1>3, WaitAt
<1>6. Wait(order', curr', e) = Turns(n, After(i, n), k)
  BY <1>1, <1>2, <1>4, WaitAt
<1>7. k # i
  BY <1>2, <1>3
<1> QED BY <1>1, <1>5, <1>6, <1>7, NextNearer

LEMMA UnlinkNear ==
  ASSUME ListTypeOK, Circle, Anchored, ~DoubleUnlink', NEW x \in Deletion, Unlink(x),
         NEW e \in Linked, e \in Linked'
  PROVE  Near(e)
<1> DEFINE n == Len(order)
           f == x[1]
<1>1. /\ order \in Seq(Elem) /\ Distinct(order) /\ n \in Nat
      /\ order' = Without(order, f) /\ elems' = elems
  BY InList DEF Unlink
<1>2. PICK k \in 1..n : order[k] = e
  BY InList
<1>3. PICK i \in 1..n : order[i] = curr
  BY InList
<1>4. f \in Linked /\ f \in Elem
  <2>1. f \in elems /\ f \in Elem /\ del[x] = "idle" /\ del' = [del EXCEPT ![x] = "unlinked"]
    BY DeletionAssumption DEF Unlink, MayDelete
  <2>2. ASSUME NEW y \in Deletion, y[1] = f, Unlinked(y) PROVE FALSE
    <3>1. y # x /\ Unlinked(y)' /\ Unlinked(x)'
      BY <2>1, <2>2 DEF Unlinked, ListTypeOK
    <3> QED BY <2>2, <3>1 DEF DoubleUnlink
  <2> QED BY <2>1, <2>2 DEF Linked
<1>5. PICK j \in 1..n : order[j] = f
  BY <1>4 DEF Circle
<1>6. e # f
  <2>1. Unlinked(x)'
    BY DEF Unlink, Unlinked, ListTypeOK
  <2> QED BY <2>1 DEF Linked
<1>7. j # k
  BY <1>2, <1>5, <1>6
<1>8. /\ order' \in Seq(Elem) /\ Len(order') = n - 1 /\ Distinct(order')
      /\ \A m \in 1..n :
           m # j => Shift(j, m) \in 1..(n - 1) /\ order'[Shift(j, m)] = order[m]
  <2> DEFINE w == Without(order, order[j])
  <2>1. /\ w \in Seq(Elem) /\ Len(w) = n - 1 /\ Distinct(w)
        /\ \A m \in 1..n : m # j => Shift(j, m) \in 1..(n - 1) /\ w[Shift(j, m)] = order[m]
    <3> HIDE DEF w
    <3> QED BY <1>1, WithoutPlace DEF w
  <2>2. order' = w
    BY <1>1, <1>5
  <2> HIDE DEF w
  <2> QED BY <2>1, <2>2
<1>9. After(j, n) \in 1..n /\ After(j, n) # j /\ next[f] = order[After(j, n)] /\ next[f] # f
  <2>1. After(j, n) \in 1..n /\ After(j, n) # j
    BY <1>1, <1>7 DEF After
  <2>2. next[f] = order[After(j, n)]
    BY <1>5 DEF Circle
  <2> QED BY <1>1, <1>5, <2>1, <2>2 DEF Distinct
<1>10. curr' = IF curr = f THEN next[f] ELSE curr
  BY <1>9 DEF Unlink, UnlinkSole, UnlinkInner, CursorOff
<1> DEFINE t == IF i = j THEN After(j, n) ELSE i
<1>11. t \in 1..n /\ t # j /\ curr' = order[t]
  BY <1>1, <1>3, <1>5, <1>9, <1>10 DEF Distinct
<1>12. Wait(order, curr, e) = Turns(n, i, k)
  BY <1>1, <1>2, <1>3, WaitAt
<1>13. Wait(order', curr', e) = Turns(n - 1, Shift(j, t), Shift(j, k))
  <2> HIDE DEF t
  <2>1. /\ Shift(j, t) \in 1..Len(order') /\ order'[Shift(j, t)] = curr'
        /\ Shift(j, k) \in 1..Len(order') /\ order'[Shift(j, k)] = e
    BY <1>2, <1>7, <1>8, <1>11
  <2>2. Wait(order', order'[Shift(j, t)], order'[Shift(j, k)])
          = Turns(Len(order'), Shift(j, t), Shift(j, k))
    BY <1>8, <2>1, WaitAt
  <2> QED BY <1>8, <2>1, <2>2
<1>14. Turns(n - 1, Shift(j, t), Shift(j, k)) <= Turns(n, i, k)
  BY <1>1, <1>7, RemoveTurns
<1>15. order' # order
  BY <1>1, <1>8
<1>16. Turns(n, i, k) \in Int
  BY <1>1 DEF Turns
<1> QED BY <1>1, <1>12, <1>13, <1>14, <1>15, <1>16 DEF Near

LEMMA ListStepNear ==
  ASSUME ListTypeOK, Circle, Anchored, ~DoubleUnlink', ListStep,
         NEW e \in Linked, e \in Linked'
  PROVE  Near(e)
<1>1. ASSUME NEW x \in Elem, Add(x) PROVE Near(e)
  BY <1>1, AddNear
<1>2. ASSUME NEW r \in Elem, NextElem(r) PROVE Near(e)
  BY <1>2, NextNear
<1>3. ASSUME NEW x \in Deletion, Unlink(x) PROVE Near(e)
  BY <1>3, UnlinkNear
<1>4. CASE UNCHANGED <<order, curr>>
  BY <1>4 DEF Near
<1> QED BY <1>1, <1>2, <1>3, <1>4 DEF ListStep

(* Nobody is overtaken, for any number of containers and any interleaving  *)
(* of Add, Next and Delete in which no element is unlinked twice: Next     *)
(* brings every waiting container one turn nearer, and neither a Delete    *)
(* nor the cursor's step off a deleted element sends one back.             *)
THEOREM PoolNobodyOvertaken == PoolSpec /\ []~DoubleUnlink => NobodyOvertaken
<1>1. ASSUME PoolInv, ~DoubleUnlink, ~DoubleUnlink', [PoolStep]_poolVars
      PROVE  [\A e \in Linked \cap Linked' : Near(e)]_poolVars
  <2>1. ListTypeOK /\ Circle /\ Anchored
    BY <1>1 DEF PoolInv, RingOK, PoolTypeOK, ListTypeOK
  <2>2. ListStep
    BY <1>1, PoolListStep
  <2> QED BY <1>1, <2>1, <2>2, ListStepNear
<1> QED BY <1>1, PoolInvariant, PTL DEF PoolSpec, NobodyOvertaken, Near

-----------------------------------------------------------------------------
(* What the flow table's invariants say of the list.                       *)
LEMMA FlowList ==
  ASSUME FlowBase, ~DoubleUnlink
  PROVE  ListTypeOK /\ Circle /\ Anchored
<1>1. FlowTyped /\ RingOK
  BY DEF FlowBase, FlowRing
<1>2. ListTypeOK
  BY <1>1 DEF FlowTyped, FlowTypeOK, ListTypeOK
<1> QED BY <1>1, <1>2 DEF RingOK

LEMMA FlowListStep ==
  ASSUME FlowBase, [Next]_vars
  PROVE  ListStep
<1>1. CASE Next
  <2>1. PoolPart
    BY <1>1, StepPoolPart DEF FlowBase
  <2>2. ASSUME NEW x \in Deletion, AlreadyDeleted(x) \/ CloseStop(x) \/ CloseAgain(x)
        PROVE  UNCHANGED <<order, curr>>
    BY <2>2 DEF AlreadyDeleted, CloseStop, CloseAgain, links
  <2>3. CASE NextNil
    BY <2>3 DEF NextNil, links, ListStep
  <2> QED BY <2>1, <2>2, <2>3 DEF PoolPart, ListStep
<1>2. CASE UNCHANGED vars
  BY <1>2 DEF vars, poolVars, links, ListStep
<1> QED BY <1>1, <1>2

(* The containers behind the gateway are served in turn: with packets,     *)
(* expiries, registrations and whole Deletes interleaved, Get hands new    *)
(* flows, and Delete those of a deleted container, to the containers in    *)
(* the order of the round robin.                                           *)
THEOREM FlowIsRoundRobin == Spec /\ []~DoubleUnlink => ImplementsRoundRobin
<1>1. Init => RR!RRInit
  BY DEF Init, PoolInit, RR!RRInit
<1>2. ASSUME FlowBase, ~DoubleUnlink, ~DoubleUnlink', [Next]_vars
      PROVE  [RR!RRStep]_(RR!rrVars)
  BY <1>2, FlowList, FlowListStep, ListStepTakesTurns
<1> QED BY <1>1, <1>2, FlowBaseInvariant, PTL DEF Spec, ImplementsRoundRobin, RR!RRSpec

(* No container behind the gateway is overtaken: each lookup or Delete     *)
(* that takes the next element brings all others one turn nearer.          *)
THEOREM FlowNobodyOvertaken == Spec /\ []~DoubleUnlink => NobodyOvertaken
<1>1. ASSUME FlowBase, ~DoubleUnlink, ~DoubleUnlink', [Next]_vars
      PROVE  [\A e \in Linked \cap Linked' : Near(e)]_poolVars
  <2>1. ListTypeOK /\ Circle /\ Anchored /\ ListStep
    BY <1>1, FlowList, FlowListStep
  <2> QED BY <1>1, <2>1, ListStepNear
<1> QED BY <1>1, FlowBaseInvariant, PTL DEF Spec, NobodyOvertaken, Near

(* Replica containers, which only their lease timer deletes, need no       *)
(* further condition: with one caller of Delete for each element the list  *)
(* is a round robin and nobody is overtaken.                               *)
THEOREM SoleDeleterRoundRobin ==
  ASSUME \A x, y \in Deletion : x[1] = y[1] => x = y
  PROVE  (PoolSpec \/ Spec) => ImplementsRoundRobin /\ NobodyOvertaken
<1>1. ~DoubleUnlink
  BY DEF DoubleUnlink
<1> QED BY <1>1, PoolIsRoundRobin, PoolNobodyOvertaken, FlowIsRoundRobin,
       FlowNobodyOvertaken, PTL
=============================================================================
