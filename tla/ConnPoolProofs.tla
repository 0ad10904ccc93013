--------------------------- MODULE ConnPoolProofs ---------------------------
(***************************************************************************)
(* Proofs that the list of ConnPool stays well formed, for every set of    *)
(* elements and of calls of Delete.                                        *)
(***************************************************************************)
EXTENDS ConnPool, TLAPS

(* The facts about sequences that the proofs use.                          *)
LEMMA EmptyList == \A S : <<>> \in Seq(S) /\ \A s \in Seq(S) : s = <<>> <=> Len(s) = 0
OBVIOUS

LEMMA ListElems ==
  \A S : \A s \in Seq(S) : Len(s) \in Nat /\ \A i \in 1..Len(s) : s[i] \in S
OBVIOUS

LEMMA ListAppend ==
  ASSUME NEW S, NEW s \in Seq(S), NEW e \in S
  PROVE  /\ Append(s, e) \in Seq(S) /\ Append(s, e) # <<>>
         /\ Len(Append(s, e)) = Len(s) + 1
         /\ \A i \in 1..Len(s) : Append(s, e)[i] = s[i]
         /\ Append(s, e)[Len(s) + 1] = e
OBVIOUS

LEMMA ListConcat ==
  ASSUME NEW S, NEW s \in Seq(S), NEW t \in Seq(S)
  PROVE  /\ s \o t \in Seq(S) /\ Len(s \o t) = Len(s) + Len(t)
         /\ \A i \in 1..(Len(s) + Len(t)) :
              (s \o t)[i] = IF i <= Len(s) THEN s[i] ELSE t[i - Len(s)]
OBVIOUS

LEMMA ListCut ==
  ASSUME NEW S, NEW s \in Seq(S), NEW m \in Int, NEW n \in Int,
         \A i \in m..n : s[i] \in S
  PROVE  /\ SubSeq(s, m, n) \in Seq(S)
         /\ Len(SubSeq(s, m, n)) = IF m <= n THEN n - m + 1 ELSE 0
         /\ \A i \in 1..(n - m + 1) : SubSeq(s, m, n)[i] = s[m + i - 1]
OBVIOUS

-----------------------------------------------------------------------------
(* What Without removes from a sequence without repetitions: one position, *)
(* with the elements behind it moving up.                                  *)
LEMMA WithoutAt ==
  ASSUME NEW S, NEW s \in Seq(S), NEW k \in 1..Len(s),
         \A i, j \in 1..Len(s) : s[i] = s[j] => i = j
  PROVE  /\ Without(s, s[k]) \in Seq(S)
         /\ Len(Without(s, s[k])) = Len(s) - 1
         /\ \A i \in 1..(Len(s) - 1) :
              Without(s, s[k])[i] = IF i < k THEN s[i] ELSE s[i + 1]
<1> DEFINE l == SubSeq(s, 1, k - 1)
           r == SubSeq(s, k + 1, Len(s))
<1>1. Len(s) \in Nat /\ \A i \in 1..Len(s) : s[i] \in S
  BY ListElems
<1>2. (CHOOSE j \in 1..Len(s) : s[j] = s[k]) = k
  OBVIOUS
<1>3. Without(s, s[k]) = l \o r
  BY <1>2 DEF Without
<1>4. /\ l \in Seq(S) /\ Len(l) = k - 1
      /\ \A i \in 1..(k - 1) : l[i] = s[i]
  <2>1. \A i \in 1..(k - 1) : s[i] \in S
    BY <1>1
  <2>2. /\ SubSeq(s, 1, k - 1) \in Seq(S)
        /\ Len(SubSeq(s, 1, k - 1)) = IF 1 <= k - 1 THEN (k - 1) - 1 + 1 ELSE 0
        /\ \A i \in 1..((k - 1) - 1 + 1) : SubSeq(s, 1, k - 1)[i] = s[1 + i - 1]
    BY <2>1, ListCut
  <2> QED BY <2>2, <1>1
<1>5. /\ r \in Seq(S) /\ Len(r) = Len(s) - k
      /\ \A i \in 1..(Len(s) - k) : r[i] = s[k + i]
  <2>1. \A i \in (k + 1)..Len(s) : s[i] \in S
    BY <1>1
  <2>2. /\ SubSeq(s, k + 1, Len(s)) \in Seq(S)
        /\ Len(SubSeq(s, k + 1, Len(s)))
             = IF k + 1 <= Len(s) THEN Len(s) - (k + 1) + 1 ELSE 0
        /\ \A i \in 1..(Len(s) - (k + 1) + 1) :
             SubSeq(s, k + 1, Len(s))[i] = s[(k + 1) + i - 1]
    BY <2>1, <1>1, ListCut
  <2> QED BY <2>2, <1>1
<1> HIDE DEF l, r
<1>6. /\ l \o r \in Seq(S)
      /\ Len(l \o r) = Len(l) + Len(r)
      /\ \A i \in 1..(Len(l) + Len(r)) :
           (l \o r)[i] = IF i <= Len(l) THEN l[i] ELSE r[i - Len(l)]
  <2>1. l \in Seq(S) /\ r \in Seq(S)
    BY <1>4, <1>5
  <2> QED BY ONLY <2>1, ListConcat
<1>7. ASSUME NEW i \in 1..(Len(s) - 1)
      PROVE  (l \o r)[i] = IF i < k THEN s[i] ELSE s[i + 1]
  <2>1. CASE i < k
    <3>1. i \in 1..(k - 1) /\ i \in 1..(Len(l) + Len(r)) /\ i <= Len(l)
      BY <2>1, <1>1, <1>4, <1>5
    <3> QED BY <3>1, <2>1, <1>4, <1>6
  <2>2. CASE ~(i < k)
    <3>1. /\ i - (k - 1) \in 1..(Len(s) - k) /\ k + (i - (k - 1)) = i + 1
          /\ i \in 1..(Len(l) + Len(r)) /\ ~(i <= Len(l))
          /\ i - Len(l) = i - (k - 1)
      BY <2>2, <1>1, <1>4, <1>5
    <3>2. r[i - (k - 1)] = s[k + (i - (k - 1))]
      BY <3>1, <1>5
    <3>3. (l \o r)[i] = r[i - Len(l)]
      BY <3>1, <1>6
    <3> QED BY <3>1, <3>2, <3>3, <2>2
  <2> QED BY <2>1, <2>2
<1>8. Len(l \o r) = Len(s) - 1
  BY <1>1, <1>4, <1>5, <1>6
<1> QED BY <1>3, <1>6, <1>7, <1>8


(* Without yields a sequence over the same set.                            *)
LEMMA WithoutTyped ==
  ASSUME NEW S, NEW s \in Seq(S), NEW e
  PROVE  Without(s, e) \in Seq(S)
<1>1. CASE \E k \in 1..Len(s) : s[k] = e
  <2> DEFINE k == CHOOSE j \in 1..Len(s) : s[j] = e
             l == SubSeq(s, 1, k - 1)
             r == SubSeq(s, k + 1, Len(s))
  <2>1. k \in 1..Len(s)
    BY <1>1
  <2>2. Without(s, e) = l \o r
    BY <1>1 DEF Without
  <2>3. Len(s) \in Nat /\ \A i \in 1..Len(s) : s[i] \in S
    BY ListElems
  <2> HIDE DEF k
  <2>4. l \in Seq(S)
    <3>1. k - 1 \in Int /\ \A i \in 1..(k - 1) : s[i] \in S
      BY <2>1, <2>3
    <3> QED BY <3>1, ListCut
  <2>5. r \in Seq(S)
    <3>1. /\ k + 1 \in Int /\ Len(s) \in Int
          /\ \A i \in (k + 1)..Len(s) : s[i] \in S
      BY <2>1, <2>3
    <3> QED BY <3>1, ListCut
  <2> HIDE DEF l, r
  <2> QED BY <2>2, <2>4, <2>5, ListConcat
<1>2. CASE ~\E k \in 1..Len(s) : s[k] = e
  BY <1>2 DEF Without
<1> QED BY <1>1, <1>2

-----------------------------------------------------------------------------
(* The types of the list alone; a user of the pool may go on with a call   *)
(* of Delete and panic in its own ways.                                    *)
ListTypeOK ==
  /\ elems \in SUBSET Elem
  /\ head \in Pointer /\ tail \in Pointer /\ curr \in Pointer
  /\ next \in [Elem -> Pointer] /\ prev \in [Elem -> Pointer]
  /\ order \in Seq(Elem)
  /\ DOMAIN del = Deletion

LEMMA ListTypeStep ==
  ASSUME ListTypeOK,
         \/ \E e \in Elem : Add(e)
         \/ \E r \in Elem : NextElem(r) /\ UNCHANGED elems /\ DOMAIN del' = Deletion
         \/ \E x \in Deletion : Unlink(x) \/ AlreadyDeleted(x) \/ CloseStop(x)
  PROVE  ListTypeOK'
<1> USE NilAssumption, DeletionAssumption DEF ListTypeOK, Pointer
<1>1. ASSUME NEW e \in Elem, Add(e) PROVE ListTypeOK'
  <2>1. order' \in Seq(Elem)
    BY <1>1, ListAppend DEF Add
  <2>2. next' \in [Elem -> Pointer] /\ prev' \in [Elem -> Pointer]
    <3>1. CASE AddFirst(e)
      BY <3>1 DEF AddFirst, FirstCursor
    <3>2. CASE AddLast(e)
      BY <3>2 DEF AddLast, LinkLast
    <3> QED BY <1>1, <3>1, <3>2 DEF Add
  <2>3. head' \in Pointer /\ tail' \in Pointer /\ curr' \in Pointer
    BY <1>1 DEF Add, AddFirst, AddLast, FirstCursor, LinkLast
  <2> QED BY <1>1, <2>1, <2>2, <2>3 DEF Add
<1>2. ASSUME NEW r \in Elem, NextElem(r), UNCHANGED elems, DOMAIN del' = Deletion
      PROVE  ListTypeOK'
  BY <1>2 DEF NextElem
<1>3. ASSUME NEW x \in Deletion, Unlink(x) PROVE ListTypeOK'
  <2>1. order' \in Seq(Elem)
    BY <1>3, WithoutTyped DEF Unlink
  <2>2. next' \in [Elem -> Pointer] /\ prev' \in [Elem -> Pointer]
    <3>1. CASE UnlinkSole(x)
      BY <3>1 DEF UnlinkSole
    <3>2. CASE UnlinkInner(x)
      BY <3>2 DEF UnlinkInner
    <3> QED BY <1>3, <3>1, <3>2 DEF Unlink
  <2>3. head' \in Pointer /\ tail' \in Pointer /\ curr' \in Pointer
    <3>1. CASE UnlinkSole(x)
      BY <3>1 DEF UnlinkSole
    <3>2. CASE UnlinkInner(x)
      <4>1. next[x[1]] \in Pointer /\ prev[x[1]] \in Pointer
        OBVIOUS
      <4> QED BY <3>2, <4>1 DEF UnlinkInner, CursorOff, HeadOff, TailOff
    <3> QED BY <1>3, <3>1, <3>2 DEF Unlink
  <2> QED BY <1>3, <2>1, <2>2, <2>3 DEF Unlink
<1>4. ASSUME NEW x \in Deletion, AlreadyDeleted(x) PROVE ListTypeOK'
  BY <1>4 DEF AlreadyDeleted, links
<1>5. ASSUME NEW x \in Deletion, CloseStop(x) PROVE ListTypeOK'
  BY <1>5 DEF CloseStop
<1> QED BY <1>1, <1>2, <1>3, <1>4, <1>5

(* Type correctness of the pool: no operation stores anything but an       *)
(* element or nil in a pointer, whatever the order of the operations.      *)
THEOREM PoolTypeCorrect == PoolSpec => []PoolTypeOK
<1>1. PoolInit => PoolTypeOK
  BY DEF PoolInit, PoolTypeOK, Pointer
<1>2. ASSUME PoolTypeOK, [PoolStep]_poolVars
      PROVE  PoolTypeOK'
  <2>1. ListTypeOK
    BY <1>2 DEF PoolTypeOK, ListTypeOK
  <2>2. ASSUME UNCHANGED <<elems, links>> PROVE ListTypeOK' \/ del' # del
    BY <2>1, <2>2 DEF ListTypeOK, links
  <2>3. ListTypeOK'
    BY <1>2, <2>1, <2>2, ListTypeStep
    DEF ListTypeOK, PoolStep, PoolServe, poolVars, links, NextNil, CloseAgain
  <2>4. /\ del' \in [Deletion -> {"idle", "unlinked", "closed", "skipped"}]
        /\ panic' \in {"none", "nil cursor", "close of closed channel"}
    BY <1>2
    DEF PoolTypeOK, PoolStep, PoolServe, poolVars, Add, NextNil, Unlink,
        AlreadyDeleted, CloseStop, CloseAgain, Crash
  <2> QED BY <2>3, <2>4 DEF PoolTypeOK, ListTypeOK
<1> QED BY <1>1, <1>2, PTL DEF PoolSpec

-----------------------------------------------------------------------------
(* An element that two calls have unlinked stays so.                       *)
LEMMA DoubleUnlinkStable ==
  ASSUME PoolTypeOK, PoolStep, DoubleUnlink
  PROVE  DoubleUnlink'
<1>1. PICK x \in Deletion, y \in Deletion :
        x # y /\ x[1] = y[1] /\ Unlinked(x) /\ Unlinked(y)
  BY DEF DoubleUnlink
<1>2. ASSUME NEW z \in Deletion, Unlinked(z) PROVE Unlinked(z)'
  <2>1. CASE del' = del
    BY <2>1, <1>2 DEF Unlinked
  <2>2. ASSUME NEW w \in Deletion,
               Unlink(w) \/ AlreadyDeleted(w) \/ CloseStop(w)
        PROVE  Unlinked(z)'
    BY <2>2, <1>2
    DEF Unlink, AlreadyDeleted, CloseStop, MayDelete, Unlinked, PoolTypeOK
  <2> QED BY <2>1, <2>2 DEF PoolStep, PoolServe, Add, CloseAgain
<1> QED BY <1>1, <1>2 DEF DoubleUnlink

(* No call of Delete enters or leaves one of its two sections.             *)
DeleteKept ==
  \A x \in Deletion : (Unlinked(x)' <=> Unlinked(x)) /\ (Closed(x)' <=> Closed(x))

(* Add puts the new element between the tail and the head.                 *)
LEMMA AddKeepsRing ==
  ASSUME ListTypeOK, Begun, Circle, Anchored, Detached,
         NEW e \in Elem, Add(e)
  PROVE  (Circle /\ Anchored /\ Detached)'
<1> USE NilAssumption, DeletionAssumption
<1> DEFINE n == Len(order)
<1>1. /\ n \in Nat /\ \A i \in 1..n : order[i] \in Elem
      /\ order = <<>> <=> n = 0
  BY ListElems, EmptyList DEF ListTypeOK
<1>2. /\ Len(order') = n + 1 /\ order'[n + 1] = e /\ order' # <<>>
      /\ \A i \in 1..n : order'[i] = order[i]
  <2>1. order \in Seq(Elem) /\ order' = Append(order, e)
    BY DEF Add, ListTypeOK
  <2> QED BY ONLY <2>1, e \in Elem, ListAppend
<1>3. Linked' = Linked \cup {e} /\ e \notin Linked /\ Linked \subseteq Elem
  BY DEF Add, Linked, Unlinked, Begun, ListTypeOK
<1>4. \A i \in 1..n : order[i] \in Linked /\ order[i] # e
  BY <1>1, <1>3 DEF Circle
<1>5. \A f \in Elem : Stopped(f)' <=> Stopped(f)
  BY DEF Add, Stopped, Closed
<1>6. CASE head = Nil
  <2>1. n = 0
    BY <1>6, <1>1 DEF Anchored
  <2>2. /\ head' = e /\ tail' = e /\ curr' = e
        /\ next' = [next EXCEPT ![e] = e] /\ prev' = [prev EXCEPT ![e] = e]
    BY <1>6 DEF Add, AddFirst, AddLast, FirstCursor, LinkLast
  <2>3. Circle'
    <3>1. Len(order') = 1 /\ order'[1] = e
      BY <2>1, <1>2
    <3>2. next'[e] = e /\ prev'[e] = e
      BY <2>2 DEF ListTypeOK
    <3>3. Linked' = {e}
      BY <2>1, <1>3 DEF Circle
    <3> QED BY <3>1, <3>2, <3>3 DEF Circle, After, Before
  <2>4. Anchored'
    BY <2>1, <2>2, <1>2, <1>3 DEF Anchored
  <2>5. Detached'
    <3> SUFFICES ASSUME NEW f \in Elem, f \notin elems' \/ Stopped(f)'
                 PROVE  next'[f] = Nil /\ prev'[f] = Nil
      BY DEF Detached
    <3>1. f # e
      BY DEF Add, Begun, Stopped, Closed
    <3>2. f \notin elems \/ Stopped(f)
      BY <3>1, <1>5 DEF Add
    <3> QED BY <3>1, <3>2, <2>2 DEF Detached, ListTypeOK
  <2> QED BY <2>3, <2>4, <2>5
<1>7. CASE head # Nil
  <2>1. n > 0 /\ head = order[1] /\ tail = order[n] /\ curr \in Linked
    BY <1>7, <1>1 DEF Anchored
  <2>2. /\ next' = [next EXCEPT ![tail] = e, ![e] = head]
        /\ prev' = [prev EXCEPT ![e] = tail, ![head] = e]
        /\ tail' = e /\ head' = head /\ curr' = curr
    BY <1>7 DEF Add, AddFirst, AddLast, FirstCursor, LinkLast
  <2>3. /\ next'[e] = order[1] /\ prev'[e] = order[n]
        /\ next'[order[n]] = e /\ prev'[order[1]] = e
        /\ \A f \in Elem \ {e, order[n]} : next'[f] = next[f]
        /\ \A f \in Elem \ {e, order[1]} : prev'[f] = prev[f]
    <3>1. /\ 1 \in 1..n /\ n \in 1..n
          /\ head \in Elem /\ tail \in Elem /\ head # e /\ tail # e
      BY <2>1, <1>1, <1>4
    <3>2. next \in [Elem -> Pointer] /\ prev \in [Elem -> Pointer]
      BY DEF ListTypeOK
    <3> QED BY <2>1, <2>2, <3>1, <3>2
  <2>4. Circle'
    <3>1. \A i, j \in 1..(n + 1) : order'[i] = order'[j] => i = j
      BY <1>1, <1>2, <1>4 DEF Circle
    <3>2. \A f \in Elem : f \in Linked' <=> \E i \in 1..(n + 1) : order'[i] = f
      <4> TAKE f \in Elem
      <4>1. CASE f = e
        BY <4>1, <1>1, <1>2, <1>3
      <4>2. CASE f # e
        BY <4>2, <1>1, <1>2, <1>3 DEF Circle
      <4> QED BY <4>1, <4>2
    <3>3. \A i \in 1..(n + 1) : /\ next'[order'[i]] = order'[After(i, n + 1)]
                                /\ prev'[order'[i]] = order'[Before(i, n + 1)]
      <4> TAKE i \in 1..(n + 1)
      <4>1. CASE i = n + 1
        BY <4>1, <2>1, <2>3, <1>1, <1>2 DEF After, Before
      <4>2. CASE i \in 1..n
        <5>1. next'[order[i]] = order'[After(i, n + 1)]
          <6>1. CASE i = n
            BY <6>1, <2>1, <2>3, <1>1, <1>2 DEF After
          <6>2. CASE i # n
            <7>1. order[i] \in Elem \ {e, order[n]} /\ i + 1 \in 1..n
              BY <4>2, <6>2, <2>1, <1>1, <1>4 DEF Circle
            <7>2. next[order[i]] = order[i + 1]
              BY <4>2, <6>2 DEF Circle, After
            <7> QED BY <4>2, <6>2, <7>1, <7>2, <2>3, <1>1, <1>2 DEF After
          <6> QED BY <6>1, <6>2
        <5>2. prev'[order[i]] = order'[Before(i, n + 1)]
          <6>1. CASE i = 1
            BY <6>1, <2>1, <2>3, <1>1, <1>2 DEF Before
          <6>2. CASE i # 1
            <7>1. order[i] \in Elem \ {e, order[1]} /\ i - 1 \in 1..n
              BY <4>2, <6>2, <2>1, <1>1, <1>4 DEF Circle
            <7>2. prev[order[i]] = order[i - 1]
              BY <4>2, <6>2 DEF Circle, Before
            <7> QED BY <4>2, <6>2, <7>1, <7>2, <2>3, <1>1, <1>2 DEF Before
          <6> QED BY <6>1, <6>2
        <5> QED BY <5>1, <5>2, <4>2, <1>2
      <4> QED BY <4>1, <4>2, <1>1
    <3> QED BY <3>1, <3>2, <3>3, <1>2 DEF Circle
  <2>5. Anchored'
    BY <2>1, <2>2, <1>1, <1>2, <1>3 DEF Anchored
  <2>6. Detached'
    <3> SUFFICES ASSUME NEW f \in Elem, f \notin elems' \/ Stopped(f)'
                 PROVE  next'[f] = Nil /\ prev'[f] = Nil
      BY DEF Detached
    <3>1. f # e
      BY DEF Add, Begun, Stopped, Closed
    <3>2. f \notin elems \/ Stopped(f)
      BY <3>1, <1>5 DEF Add
    <3>3. f \notin Linked
      BY <3>2 DEF Linked, Stopped, Closed, Unlinked
    <3> QED BY <3>1, <3>2, <3>3, <2>1, <2>3, <1>1, <1>4 DEF Detached
  <2> QED BY <2>4, <2>5, <2>6
<1> QED BY <1>6, <1>7

(* The first critical section of Delete takes one element out.             *)
LEMMA UnlinkKeepsRing ==
  ASSUME ListTypeOK, Begun, Circle, Anchored, Detached, ~DoubleUnlink',
         NEW x \in Deletion, Unlink(x)
  PROVE  (Circle /\ Anchored /\ Detached)'
<1> USE NilAssumption, DeletionAssumption
<1> DEFINE n == Len(order)
           e == x[1]
<1>1. /\ n \in Nat /\ \A i \in 1..n : order[i] \in Elem
      /\ order = <<>> <=> n = 0
  BY ListElems, EmptyList DEF ListTypeOK
<1>2. e \in Elem /\ e \in elems /\ del' = [del EXCEPT ![x] = "unlinked"]
      /\ elems' = elems
  BY DEF Unlink, MayDelete
<1>3. \A y \in Deletion \ {x} : del'[y] = del[y]
  BY <1>2 DEF ListTypeOK
<1>4. del[x] = "idle" /\ del'[x] = "unlinked"
  BY <1>2 DEF Unlink, MayDelete, ListTypeOK
<1>5. e \in Linked
  BY <1>2, <1>3, <1>4 DEF Linked, DoubleUnlink, Unlinked
<1>6. Linked' = Linked \ {e} /\ Linked \subseteq Elem
  BY <1>2, <1>3, <1>4 DEF Linked, Unlinked, ListTypeOK
<1>7. \A f \in Elem : Stopped(f)' <=> Stopped(f)
  BY <1>3, <1>4 DEF Stopped, Closed
<1>8. PICK k \in 1..n : order[k] = e
  BY <1>2, <1>5 DEF Circle
<1>9. /\ order' \in Seq(Elem) /\ Len(order') = n - 1
      /\ \A i \in 1..(n - 1) :
           order'[i] = IF i < k THEN order[i] ELSE order[i + 1]
  <2>1. \A i, j \in 1..Len(order) : order[i] = order[j] => i = j
    BY DEF Circle
  <2>2. order \in Seq(Elem) /\ order' = Without(order, order[k])
    BY <1>8 DEF Unlink, ListTypeOK
  <2> QED BY ONLY <2>1, <2>2, k \in 1..n, WithoutAt
<1>10. /\ next[e] = order[After(k, n)] /\ prev[e] = order[Before(k, n)]
       /\ After(k, n) \in 1..n /\ Before(k, n) \in 1..n
  BY <1>1, <1>8 DEF Circle, After, Before
<1>11. \A i, j \in 1..(n - 1) : order'[i] = order'[j] => i = j
  BY <1>1, <1>9 DEF Circle
<1>12. \A f \in Elem : f \in Linked' <=> \E i \in 1..(n - 1) : order'[i] = f
  <2> TAKE f \in Elem
  <2>1. ASSUME f \in Linked' PROVE \E i \in 1..(n - 1) : order'[i] = f
    <3>1. PICK j \in 1..n : order[j] = f
      BY <2>1, <1>6 DEF Circle
    <3>2. j # k
      BY <2>1, <3>1, <1>6, <1>8
    <3>3. CASE j < k
      BY <3>3, <3>1, <1>1, <1>9
    <3>4. CASE j > k
      <4>1. j - 1 \in 1..(n - 1) /\ ~(j - 1 < k) /\ (j - 1) + 1 = j
        BY <3>4, <1>1
      <4> QED BY <4>1, <3>1, <1>9
    <3> QED BY <3>2, <3>3, <3>4, <1>1
  <2>2. ASSUME NEW i \in 1..(n - 1), order'[i] = f PROVE f \in Linked'
    <3>1. PICK j \in 1..n : j # k /\ order[j] = f
      BY <2>2, <1>1, <1>9
    <3> QED BY <3>1, <1>6, <1>8 DEF Circle
  <2> QED BY <2>1, <2>2
<1>13. CASE UnlinkSole(x)
  <2>1. n = 1
    <3>1. order[After(k, n)] = order[k]
      BY <1>13, <1>8, <1>10 DEF UnlinkSole
    <3>2. After(k, n) = k
      BY <3>1, <1>10 DEF Circle
    <3>3. k = n
      BY <3>2, <1>1, <1>8 DEF After
    <3> QED BY <3>2, <3>3 DEF After
  <2>2. Circle'
    BY <2>1, <1>9, <1>11, <1>12 DEF Circle
  <2>3. Anchored'
    <3>1. order' = <<>>
      BY <2>1, <1>9, EmptyList
    <3> QED BY <3>1, <1>13 DEF Anchored, UnlinkSole
  <2>4. Detached'
    BY <1>2, <1>7, <1>13 DEF Detached, UnlinkSole
  <2> QED BY <2>2, <2>3, <2>4
<1>14. CASE UnlinkInner(x)
  <2>1. n > 1
    BY <1>14, <1>1, <1>8, <1>10 DEF UnlinkInner, After
  <2> DEFINE p == Before(k, n)
             q == After(k, n)
  <2>2. p \in 1..n /\ q \in 1..n /\ p # k /\ q # k
    BY <2>1, <1>1, <1>10 DEF After, Before
  <2>3. /\ next' = [next EXCEPT ![order[p]] = order[q]]
        /\ prev' = [prev EXCEPT ![order[q]] = order[p]]
    BY <1>14, <1>10 DEF UnlinkInner
  <2>4. /\ next'[order[p]] = order[q]
        /\ \A f \in Elem \ {order[p]} : next'[f] = next[f]
        /\ prev'[order[q]] = order[p]
        /\ \A f \in Elem \ {order[q]} : prev'[f] = prev[f]
    <3>1. next \in [Elem -> Pointer] /\ prev \in [Elem -> Pointer]
      BY DEF ListTypeOK
    <3> QED BY <3>1, <2>2, <2>3, <1>1
  <2>5. Circle'
    <3> DEFINE old(i) == IF i < k THEN i ELSE i + 1
    <3> SUFFICES ASSUME NEW i \in 1..(n - 1)
                 PROVE  /\ next'[order'[i]] = order'[After(i, n - 1)]
                        /\ prev'[order'[i]] = order'[Before(i, n - 1)]
      BY <1>9, <1>11, <1>12 DEF Circle
    <3>1. old(i) \in 1..n /\ old(i) # k /\ order'[i] = order[old(i)]
      BY <1>1, <1>9
    <3>2. /\ After(i, n - 1) \in 1..(n - 1)
          /\ order'[After(i, n - 1)] = order[old(After(i, n - 1))]
      BY <1>1, <1>9, <2>1 DEF After
    <3>3. /\ Before(i, n - 1) \in 1..(n - 1)
          /\ order'[Before(i, n - 1)] = order[old(Before(i, n - 1))]
      BY <1>1, <1>9, <2>1 DEF Before
    <3>4. next'[order'[i]] = order'[After(i, n - 1)]
      <4>1. CASE old(i) = p
        <5>1. old(After(i, n - 1)) = q
          BY <4>1, <1>1, <2>1 DEF After, Before
        <5> QED BY <4>1, <5>1, <3>1, <3>2, <2>4
      <4>2. CASE old(i) # p
        <5>1. old(After(i, n - 1)) = After(old(i), n)
          BY <4>2, <1>1, <2>1, <3>1 DEF After, Before
        <5>2. order[old(i)] # order[p] /\ order[old(i)] \in Elem
          BY <4>2, <3>1, <2>2, <1>1 DEF Circle
        <5>3. next'[order[old(i)]] = order[After(old(i), n)]
          BY <5>2, <3>1, <2>4 DEF Circle
        <5> QED BY <5>1, <5>3, <3>1, <3>2
      <4> QED BY <4>1, <4>2
    <3>5. prev'[order'[i]] = order'[Before(i, n - 1)]
      <4>1. CASE old(i) = q
        <5>1. old(Before(i, n - 1)) = p
          BY <4>1, <1>1, <2>1 DEF After, Before
        <5> QED BY <4>1, <5>1, <3>1, <3>3, <2>4
      <4>2. CASE old(i) # q
        <5>1. old(Before(i, n - 1)) = Before(old(i), n)
          BY <4>2, <1>1, <2>1, <3>1 DEF After, Before
        <5>2. order[old(i)] # order[q] /\ order[old(i)] \in Elem
          BY <4>2, <3>1, <2>2, <1>1 DEF Circle
        <5>3. prev'[order[old(i)]] = order[Before(old(i), n)]
          BY <5>2, <3>1, <2>4 DEF Circle
        <5> QED BY <5>1, <5>3, <3>1, <3>3
      <4> QED BY <4>1, <4>2
    <3> QED BY <3>4, <3>5
  <2>6. Anchored'
    <3>1. order' # <<>> /\ 1 \in 1..(n - 1) /\ n - 1 \in 1..(n - 1)
      BY <2>1, <1>1, <1>9, EmptyList
    <3>2. head = order[1] /\ tail = order[n] /\ curr \in Linked
      BY <1>1, <2>1 DEF Anchored
    <3>3. order[p] \in Linked \ {e} /\ order[q] \in Linked \ {e}
      BY <2>2, <1>1, <1>8 DEF Circle
    <3>4. curr' \in Linked'
      BY <1>14, <1>6, <1>10, <3>2, <3>3
      DEF UnlinkInner, CursorOff, HeadOff, TailOff
    <3>5. head' = order'[1]
      <4>1. CASE k = 1
        <5>1. head' = next[e]
          BY <4>1, <1>14, <1>8, <3>2
          DEF UnlinkInner, CursorOff, HeadOff, TailOff
        <5>2. next[e] = order[2]
          BY <4>1, <1>1, <1>10, <2>1 DEF After
        <5>3. order'[1] = order[2]
          BY <4>1, <1>9, <3>1
        <5> QED BY <5>1, <5>2, <5>3
      <4>2. CASE k # 1
        <5>1. order[1] # e
          BY <4>2, <1>1, <1>8, <2>1 DEF Circle
        <5> QED BY <4>2, <5>1, <1>14, <1>1, <1>9, <3>1, <3>2
                DEF UnlinkInner, CursorOff, HeadOff, TailOff
      <4> QED BY <4>1, <4>2
    <3>6. tail' = order'[n - 1]
      <4>1. CASE k = n
        <5>1. tail' = prev[e]
          BY <4>1, <1>14, <1>8, <3>2
          DEF UnlinkInner, CursorOff, HeadOff, TailOff
        <5>2. prev[e] = order[n - 1]
          BY <4>1, <1>1, <1>10, <2>1 DEF Before
        <5>3. order'[n - 1] = order[n - 1]
          BY <4>1, <1>1, <1>9, <3>1
        <5> QED BY <5>1, <5>2, <5>3
      <4>2. CASE k # n
        <5>1. order[n] # e
          BY <4>2, <1>1, <1>8, <2>1 DEF Circle
        <5>2. ~(n - 1 < k) /\ (n - 1) + 1 = n
          BY <4>2, <1>1
        <5> QED BY <5>1, <5>2, <1>14, <1>9, <3>1, <3>2
                DEF UnlinkInner, CursorOff, HeadOff, TailOff
      <4> QED BY <4>1, <4>2
    <3> QED BY <3>1, <3>4, <3>5, <3>6, <1>9 DEF Anchored
  <2>7. Detached'
    <3> SUFFICES ASSUME NEW f \in Elem, f \notin elems' \/ Stopped(f)'
                 PROVE  next'[f] = Nil /\ prev'[f] = Nil
      BY DEF Detached
    <3>1. f \notin elems \/ Stopped(f)
      BY <1>2, <1>7
    <3>2. f \notin Linked
      BY <3>1 DEF Linked, Stopped, Closed, Unlinked
    <3>3. f # order[p] /\ f # order[q]
      BY <3>2, <2>2, <1>1 DEF Circle
    <3> QED BY <3>1, <3>3, <2>4 DEF Detached
  <2> QED BY <2>5, <2>6, <2>7
<1> QED BY <1>13, <1>14 DEF Unlink

(* The second critical section of Delete touches no linked element.        *)
LEMMA CloseKeepsRing ==
  ASSUME ListTypeOK, Circle, Anchored, Detached,
         NEW x \in Deletion, CloseStop(x)
  PROVE  (Circle /\ Anchored /\ Detached)'
<1> USE NilAssumption, DeletionAssumption
<1> DEFINE e == x[1]
<1>1. /\ order' = order /\ head' = head /\ tail' = tail /\ curr' = curr
      /\ elems' = elems
      /\ next' = [next EXCEPT ![e] = Nil] /\ prev' = [prev EXCEPT ![e] = Nil]
  BY DEF CloseStop
<1>2. /\ del[x] = "unlinked" /\ del'[x] = "closed"
      /\ \A y \in Deletion \ {x} : del'[y] = del[y]
  BY DEF CloseStop, ListTypeOK
<1>3. Linked' = Linked
  BY <1>1, <1>2 DEF Linked, Unlinked
<1>4. e \notin Linked
  BY <1>2 DEF Linked, Unlinked
<1>5. \A i \in 1..Len(order) : order[i] \in Elem /\ order[i] # e
  BY <1>4, ListElems DEF Circle, ListTypeOK
<1>6. next \in [Elem -> Pointer] /\ prev \in [Elem -> Pointer]
  BY DEF ListTypeOK
<1>7. Circle'
  BY <1>1, <1>3, <1>5, <1>6 DEF Circle
<1>8. Anchored'
  BY <1>1, <1>3 DEF Anchored
<1>9. Detached'
  BY <1>1, <1>2, <1>6 DEF Detached, Stopped, Closed
<1> QED BY <1>7, <1>8, <1>9

(* Next moves the cursor along the circle, or within the elements that     *)
(* have left it.                                                           *)
LEMMA NextKeepsRing ==
  ASSUME ListTypeOK, Circle, Anchored, Detached,
         NEW r \in Elem, NextElem(r), UNCHANGED elems, DeleteKept
  PROVE  (Circle /\ Anchored /\ Detached)'
<1>1. Linked' = Linked /\ \A f : Stopped(f)' <=> Stopped(f)
  BY DEF DeleteKept, Linked, Stopped
<1>2. /\ UNCHANGED <<head, tail, next, prev, order>>
      /\ r = curr /\ curr' = next[curr]
  BY DEF NextElem
<1>3. Circle'
  BY <1>1, <1>2 DEF Circle
<1>4. Detached'
  BY <1>1, <1>2 DEF Detached
<1>5. Anchored'
  <2>1. CASE order = <<>>
    BY <2>1, <1>2 DEF Anchored
  <2>2. CASE order # <<>>
    <3>1. Len(order) \in Nat
      BY ListElems DEF ListTypeOK
    <3>2. PICK i \in 1..Len(order) : order[i] = curr
      BY <2>2, <1>2 DEF Anchored, Circle
    <3>3. After(i, Len(order)) \in 1..Len(order)
      BY <3>1 DEF After
    <3>4. next[curr] = order[After(i, Len(order))]
      BY <3>2 DEF Circle
    <3>5. next[curr] \in Linked
      BY <3>3, <3>4, ListElems DEF Circle, ListTypeOK
    <3> QED BY <2>2, <3>5, <1>1, <1>2 DEF Anchored
  <2> QED BY <2>1, <2>2
<1> QED BY <1>3, <1>4, <1>5

(* The early return of Delete leaves the list alone.                       *)
LEMMA EarlyReturnKeepsRing ==
  ASSUME ListTypeOK, Circle, Anchored, Detached,
         NEW x \in Deletion, AlreadyDeleted(x)
  PROVE  (Circle /\ Anchored /\ Detached)'
<1>1. /\ del[x] = "idle" /\ del'[x] = "skipped"
      /\ \A y \in Deletion \ {x} : del'[y] = del[y]
  BY DEF AlreadyDeleted, MayDelete, ListTypeOK
<1>2. UNCHANGED <<elems, head, tail, curr, next, prev, order>>
  BY DEF AlreadyDeleted, links
<1>3. Linked' = Linked
  BY <1>1, <1>2 DEF Linked, Unlinked
<1>4. \A f : Stopped(f)' <=> Stopped(f)
  BY <1>1 DEF Stopped, Closed
<1> QED BY <1>2, <1>3, <1>4 DEF Circle, Anchored, Detached

(* A step that leaves the list alone.                                      *)
LEMMA FrameRing ==
  ASSUME Circle, Anchored, Detached,
         UNCHANGED <<elems, head, tail, curr, next, prev, order>>, DeleteKept
  PROVE  (Circle /\ Anchored /\ Detached)'
<1>1. Linked' = Linked /\ \A f : Stopped(f)' <=> Stopped(f)
  BY DEF DeleteKept, Linked, Stopped
<1> QED BY <1>1 DEF Circle, Anchored, Detached

(* Delete is called on added elements only.                                *)
LEMMA BegunStep ==
  ASSUME PoolTypeOK, Begun, PoolStep
  PROVE  Begun'
<1>1. ASSUME NEW e \in Elem, Add(e) PROVE Begun'
  BY <1>1 DEF Add, Begun
<1>2. ASSUME NEW x \in Deletion,
             Unlink(x) \/ AlreadyDeleted(x) \/ CloseStop(x)
      PROVE  Begun'
  BY <1>2 DEF Unlink, AlreadyDeleted, CloseStop, MayDelete, Begun, PoolTypeOK
<1>3. CASE UNCHANGED <<elems, del>>
  BY <1>3 DEF Begun
<1> QED BY <1>1, <1>2, <1>3 DEF PoolStep, PoolServe, CloseAgain

(* The inductive invariant: types, the ring, and that Delete is called on  *)
(* added elements only.                                                    *)
THEOREM PoolInvariant == PoolSpec => []PoolInv
<1> USE NilAssumption, DeletionAssumption
<1>1. PoolInit => PoolInv
  <2> SUFFICES ASSUME PoolInit PROVE PoolInv
    OBVIOUS
  <2>1. PoolTypeOK /\ Begun
    BY DEF PoolInit, PoolTypeOK, Pointer, Begun
  <2>2. Len(order) = 0 /\ Linked = {}
    BY EmptyList DEF PoolInit, Linked
  <2>3. Circle /\ Anchored /\ Detached
    BY <2>2 DEF PoolInit, Circle, Anchored, Detached
  <2> QED BY <2>1, <2>3 DEF PoolInv, RingOK, PoolPanics, PoolInit
<1>2. ASSUME PoolInv, PoolTypeOK', PoolStep PROVE PoolInv'
  <2> USE <1>2 DEF PoolInv
  <2>0. ListTypeOK
    BY DEF PoolTypeOK, ListTypeOK
  <2>1. CASE DoubleUnlink'
    BY <2>1, BegunStep DEF RingOK, PoolPanics
  <2>2. CASE ~DoubleUnlink'
    <3>1. Circle /\ Anchored /\ Detached /\ ~DoubleUnlink
      BY <2>2, DoubleUnlinkStable DEF RingOK
    <3>2. ASSUME NEW e \in Elem, Add(e)
          PROVE  (Circle /\ Anchored /\ Detached)' /\ panic' = "none"
      BY <2>0, <3>1, <3>2, AddKeepsRing DEF PoolStep, Add
    <3>3. ASSUME NEW r \in Elem, NextElem(r), UNCHANGED <<elems, del, panic>>
          PROVE  (Circle /\ Anchored /\ Detached)' /\ panic' = "none"
      BY <2>0, <3>1, <3>3, NextKeepsRing DEF PoolStep, DeleteKept, Unlinked, Closed
    <3>4. ASSUME NEW x \in Deletion, Unlink(x)
          PROVE  (Circle /\ Anchored /\ Detached)' /\ panic' = "none"
      BY <2>0, <2>2, <3>1, <3>4, UnlinkKeepsRing DEF PoolStep, Unlink
    <3>5. ASSUME NEW x \in Deletion, AlreadyDeleted(x)
          PROVE  (Circle /\ Anchored /\ Detached)' /\ panic' = "none"
      BY <2>0, <3>1, <3>5, EarlyReturnKeepsRing DEF PoolStep, AlreadyDeleted
    <3>6. ASSUME NEW x \in Deletion, CloseStop(x)
          PROVE  (Circle /\ Anchored /\ Detached)' /\ panic' = "none"
      BY <2>0, <3>1, <3>6, CloseKeepsRing DEF PoolStep, CloseStop
    <3>7. ASSUME NextNil, UNCHANGED <<elems, del>>
          PROVE  (Circle /\ Anchored /\ Detached)'
                 /\ panic' = "nil cursor" /\ order' = <<>>
      <4>1. order = <<>>
        BY <3>1, <3>7 DEF NextNil, Anchored, Linked, PoolTypeOK
      <4>2. UNCHANGED <<elems, head, tail, curr, next, prev, order, del>>
        BY <3>7 DEF NextNil, links
      <4> QED BY <3>1, <3>7, <4>1, <4>2, FrameRing DEF NextNil, Crash, DeleteKept, Unlinked, Closed
    <3>8. ASSUME NEW x \in Deletion PROVE ~CloseAgain(x)
      BY <3>1 DEF CloseAgain, Stopped, Closed, Unlinked, DoubleUnlink
    <3> QED
      BY <1>2, <3>2, <3>3, <3>4, <3>5, <3>6, <3>7, <3>8, BegunStep
      DEF PoolStep, PoolServe, RingOK, PoolPanics
  <2> QED BY <2>1, <2>2
<1>3. ASSUME PoolInv, UNCHANGED poolVars PROVE PoolInv'
  <2> USE <1>3 DEF PoolInv
  <2>1. UNCHANGED <<elems, head, tail, curr, next, prev, order, del, panic>>
    BY DEF poolVars, links
  <2>2. PoolTypeOK' /\ Begun'
    BY <2>1 DEF PoolTypeOK, Begun
  <2>3. (DoubleUnlink' <=> DoubleUnlink) /\ RingOK'
    BY <2>1, FrameRing DEF RingOK, DoubleUnlink, DeleteKept, Unlinked, Closed
  <2> QED BY <2>1, <2>2, <2>3 DEF PoolPanics
<1> QED BY <1>1, <1>2, <1>3, PoolTypeCorrect, PTL DEF PoolSpec

(* Whatever Add, Next and the two sections of Delete interleave, the list  *)
(* stays one circle of the linked elements, until two calls of Delete      *)
(* unlink the same element.                                                *)
THEOREM RingStaysWellFormed == PoolSpec => []RingOK
BY PoolInvariant, PTL DEF PoolInv

(* The two panics of the pool have no other cause than an empty list and   *)
(* two calls of Delete that unlink the same element.                       *)
THEOREM PoolPanicsExplained == PoolSpec => []PoolPanics
BY PoolInvariant, PTL DEF PoolInv

=============================================================================
