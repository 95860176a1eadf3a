-------------------------- MODULE StructureProofs --------------------------
(***************************************************************************)
(* Binary heaps, memory pools and transactions, for every value of the     *)
(* constants.                                                              *)
(*                                                                         *)
(* The macros of heap.h keep the heap order and the tracked positions, for *)
(* heaps of every size and every assignment of keys.  The order alone is   *)
(* not inductive, as the loops break it at the position they are at: the   *)
(* proof carries their loop invariant (LoopOrder) and, because a timer is  *)
(* reached through its index only, the exactness of all the positions.     *)
(*                                                                         *)
(* Memory pools: each chunk is in one chain, blocks lie in the order of    *)
(* their allocation before the free space of the last chunk, and the       *)
(* chains of every saved state are ends of the current ones (MempoolInv).  *)
(*                                                                         *)
(* Transactions: identifiers grow, pools form trees along the sub-pools,   *)
(* and the identifier of an open transaction divides memory, pools and     *)
(* resources into what is older and what was made since (TransInv).        *)
(***************************************************************************)
EXTENDS Heap, Pools, ListTheorems, TLAPS

-----------------------------------------------------------------------------
(* Binary heaps.                                                           *)

IInv ==
  /\ TypeOK
  /\ PositionsExact
  /\ Control
  /\ HeapOrder
  /\ LoopOrder

-----------------------------------------------------------------------------

\* The positions of a parent and of its children
LEMMA ParentFacts ==
  ASSUME NEW k \in Nat, k >= 2
  PROVE  /\ Parent(k) \in Nat
         /\ Parent(k) >= 1
         /\ Parent(k) < k
         /\ k = 2 * Parent(k) \/ k = 2 * Parent(k) + 1
BY DEF Parent

LEMMA ParentSmall ==
  ASSUME NEW k \in Nat
  PROVE  Parent(k) \in Nat /\ Parent(k) <= k
BY DEF Parent

\* An occupied position holds a timer, which is set
LEMMA KeyType ==
  ASSUME TypeOK, PositionsExact, NEW k \in 1..Size, k <= Occupied
  PROVE  heap[k] \in Timers /\ Key(k) \in Nat /\ Key(k) > 0
<1>1. heap[k] \in Timers /\ index[heap[k]] = k
  BY DEF TypeOK, PositionsExact
<1>2. expires[heap[k]] \in 0..MaxExpires /\ expires[heap[k]] # 0
  BY <1>1 DEF TypeOK, PositionsExact
<1>. QED
  BY <1>1, <1>2, HeapAssumption DEF Key

\* Two positions never hold the same timer
LEMMA Distinct ==
  ASSUME TypeOK, PositionsExact,
         NEW a \in 1..Size, NEW b \in 1..Size,
         a <= Occupied, b <= Occupied, heap[a] = heap[b]
  PROVE  a = b
BY DEF PositionsExact

LEMMA OccupiedType ==
  ASSUME TypeOK
  PROVE  Occupied \in 0..Size /\ num <= Occupied
BY HeapAssumption DEF TypeOK, Occupied

\* MAIN_TIMER_SWAP exchanges two keys and leaves the other ones alone
LEMMA SwapKeys ==
  ASSUME TypeOK, PositionsExact,
         NEW a \in 1..Size, NEW b \in 1..Size, a <= Occupied, b <= Occupied,
         Swap(a, b), expires' = expires
  PROVE  \A k \in 1..Size : Key(k)' = IF k = a THEN Key(b)
                                      ELSE IF k = b THEN Key(a) ELSE Key(k)
BY DEF TypeOK, Swap, Key

\* MAIN_TIMER_SWAP keeps the positions exact
LEMMA SwapPositions ==
  ASSUME TypeOK, PositionsExact,
         NEW a \in 1..Size, NEW b \in 1..Size, a <= Occupied, b <= Occupied,
         Swap(a, b), expires' = expires, Occupied' = Occupied
  PROVE  /\ heap' \in [1..Size -> Timers \cup {Null}]
         /\ index' \in [Timers -> 0..Size]
         /\ \A k \in 1..Size :
              IF k <= Occupied' THEN heap'[k] # Null /\ index'[heap'[k]] = k
                                ELSE heap'[k] = Null
         /\ \A t \in Timers :
              /\ index'[t] # 0 => index'[t] <= Occupied' /\ heap'[index'[t]] = t
              /\ expires'[t] = 0 <=> index'[t] = 0
<1>. DEFINE x == heap[a]
            y == heap[b]
<1>1. x \in Timers /\ y \in Timers /\ index[x] = a /\ index[y] = b
  BY KeyType DEF PositionsExact
<1>2. heap' = [heap EXCEPT ![a] = y, ![b] = x]
  BY DEF Swap
<1>3. index' = [index EXCEPT ![x] = b, ![y] = a]
  BY DEF Swap
<1>4. heap' \in [1..Size -> Timers \cup {Null}]
  BY <1>1, <1>2 DEF TypeOK
<1>5. index' \in [Timers -> 0..Size]
  BY <1>1, <1>3 DEF TypeOK
<1>6. \A k \in 1..Size : heap'[k] = IF k = b THEN x ELSE IF k = a THEN y ELSE heap[k]
  BY <1>2 DEF TypeOK
<1>7. \A t \in Timers : index'[t] = IF t = y THEN a ELSE IF t = x THEN b ELSE index[t]
  BY <1>1, <1>3 DEF TypeOK
<1>8. x = y <=> a = b
  BY Distinct
<1>9. ASSUME NEW k \in 1..Size
      PROVE  IF k <= Occupied THEN heap'[k] # Null /\ index'[heap'[k]] = k
                              ELSE heap'[k] = Null
  <2>1. CASE k = a \/ k = b
    BY <2>1, <1>1, <1>6, <1>7, <1>8, HeapAssumption
  <2>2. CASE k # a /\ k # b /\ k <= Occupied
    <3>1. heap[k] \in Timers /\ index[heap[k]] = k /\ heap[k] # x /\ heap[k] # y
      BY <2>2, <1>1, KeyType DEF PositionsExact
    <3>. QED
      BY <2>2, <3>1, <1>6, <1>7, HeapAssumption
  <2>3. CASE k # a /\ k # b /\ ~(k <= Occupied)
    BY <2>3, <1>6 DEF PositionsExact
  <2>. QED
    BY <2>1, <2>2, <2>3
<1>10. ASSUME NEW t \in Timers
       PROVE  /\ index'[t] # 0 => index'[t] <= Occupied /\ heap'[index'[t]] = t
              /\ expires'[t] = 0 <=> index'[t] = 0
  <2>1. CASE t = x \/ t = y
    <3>1. expires[t] # 0
      BY <2>1, <1>1 DEF PositionsExact
    <3>. QED
      BY <2>1, <3>1, <1>1, <1>6, <1>7, <1>8
  <2>2. CASE t # x /\ t # y
    <3>1. index'[t] = index[t]
      BY <2>2, <1>7
    <3>2. index[t] # 0 => /\ index[t] \in 1..Size
                          /\ index[t] <= Occupied
                          /\ heap[index[t]] = t
                          /\ index[t] # a /\ index[t] # b
      BY <2>2, HeapAssumption DEF TypeOK, PositionsExact
    <3>. QED
      BY <3>1, <3>2, <1>6 DEF PositionsExact
  <2>. QED
    BY <2>1, <2>2
<1>. QED
  BY <1>4, <1>5, <1>9, <1>10

\* The epilogue of a deletion leaves the keys inside the heap alone
LEMMA FinishKeys ==
  ASSUME TypeOK, PositionsExact, Finish
  PROVE  /\ TypeOK'
         /\ PositionsExact'
         /\ num' = num /\ lo' = lo /\ pc' = "idle" /\ gone' = Null
         /\ \A k \in 1..num : Key(k)' = Key(k)
<1>0. num' = num /\ j' = j /\ lo' = lo /\ pc' = "idle"
  BY DEF Finish
<1>1. CASE gone = Null
  <2>1. UNCHANGED <<heap, expires, index, gone>>
    BY <1>1 DEF Finish
  <2>. QED
    BY <1>0, <1>1, <2>1 DEF TypeOK, PositionsExact, Occupied, Key
<1>2. CASE gone # Null
  <2>1. /\ heap' = [heap EXCEPT ![num + 1] = Null]
        /\ expires' = [expires EXCEPT ![gone] = 0]
        /\ index' = [index EXCEPT ![gone] = 0]
        /\ gone' = Null
    BY <1>2 DEF Finish
  <2>2. Occupied = num + 1 /\ Occupied' = num /\ num + 1 \in 1..Size
    BY <1>0, <1>2, <2>1, HeapAssumption DEF Occupied, TypeOK
  <2>3. gone \in Timers /\ heap[num + 1] = gone /\ index[gone] = num + 1
    BY <1>2, <2>2 DEF TypeOK, PositionsExact
  <2>4. TypeOK'
    BY <1>0, <2>1, <2>3, HeapAssumption DEF TypeOK
  <2>5. \A k \in 1..num : /\ k \in 1..Size /\ k <= Occupied
                          /\ heap'[k] = heap[k] /\ heap[k] # gone
                          /\ heap[k] \in Timers
    BY <2>1, <2>2, <2>3, KeyType, HeapAssumption DEF TypeOK, PositionsExact
  <2>6. \A k \in 1..num : Key(k)' = Key(k)
    BY <2>1, <2>5 DEF TypeOK, Key
  <2>7. ASSUME NEW k \in 1..Size
        PROVE  IF k <= num THEN heap'[k] # Null /\ index'[heap'[k]] = k
                           ELSE heap'[k] = Null
    <3>1. CASE k <= num
      BY <3>1, <2>1, <2>5, HeapAssumption DEF TypeOK, PositionsExact
    <3>2. CASE k > num
      BY <3>2, <2>1, <2>2 DEF TypeOK, PositionsExact
    <3>. QED
      BY <3>1, <3>2 DEF TypeOK
  <2>8. ASSUME NEW t \in Timers
        PROVE  /\ index'[t] # 0 => index'[t] <= num /\ heap'[index'[t]] = t
               /\ expires'[t] = 0 <=> index'[t] = 0
    <3>1. CASE t = gone
      BY <3>1, <2>1 DEF TypeOK
    <3>2. CASE t # gone
      <4>1. index'[t] = index[t] /\ expires'[t] = expires[t]
        BY <3>2, <2>1 DEF TypeOK
      <4>2. index[t] # 0 => /\ index[t] \in 1..Size /\ index[t] <= num + 1
                            /\ heap[index[t]] = t
        BY <2>2, HeapAssumption DEF TypeOK, PositionsExact
      <4>3. index[t] # 0 => index[t] \in 1..num
        BY <3>2, <4>2, <2>3, HeapAssumption DEF TypeOK
      <4>. QED
        BY <4>1, <4>2, <4>3, <2>5 DEF PositionsExact, TypeOK
    <3>. QED
      BY <3>1, <3>2
  <2>9. PositionsExact'
    BY <2>1, <2>2, <2>7, <2>8, <1>0 DEF PositionsExact
  <2>. QED
    BY <1>0, <2>1, <2>4, <2>6, <2>9
<1>. QED
  BY <1>1, <1>2

-----------------------------------------------------------------------------

\* The steps of the loops, as they change the keys

LEMMA UpStepFacts ==
  ASSUME IInv, BubbleUpStep
  PROVE  /\ Parent(j) \in 1..num /\ j \in 1..num /\ num <= Size
         /\ TypeOK' /\ PositionsExact'
         /\ num' = num /\ pc' = "up" /\ lo' = lo /\ gone' = gone
         /\ j' = Parent(j)
         /\ \A k \in 1..num : Key(k)' = IF k = Parent(j) THEN Key(j)
                                        ELSE IF k = j THEN Key(Parent(j))
                                        ELSE Key(k)
<1>. DEFINE p == Parent(j)
<1>1. j \in 1..num /\ p \in 1..num /\ p < j /\ num \in 0..Size
  BY ParentFacts DEF IInv, TypeOK, Control, BubbleUpStep
<1>2. Occupied \in 0..Size /\ num <= Occupied /\ Occupied' = Occupied
  BY OccupiedType DEF IInv, BubbleUpStep, Occupied
<1>3. p \in 1..Size /\ j \in 1..Size /\ p <= Occupied /\ j <= Occupied
  BY <1>1, <1>2, HeapAssumption
<1>4. TypeOK /\ PositionsExact /\ Swap(p, j) /\ expires' = expires
  BY DEF IInv, BubbleUpStep
<1>. HIDE DEF p
<1>5. \A k \in 1..Size : Key(k)' = IF k = p THEN Key(j)
                                   ELSE IF k = j THEN Key(p) ELSE Key(k)
  BY <1>3, <1>4, SwapKeys
<1>6. /\ heap' \in [1..Size -> Timers \cup {Null}]
      /\ index' \in [Timers -> 0..Size]
      /\ \A k \in 1..Size :
           IF k <= Occupied' THEN heap'[k] # Null /\ index'[heap'[k]] = k
                             ELSE heap'[k] = Null
      /\ \A t \in Timers :
           /\ index'[t] # 0 => index'[t] <= Occupied' /\ heap'[index'[t]] = t
           /\ expires'[t] = 0 <=> index'[t] = 0
  BY <1>2, <1>3, <1>4, SwapPositions
<1>7. num' = num /\ pc' = "up" /\ lo' = lo /\ gone' = gone /\ j' = p
  BY DEF BubbleUpStep, p
<1>8. TypeOK'
  BY <1>1, <1>3, <1>4, <1>6, <1>7 DEF TypeOK
<1>9. gone # Null => heap'[num + 1] = heap[num + 1]
  BY <1>1, <1>4, HeapAssumption DEF Swap, TypeOK
<1>10. PositionsExact'
  BY <1>4, <1>6, <1>7, <1>9 DEF PositionsExact
<1>. QED
  BY <1>1, <1>5, <1>7, <1>8, <1>10, HeapAssumption DEF p

LEMMA DownStepFacts ==
  ASSUME IInv, BubbleDownStep
  PROVE  /\ j \in 1..num /\ LowerChild \in 1..num /\ num <= Size
         /\ TypeOK' /\ PositionsExact'
         /\ num' = num /\ pc' = "down" /\ lo' = lo /\ gone' = gone
         /\ j' = LowerChild
         /\ LowerChild = 2 * j \/ LowerChild = 2 * j + 1
         /\ Key(LowerChild) <= Key(j)
         /\ Key(LowerChild) <= Key(2 * j)
         /\ 2 * j # num => Key(LowerChild) <= Key(2 * j + 1)
         /\ \A k \in 1..num : Key(k)' = IF k = j THEN Key(LowerChild)
                                        ELSE IF k = LowerChild THEN Key(j)
                                        ELSE Key(k)
<1>. DEFINE l == LowerChild
<1>1. j \in 1..num /\ num \in 0..Size /\ 2 * j <= num
  BY DEF IInv, TypeOK, BubbleDownStep, StopsDown
<1>2. Occupied \in 0..Size /\ num <= Occupied /\ Occupied' = Occupied
  BY OccupiedType DEF IInv, BubbleDownStep, Occupied
<1>3. \A k \in 1..num : k \in 1..Size /\ k <= Occupied /\ Key(k) \in Nat
  BY <1>1, <1>2, KeyType, HeapAssumption DEF IInv
<1>4. l \in 1..num /\ (l = 2 * j \/ l = 2 * j + 1)
  BY <1>1 DEF LowerChild
<1>5. Key(l) <= Key(2 * j) /\ (2 * j # num => Key(l) <= Key(2 * j + 1))
  BY <1>1, <1>3 DEF LowerChild, Less
<1>6. Key(l) <= Key(j)
  <2>1. Key(2 * j) <= Key(j) \/ (2 * j # num /\ Key(2 * j + 1) <= Key(j))
    BY <1>1, <1>3 DEF BubbleDownStep, StopsDown, Less
  <2>. HIDE DEF l
  <2>. QED
    BY <2>1, <1>1, <1>3, <1>4, <1>5
<1>7. TypeOK /\ PositionsExact /\ Swap(j, l) /\ expires' = expires
  BY DEF IInv, BubbleDownStep
<1>8. num' = num /\ pc' = "down" /\ lo' = lo /\ gone' = gone /\ j' = l
  BY DEF BubbleDownStep
<1>. HIDE DEF l
<1>9. \A k \in 1..Size : Key(k)' = IF k = j THEN Key(l)
                                   ELSE IF k = l THEN Key(j) ELSE Key(k)
  BY <1>1, <1>3, <1>4, <1>7, SwapKeys
<1>10. /\ heap' \in [1..Size -> Timers \cup {Null}]
       /\ index' \in [Timers -> 0..Size]
       /\ \A k \in 1..Size :
            IF k <= Occupied' THEN heap'[k] # Null /\ index'[heap'[k]] = k
                              ELSE heap'[k] = Null
       /\ \A t \in Timers :
            /\ index'[t] # 0 => index'[t] <= Occupied' /\ heap'[index'[t]] = t
            /\ expires'[t] = 0 <=> index'[t] = 0
  BY <1>1, <1>2, <1>3, <1>4, <1>7, SwapPositions
<1>11. TypeOK'
  BY <1>3, <1>4, <1>7, <1>8, <1>10, HeapAssumption DEF TypeOK
<1>12. gone # Null => heap'[num + 1] = heap[num + 1]
  BY <1>1, <1>4, <1>7, HeapAssumption DEF Swap, TypeOK
<1>13. PositionsExact'
  BY <1>7, <1>8, <1>10, <1>12 DEF PositionsExact
<1>. QED
  BY <1>1, <1>3, <1>4, <1>5, <1>6, <1>8, <1>9, <1>11, <1>13, HeapAssumption DEF l

-----------------------------------------------------------------------------

\* One turn of HEAP_BUBBLE_UP_J moves the only disorder to the parent
LEMMA UpStepOrder ==
  ASSUME IInv, BubbleUpStep
  PROVE  IInv'
<1>0. PICK p \in 1..num : p = Parent(j)
  BY UpStepFacts
<1>. DEFINE K(k) == Key(k)
            L(k) == IF k = p THEN K(j) ELSE IF k = j THEN K(p) ELSE K(k)
<1>1. /\ p \in 1..num /\ j \in 1..num /\ num <= Size
      /\ TypeOK' /\ PositionsExact'
      /\ num' = num /\ pc' = "up" /\ lo' = lo /\ gone' = gone /\ j' = p
      /\ \A k \in 1..num : Key(k)' = L(k)
  BY <1>0, UpStepFacts
<1>2. /\ num \in 0..Size /\ j > 1 /\ pc = "up" /\ K(j) <= K(p) /\ lo = 1
      /\ \A k \in 1..num : K(k) \in Nat
  <2>1. \A k \in 1..num : K(k) \in Nat
    BY KeyType, OccupiedType, HeapAssumption DEF IInv, TypeOK
  <2>. QED
    BY <1>0, <1>1, <2>1 DEF IInv, TypeOK, BubbleUpStep, Less, Control
<1>3. /\ \A k \in 2..num : k # j => K(Parent(k)) <= K(k)
      /\ \A k \in 2..num : Parent(k) = j => K(p) <= K(k)
  BY <1>0, <1>2 DEF IInv, LoopOrder, InOrder
<1>4. \A k \in 2..num : /\ Parent(k) \in 1..num /\ Parent(k) < k
                        /\ Key(Parent(k))' = L(Parent(k)) /\ Key(k)' = L(k)
  BY <1>1, <1>2, ParentFacts DEF Parent
<1>5. p < j
  BY <1>0, <1>1, <1>2, ParentFacts
<1>. HIDE DEF K
<1>6. ASSUME NEW k \in 2..num, k # p
      PROVE  L(Parent(k)) <= L(k)
  <2>1. k \in 1..num /\ Parent(k) \in 1..num /\ Parent(k) < k
    BY <1>4, <1>2
  <2>. QED
    BY <1>0, <1>1, <1>2, <1>3, <1>5, <1>6, <2>1
<1>7. ASSUME NEW k \in 2..num, Parent(k) = p, p > 1
      PROVE  L(Parent(p)) <= L(k)
  <2>1. p \in 2..num /\ Parent(p) \in 1..num /\ Parent(p) < p
    BY <1>1, <1>2, <1>4, <1>7
  <2>2. K(Parent(p)) <= K(p)
    BY <2>1, <1>3, <1>5
  <2>3. k # j => K(p) <= K(k)
    BY <1>3, <1>7
  <2>4. p < k
    BY <1>4, <1>7
  <2>. QED
    BY <1>1, <1>2, <1>5, <2>1, <2>2, <2>3, <2>4
<1>8. LoopOrder'
  <2>1. \A k \in 2..num : k # p => InOrder(k)'
    BY <1>4, <1>6 DEF InOrder, Parent
  <2>2. \A k \in 2..num : Parent(k) = p /\ p > 1 => Key(Parent(p))' <= Key(k)'
    BY <1>1, <1>2, <1>4, <1>7
  <2>. QED
    BY <1>1, <2>1, <2>2 DEF LoopOrder, Parent
<1>. QED
  BY <1>1, <1>2, <1>8 DEF IInv, HeapOrder, Control

\* One turn of HEAP_BUBBLE_DOWN_J moves the disorder to the lower child
LEMMA DownStepOrder ==
  ASSUME IInv, BubbleDownStep
  PROVE  IInv'
<1>0. PICK l \in 1..num : l = LowerChild
  BY DownStepFacts
<1>. DEFINE K(k) == Key(k)
            L(k) == IF k = j THEN K(l) ELSE IF k = l THEN K(j) ELSE K(k)
<1>1. /\ j \in 1..num /\ l \in 1..num /\ num <= Size
      /\ TypeOK' /\ PositionsExact'
      /\ num' = num /\ pc' = "down" /\ lo' = lo /\ gone' = gone /\ j' = l
      /\ l = 2 * j \/ l = 2 * j + 1
      /\ K(l) <= K(j) /\ K(l) <= K(2 * j)
      /\ 2 * j # num => K(l) <= K(2 * j + 1)
      /\ \A k \in 1..num : Key(k)' = L(k)
  BY <1>0, DownStepFacts
<1>2. /\ num \in 0..Size /\ pc = "down" /\ lo \in 1..Size /\ lo <= j
      /\ \A k \in 1..num : K(k) \in Nat
  <2>1. \A k \in 1..num : K(k) \in Nat
    BY KeyType, OccupiedType, HeapAssumption DEF IInv, TypeOK
  <2>. QED
    BY <1>1, <2>1 DEF IInv, TypeOK, BubbleDownStep, Control
<1>3. /\ \A k \in 2..num :
           Parent(k) # j /\ Parent(k) >= lo => K(Parent(k)) <= K(k)
      /\ \A k \in 2..num :
           Parent(k) = j /\ Parent(j) >= lo => K(Parent(j)) <= K(k)
  BY <1>2 DEF IInv, LoopOrder, InOrder
<1>4. \A k \in 2..num : /\ Parent(k) \in 1..num /\ Parent(k) < k
                        /\ k = 2 * Parent(k) \/ k = 2 * Parent(k) + 1
                        /\ Key(Parent(k))' = L(Parent(k)) /\ Key(k)' = L(k)
  BY <1>1, <1>2, ParentFacts DEF Parent
<1>5. Parent(l) = j /\ l \in 2..num /\ j < l
  BY <1>1, <1>2 DEF Parent
<1>. HIDE DEF K
<1>6. ASSUME NEW k \in 2..num, Parent(k) # l, Parent(k) >= lo
      PROVE  L(Parent(k)) <= L(k)
  <2>1. k \in 1..num /\ Parent(k) \in 1..num /\ Parent(k) < k
    BY <1>4, <1>2
  <2>2. CASE k = j
    <3>1. K(Parent(j)) <= K(l)
      BY <2>2, <1>3, <1>5, <1>6
    <3>. QED
      BY <3>1, <2>1, <2>2, <1>5
  <2>3. CASE k # j /\ Parent(k) = j
    BY <2>1, <2>3, <1>1, <1>2, <1>4
  <2>4. CASE k # j /\ Parent(k) # j
    BY <2>1, <2>4, <1>3, <1>5, <1>6
  <2>. QED
    BY <2>2, <2>3, <2>4
<1>7. ASSUME NEW k \in 2..num, Parent(k) = l
      PROVE  L(j) <= L(k)
  <2>1. K(l) <= K(k)
    BY <1>1, <1>2, <1>3, <1>5, <1>7
  <2>2. k # j /\ k # l
    BY <1>4, <1>5, <1>7
  <2>. QED
    BY <2>1, <2>2
<1>8. LoopOrder'
  <2>1. \A k \in 2..num : Parent(k) # l /\ Parent(k) >= lo => InOrder(k)'
    BY <1>4, <1>6 DEF InOrder, Parent
  <2>2. \A k \in 2..num :
          Parent(k) = l /\ Parent(l) >= lo => Key(Parent(l))' <= Key(k)'
    BY <1>1, <1>4, <1>5, <1>7
  <2>. QED
    BY <1>1, <2>1, <2>2 DEF LoopOrder, Parent
<1>. QED
  BY <1>1, <1>2, <1>5, <1>8 DEF IInv, HeapOrder, Control

LEMMA NatKeys ==
  ASSUME IInv
  PROVE  /\ num \in 0..Size
         /\ \A k \in 1..num : /\ k \in 1..Size /\ k <= Occupied
                              /\ heap[k] \in Timers
                              /\ Key(k) \in Nat /\ Key(k) > 0
BY KeyType, OccupiedType, HeapAssumption DEF IInv, TypeOK

\* The end of HEAP_BUBBLE_UP_J leaves no disorder
LEMMA UpDoneOrder ==
  ASSUME IInv, BubbleUpDone
  PROVE  IInv'
<1>1. /\ TypeOK' /\ PositionsExact'
      /\ num' = num /\ lo' = lo /\ pc' = "idle" /\ gone' = Null
      /\ \A k \in 1..num : Key(k)' = Key(k)
  BY FinishKeys DEF IInv, BubbleUpDone
<1>2. pc = "up" /\ lo = 1 /\ (j > 1 => Key(Parent(j)) < Key(j))
  BY DEF IInv, Control, BubbleUpDone, Less
<1>3. \A k \in 2..num : k # j => Key(Parent(k)) <= Key(k)
  BY <1>2 DEF IInv, LoopOrder, InOrder
<1>4. \A k \in 2..num : Parent(k) \in 1..num
  BY NatKeys, ParentFacts
<1>5. \A k \in 2..num : Key(Parent(k)) <= Key(k)
  BY <1>2, <1>3, <1>4, NatKeys
<1>6. \A k \in 2..num : InOrder(k)'
  BY <1>1, <1>4, <1>5, NatKeys DEF InOrder, Parent
<1>. QED
  BY <1>1, <1>2, <1>6 DEF IInv, HeapOrder, LoopOrder, Control

\* The end of HEAP_BUBBLE_DOWN_J puts the children of j in order, too; those
\* of lo - 1 are the next concern of HEAP_INIT
LEMMA DownDoneOrder ==
  ASSUME IInv, BubbleDownDone
  PROVE  IInv'
<1>1. /\ pc = "down" /\ j \in 1..Size /\ lo \in 1..Size /\ lo <= j
      /\ num \in 0..Size
  BY DEF IInv, TypeOK, Control, BubbleDownDone
<1>2. \A k \in 2..num : /\ k \in 1..num /\ Parent(k) \in 1..num /\ Parent(k) < k
                        /\ k = 2 * Parent(k) \/ k = 2 * Parent(k) + 1
  BY NatKeys, ParentFacts
<1>3. \A k \in 2..num : Parent(k) # j /\ Parent(k) >= lo => Key(Parent(k)) <= Key(k)
  BY <1>1 DEF IInv, LoopOrder, InOrder
<1>4. \A k \in 2..num : Parent(k) = j => Key(j) <= Key(k)
  <2>1. 2 * j <= num => /\ Key(j) < Key(2 * j)
                        /\ 2 * j # num => Key(j) < Key(2 * j + 1)
    BY DEF BubbleDownDone, StopsDown, Less
  <2>2. SUFFICES ASSUME NEW k \in 2..num, Parent(k) = j
                 PROVE  Key(j) <= Key(k)
    OBVIOUS
  <2>3. j \in 1..num /\ 2 * j <= num /\ (k = 2 * j \/ (k = 2 * j + 1 /\ 2 * j # num))
    BY <1>1, <1>2, <2>2
  <2>. QED
    BY <2>1, <2>3, NatKeys
<1>5. \A k \in 2..num : Parent(k) >= lo => Key(Parent(k)) <= Key(k)
  BY <1>3, <1>4
<1>6. CASE lo > 1
  <2>1. /\ lo' = lo - 1 /\ j' = lo - 1
        /\ UNCHANGED <<heap, num, expires, index, pc, gone>>
    BY <1>6 DEF BubbleDownDone
  <2>2. TypeOK'
    BY <1>1, <1>6, <2>1, HeapAssumption DEF IInv, TypeOK
  <2>3. PositionsExact'
    BY <2>1 DEF IInv, PositionsExact, Occupied
  <2>4. Control'
    BY <1>1, <1>6, <2>1 DEF IInv, Control
  <2>5. \A k \in 1..num : Key(k)' = Key(k)
    BY <2>1 DEF Key
  <2>6. \A k \in 2..num : Parent(k) # lo - 1 /\ Parent(k) >= lo - 1 => InOrder(k)'
    BY <1>1, <1>2, <1>5, <2>5 DEF InOrder, Parent
  <2>7. Parent(lo - 1) < lo - 1
    BY <1>1, <1>6 DEF Parent
  <2>8. LoopOrder'
    BY <1>1, <2>1, <2>6, <2>7 DEF LoopOrder, Parent
  <2>. QED
    BY <1>1, <2>1, <2>2, <2>3, <2>4, <2>8 DEF IInv, HeapOrder
<1>7. CASE ~(lo > 1)
  <2>1. /\ TypeOK' /\ PositionsExact'
        /\ num' = num /\ lo' = lo /\ pc' = "idle" /\ gone' = Null
        /\ \A k \in 1..num : Key(k)' = Key(k)
    BY <1>7, FinishKeys DEF IInv, BubbleDownDone
  <2>2. \A k \in 2..num : InOrder(k)'
    BY <1>1, <1>2, <1>5, <1>7, <2>1 DEF InOrder, Parent
  <2>. QED
    BY <1>1, <1>7, <2>1, <2>2 DEF IInv, HeapOrder, LoopOrder, Control
<1>. QED
  BY <1>6, <1>7

-----------------------------------------------------------------------------

\* The entry parts of the macros

LEMMA InsertOrder ==
  ASSUME IInv, NEW t \in Timers, NEW e \in 1..MaxExpires, Insert(t, e)
  PROVE  IInv'
<1>1. /\ pc = "idle" /\ gone = Null /\ lo = 1 /\ num \in 0..Size /\ num < Size
      /\ index[t] = 0
  BY DEF IInv, TypeOK, Control, PositionsExact, Insert
<1>2. /\ num' = num + 1 /\ heap' = [heap EXCEPT ![num + 1] = t]
      /\ expires' = [expires EXCEPT ![t] = e]
      /\ index' = [index EXCEPT ![t] = num + 1]
      /\ j' = num + 1 /\ pc' = "up" /\ lo' = lo /\ gone' = gone
  BY DEF Insert
<1>3. TypeOK'
  BY <1>1, <1>2, HeapAssumption DEF IInv, TypeOK
<1>4. Occupied = num /\ Occupied' = num + 1 /\ num + 1 \in 1..Size
  BY <1>1, <1>2, HeapAssumption DEF Occupied
<1>5. \A k \in 1..num : heap'[k] = heap[k] /\ heap[k] \in Timers /\ heap[k] # t
  BY <1>1, <1>2, <1>4, NatKeys, HeapAssumption DEF IInv, TypeOK, PositionsExact
<1>6. ASSUME NEW k \in 1..Size
      PROVE  IF k <= num + 1 THEN heap'[k] # Null /\ index'[heap'[k]] = k
                             ELSE heap'[k] = Null
  <2>1. CASE k <= num
    BY <2>1, <1>1, <1>2, <1>4, <1>5, HeapAssumption DEF IInv, TypeOK, PositionsExact
  <2>2. CASE k = num + 1
    BY <2>2, <1>2, HeapAssumption DEF IInv, TypeOK
  <2>3. CASE k > num + 1
    BY <2>3, <1>1, <1>2, <1>4 DEF IInv, TypeOK, PositionsExact
  <2>. QED
    BY <2>1, <2>2, <2>3, <1>1
<1>7. ASSUME NEW u \in Timers
      PROVE  /\ index'[u] # 0 => index'[u] <= num + 1 /\ heap'[index'[u]] = u
             /\ expires'[u] = 0 <=> index'[u] = 0
  <2>1. CASE u = t
    BY <2>1, <1>1, <1>2, <1>4 DEF IInv, TypeOK
  <2>2. CASE u # t
    <3>1. index'[u] = index[u] /\ expires'[u] = expires[u]
      BY <2>2, <1>2 DEF IInv, TypeOK
    <3>2. index[u] # 0 => index[u] \in 1..num /\ heap[index[u]] = u
      BY <1>4, HeapAssumption DEF IInv, TypeOK, PositionsExact
    <3>. QED
      BY <3>1, <3>2, <1>1, <1>5 DEF IInv, PositionsExact
  <2>. QED
    BY <2>1, <2>2
<1>8. PositionsExact'
  BY <1>1, <1>2, <1>4, <1>6, <1>7 DEF PositionsExact
<1>9. \A k \in 1..num : Key(k)' = Key(k)
  BY <1>2, <1>5 DEF IInv, TypeOK, Key
<1>10. \A k \in 2..num : /\ Parent(k) \in 1..num
                         /\ Key(Parent(k)) <= Key(k)
  BY <1>1, NatKeys, ParentFacts DEF IInv, HeapOrder, InOrder
<1>11. \A k \in 2..num : InOrder(k)'
  BY <1>1, <1>9, <1>10 DEF InOrder, Parent
<1>12. \A k \in 2..(num + 1) : Parent(k) # num + 1
  BY <1>1, ParentFacts
<1>13. LoopOrder'
  BY <1>1, <1>2, <1>11, <1>12 DEF LoopOrder, Parent
<1>. QED
  BY <1>1, <1>2, <1>3, <1>8, <1>13 DEF IInv, HeapOrder, Control

\* A changed key leaves the array as it is
LEMMA RekeyFacts ==
  ASSUME IInv, pc = "idle",
         NEW p \in 1..num, NEW t \in Timers, heap[p] = t,
         NEW e \in 1..MaxExpires, NEW loop \in {"up", "down"},
         Rekey(p, t, e, loop)
  PROVE  /\ TypeOK' /\ PositionsExact' /\ Control'
         /\ num' = num /\ j' = p /\ pc' = loop /\ lo' = 1 /\ gone' = Null
         /\ \A k \in 1..num : Key(k)' = IF k = p THEN e ELSE Key(k)
         /\ \A k \in 2..num : Parent(k) \in 1..num /\ InOrder(k)
<1>1. /\ lo = 1 /\ gone = Null /\ Occupied = num
      /\ \A k \in 2..num : InOrder(k)
  BY DEF IInv, Control, HeapOrder, Occupied
<1>2. /\ heap' = [heap EXCEPT ![p] = t] /\ expires' = [expires EXCEPT ![t] = e]
      /\ j' = p /\ pc' = loop
      /\ UNCHANGED <<num, index, lo, gone>>
  BY DEF Rekey
<1>3. heap' = heap
  BY <1>2 DEF IInv, TypeOK
<1>4. TypeOK'
  BY <1>1, <1>2, <1>3, NatKeys, HeapAssumption DEF IInv, TypeOK
<1>5. index[t] = p /\ expires[t] # 0 /\ index[t] # 0
  BY <1>1, NatKeys, HeapAssumption DEF IInv, PositionsExact
<1>6. \A u \in Timers : expires'[u] = 0 <=> index[u] = 0
  BY <1>2, <1>5 DEF IInv, TypeOK, PositionsExact
<1>7. PositionsExact'
  BY <1>2, <1>3, <1>6 DEF IInv, PositionsExact, Occupied
<1>8. Control'
  BY <1>1, <1>2, NatKeys DEF IInv, Control
<1>9. \A k \in 1..num : Key(k)' = IF k = p THEN e ELSE Key(k)
  <2>1. \A k \in 1..num : heap[k] \in Timers /\ (heap[k] = t <=> k = p)
    BY <1>1, NatKeys, HeapAssumption DEF IInv, PositionsExact
  <2>. QED
    BY <1>2, <1>3, <2>1 DEF IInv, TypeOK, Key
<1>10. \A k \in 2..num : Parent(k) \in 1..num
  BY NatKeys, ParentFacts
<1>. QED
  BY <1>1, <1>2, <1>4, <1>7, <1>8, <1>9, <1>10

\* HEAP_INCREASE calls for HEAP_BUBBLE_DOWN_J
LEMMA RekeyDown ==
  ASSUME IInv, pc = "idle",
         NEW p \in 1..num, NEW t \in Timers, heap[p] = t,
         NEW e \in 1..MaxExpires, Key(p) <= e, Rekey(p, t, e, "down")
  PROVE  IInv'
<1>1. /\ TypeOK' /\ PositionsExact' /\ Control'
      /\ num' = num /\ j' = p /\ pc' = "down" /\ lo' = 1 /\ gone' = Null
      /\ \A k \in 1..num : Key(k)' = IF k = p THEN e ELSE Key(k)
      /\ \A k \in 2..num : Parent(k) \in 1..num /\ InOrder(k)
  BY RekeyFacts
<1>2. \A k \in 2..num : /\ Parent(k) \in 1..num /\ Parent(k) < k
                        /\ Key(Parent(k)) <= Key(k)
  BY <1>1, NatKeys, ParentFacts DEF InOrder
<1>3. \A k \in 2..num : Parent(k) # p => InOrder(k)'
  BY <1>1, <1>2, NatKeys, HeapAssumption DEF InOrder, Parent
<1>4. ASSUME NEW k \in 2..num, Parent(k) = p, Parent(p) >= 1
      PROVE  Key(Parent(p))' <= Key(k)'
  <2>1. p \in 2..num
    BY <1>4, NatKeys DEF Parent
  <2>2. /\ Parent(p) \in 1..num /\ Parent(p) < p
        /\ Key(Parent(p)) <= Key(p) /\ Key(p) <= Key(k) /\ p < k
    BY <1>2, <1>4, <2>1
  <2>3. Key(Parent(p))' = Key(Parent(p)) /\ Key(k)' = Key(k)
    BY <1>1, <2>2, NatKeys
  <2>. QED
    BY <2>2, <2>3, NatKeys
<1>5. LoopOrder'
  BY <1>1, <1>3, <1>4 DEF LoopOrder, Parent
<1>. QED
  BY <1>1, <1>5 DEF IInv, HeapOrder

\* HEAP_DECREASE calls for HEAP_BUBBLE_UP_J
LEMMA RekeyUp ==
  ASSUME IInv, pc = "idle",
         NEW p \in 1..num, NEW t \in Timers, heap[p] = t,
         NEW e \in 1..MaxExpires, e <= Key(p), Rekey(p, t, e, "up")
  PROVE  IInv'
<1>1. /\ TypeOK' /\ PositionsExact' /\ Control'
      /\ num' = num /\ j' = p /\ pc' = "up" /\ lo' = 1 /\ gone' = Null
      /\ \A k \in 1..num : Key(k)' = IF k = p THEN e ELSE Key(k)
      /\ \A k \in 2..num : Parent(k) \in 1..num /\ InOrder(k)
  BY RekeyFacts
<1>2. \A k \in 2..num : /\ k \in 1..num /\ Parent(k) \in 1..num /\ Parent(k) < k
                        /\ Key(Parent(k)) <= Key(k)
  BY <1>1, NatKeys, ParentFacts DEF InOrder
<1>3. \A k \in 2..num : k # p => InOrder(k)'
  <2>1. SUFFICES ASSUME NEW k \in 2..num, k # p
                 PROVE  Key(Parent(k))' <= Key(k)'
    BY DEF InOrder, Parent
  <2>2. /\ Key(k)' = Key(k) /\ Key(k) \in Nat /\ Key(Parent(k)) \in Nat
        /\ Key(Parent(k))' = IF Parent(k) = p THEN e ELSE Key(Parent(k))
    BY <1>1, <1>2, <2>1, NatKeys
  <2>. QED
    BY <1>2, <2>2, NatKeys, HeapAssumption
<1>4. ASSUME NEW k \in 2..num, Parent(k) = p, p > 1
      PROVE  Key(Parent(p))' <= Key(k)'
  <2>1. p \in 2..num
    BY <1>4, NatKeys
  <2>2. /\ Parent(p) \in 1..num /\ Parent(p) < p
        /\ Key(Parent(p)) <= Key(p) /\ Key(p) <= Key(k) /\ p < k
    BY <1>2, <1>4, <2>1
  <2>3. Key(Parent(p))' = Key(Parent(p)) /\ Key(k)' = Key(k)
    BY <1>1, <2>2, NatKeys
  <2>. QED
    BY <2>2, <2>3, NatKeys
<1>5. LoopOrder'
  BY <1>1, <1>3, <1>4 DEF LoopOrder, Parent
<1>. QED
  BY <1>1, <1>5 DEF IInv, HeapOrder

\* HEAP_DELETE and HEAP_DELETE_MIN: the last element is moved to position p
LEMMA RemoveFacts ==
  ASSUME IInv, pc = "idle", NEW p \in 1..num,
         Swap(p, num), gone' = heap[p], num' = num - 1, expires' = expires,
         j' = p, lo' = lo, pc' \in {"up", "down"}
  PROVE  /\ TypeOK' /\ PositionsExact'
         /\ num \in 1..Size /\ lo' = 1
         /\ \A k \in 1..(num - 1) :
              Key(k)' = IF k = p THEN Key(num) ELSE Key(k)
         /\ \A k \in 2..num : /\ Parent(k) \in 1..num /\ Parent(k) < k
                              /\ Key(Parent(k)) <= Key(k)
<1>1. /\ lo = 1 /\ gone = Null /\ Occupied = num /\ num \in 1..Size
      /\ p \in 1..Size /\ p <= Occupied
      /\ \A k \in 2..num : InOrder(k)
  BY NatKeys, HeapAssumption DEF IInv, Control, HeapOrder, Occupied
<1>2. heap[p] \in Timers /\ gone' # Null
  BY NatKeys, HeapAssumption
<1>3. Occupied' = Occupied
  BY <1>1, <1>2, HeapAssumption DEF Occupied
<1>4. TypeOK /\ PositionsExact
  BY DEF IInv
<1>5. \A k \in 1..Size : Key(k)' = IF k = p THEN Key(num)
                                   ELSE IF k = num THEN Key(p) ELSE Key(k)
  BY <1>1, <1>4, SwapKeys
<1>6. /\ heap' \in [1..Size -> Timers \cup {Null}]
      /\ index' \in [Timers -> 0..Size]
      /\ \A k \in 1..Size :
           IF k <= Occupied' THEN heap'[k] # Null /\ index'[heap'[k]] = k
                             ELSE heap'[k] = Null
      /\ \A t \in Timers :
           /\ index'[t] # 0 => index'[t] <= Occupied' /\ heap'[index'[t]] = t
           /\ expires'[t] = 0 <=> index'[t] = 0
  BY <1>1, <1>3, <1>4, SwapPositions
<1>7. TypeOK'
  BY <1>1, <1>2, <1>4, <1>6, HeapAssumption DEF TypeOK
<1>8. num' + 1 = num
  BY <1>1, HeapAssumption
<1>9. heap'[num] = heap[p]
  BY <1>1, <1>4 DEF Swap, TypeOK
<1>10. PositionsExact'
  BY <1>6, <1>8, <1>9 DEF PositionsExact
<1>11. \A k \in 2..num : /\ Parent(k) \in 1..num /\ Parent(k) < k
                         /\ Key(Parent(k)) <= Key(k)
  BY <1>1, NatKeys, ParentFacts DEF InOrder
<1>12. \A k \in 1..(num - 1) : Key(k)' = IF k = p THEN Key(num) ELSE Key(k)
  BY <1>1, <1>5, HeapAssumption
<1>. QED
  BY <1>1, <1>7, <1>10, <1>11, <1>12

\* An element not below the deleted one has to go down
LEMMA RemoveDown ==
  ASSUME IInv, pc = "idle", NEW p \in 1..num,
         Swap(p, num), gone' = heap[p], num' = num - 1, expires' = expires,
         j' = p, lo' = lo, pc' = "down",
         p = 1 \/ Key(p) <= Key(num)
  PROVE  IInv'
<1>1. /\ TypeOK' /\ PositionsExact'
      /\ num \in 1..Size /\ lo' = 1
      /\ \A k \in 1..(num - 1) : Key(k)' = IF k = p THEN Key(num) ELSE Key(k)
      /\ \A k \in 2..num : /\ Parent(k) \in 1..num /\ Parent(k) < k
                           /\ Key(Parent(k)) <= Key(k)
  BY RemoveFacts
<1>2. \A k \in 1..num : Key(k) \in Nat
  BY NatKeys
<1>3. \A k \in 2..(num - 1) :
        /\ k \in 2..num /\ k \in 1..(num - 1) /\ Parent(k) \in 1..(num - 1)
        /\ Key(k)' = IF k = p THEN Key(num) ELSE Key(k)
        /\ Key(Parent(k))' = IF Parent(k) = p THEN Key(num) ELSE Key(Parent(k))
  BY <1>1, HeapAssumption
<1>4. \A k \in 2..(num - 1) : Parent(k) # p => InOrder(k)'
  <2>1. SUFFICES ASSUME NEW k \in 2..(num - 1), Parent(k) # p
                 PROVE  Key(Parent(k))' <= Key(k)'
    BY DEF InOrder, Parent
  <2>2. Key(Parent(k))' = Key(Parent(k)) /\ Key(Parent(k)) <= Key(k)
    BY <1>1, <1>3, <2>1
  <2>3. CASE k # p
    BY <1>3, <2>1, <2>2, <2>3
  <2>4. CASE k = p
    <3>1. Key(p) <= Key(num) /\ Key(k)' = Key(num)
      BY <1>3, <2>1, <2>4
    <3>2. /\ Key(p) \in Nat /\ Key(num) \in Nat /\ Key(Parent(k)) \in Nat
      BY <1>1, <1>2, <1>3, <2>1, HeapAssumption
    <3>. QED
      BY <2>2, <2>4, <3>1, <3>2
  <2>. QED
    BY <2>3, <2>4
<1>5. ASSUME NEW k \in 2..(num - 1), Parent(k) = p, Parent(p) >= 1
      PROVE  Key(Parent(p))' <= Key(k)'
  <2>1. p \in 2..(num - 1) /\ p < k
    BY <1>1, <1>3, <1>5, HeapAssumption DEF Parent
  <2>2. Key(Parent(p))' = Key(Parent(p)) /\ Key(k)' = Key(k)
    BY <1>1, <1>3, <1>5, <2>1
  <2>3. Key(Parent(p)) <= Key(p) /\ Key(p) <= Key(k)
    BY <1>1, <1>3, <1>5, <2>1
  <2>4. Key(Parent(p)) \in Nat /\ Key(p) \in Nat /\ Key(k) \in Nat
    BY <1>1, <1>2, <1>3, <2>1
  <2>. QED
    BY <2>2, <2>3, <2>4
<1>6. LoopOrder'
  BY <1>1, <1>4, <1>5 DEF LoopOrder, Parent
<1>. QED
  BY <1>1, <1>6 DEF IInv, HeapOrder, Control

\* An element below the deleted one has to go up
LEMMA RemoveUp ==
  ASSUME IInv, pc = "idle", NEW p \in 1..num,
         Swap(p, num), gone' = heap[p], num' = num - 1, expires' = expires,
         j' = p, lo' = lo, pc' = "up",
         Key(num) < Key(p)
  PROVE  IInv'
<1>1. /\ TypeOK' /\ PositionsExact'
      /\ num \in 1..Size /\ lo' = 1
      /\ \A k \in 1..(num - 1) : Key(k)' = IF k = p THEN Key(num) ELSE Key(k)
      /\ \A k \in 2..num : /\ Parent(k) \in 1..num /\ Parent(k) < k
                           /\ Key(Parent(k)) <= Key(k)
  BY RemoveFacts
<1>2. \A k \in 1..num : Key(k) \in Nat
  BY NatKeys
<1>3. \A k \in 2..(num - 1) :
        /\ k \in 2..num /\ k \in 1..(num - 1) /\ Parent(k) \in 1..(num - 1)
        /\ Key(k)' = IF k = p THEN Key(num) ELSE Key(k)
        /\ Key(Parent(k))' = IF Parent(k) = p THEN Key(num) ELSE Key(Parent(k))
  BY <1>1, HeapAssumption
<1>4. p < num
  <2>1. p # num
    BY <1>1, <1>2, HeapAssumption
  <2>. QED
    BY <1>1, <2>1, HeapAssumption
<1>5. \A k \in 2..(num - 1) : k # p => InOrder(k)'
  <2>1. SUFFICES ASSUME NEW k \in 2..(num - 1), k # p
                 PROVE  Key(Parent(k))' <= Key(k)'
    BY DEF InOrder, Parent
  <2>2. Key(k)' = Key(k) /\ Key(Parent(k)) <= Key(k)
    BY <1>1, <1>3, <2>1
  <2>3. CASE Parent(k) # p
    BY <1>3, <2>1, <2>2, <2>3
  <2>4. CASE Parent(k) = p
    <3>1. Key(Parent(k))' = Key(num)
      BY <1>3, <2>1, <2>4
    <3>2. /\ Key(p) \in Nat /\ Key(num) \in Nat /\ Key(k) \in Nat
      BY <1>1, <1>2, <1>3, <2>1, HeapAssumption
    <3>. QED
      BY <2>2, <2>4, <3>1, <3>2
  <2>. QED
    BY <2>3, <2>4
<1>6. ASSUME NEW k \in 2..(num - 1), Parent(k) = p, p > 1
      PROVE  Key(Parent(p))' <= Key(k)'
  <2>1. p \in 2..(num - 1) /\ p < k
    BY <1>1, <1>3, <1>6, HeapAssumption
  <2>2. Key(Parent(p))' = Key(Parent(p)) /\ Key(k)' = Key(k)
    BY <1>1, <1>3, <1>6, <2>1
  <2>3. Key(Parent(p)) <= Key(p) /\ Key(p) <= Key(k)
    BY <1>1, <1>3, <1>6, <2>1
  <2>4. Key(Parent(p)) \in Nat /\ Key(p) \in Nat /\ Key(k) \in Nat
    BY <1>1, <1>2, <1>3, <2>1
  <2>. QED
    BY <2>2, <2>3, <2>4
<1>7. LoopOrder'
  BY <1>1, <1>5, <1>6 DEF LoopOrder, Parent
<1>. QED
  BY <1>1, <1>4, <1>7, HeapAssumption DEF IInv, HeapOrder, Control

-----------------------------------------------------------------------------

LEMMA InitInv ==
  ASSUME Init
  PROVE  IInv
<1>1. PICK n \in 0..Size : \E f \in [1..n -> Timers] :
       /\ \A a, b \in 1..n : f[a] = f[b] => a = b
       /\ num = n
       /\ heap = [k \in 1..Size |-> IF k <= n THEN f[k] ELSE Null]
       /\ index = [t \in Timers |-> IF \E k \in 1..n : f[k] = t
                                   THEN CHOOSE k \in 1..n : f[k] = t ELSE 0]
       /\ \E g \in [1..n -> 1..MaxExpires] :
            expires = [t \in Timers |-> IF index[t] = 0 THEN 0 ELSE g[index[t]]]
       /\ pc = IF n = 0 THEN "idle" ELSE "down"
       /\ j = n
       /\ lo = IF n = 0 THEN 1 ELSE n
  BY DEF Init
<1>2. PICK f \in [1..n -> Timers] :
       /\ \A a, b \in 1..n : f[a] = f[b] => a = b
       /\ num = n
       /\ heap = [k \in 1..Size |-> IF k <= n THEN f[k] ELSE Null]
       /\ index = [t \in Timers |-> IF \E k \in 1..n : f[k] = t
                                   THEN CHOOSE k \in 1..n : f[k] = t ELSE 0]
       /\ \E g \in [1..n -> 1..MaxExpires] :
            expires = [t \in Timers |-> IF index[t] = 0 THEN 0 ELSE g[index[t]]]
       /\ pc = IF n = 0 THEN "idle" ELSE "down"
       /\ j = n
       /\ lo = IF n = 0 THEN 1 ELSE n
  BY <1>1
<1>3. ASSUME NEW t \in Timers
      PROVE  \/ index[t] = 0 /\ \A k \in 1..n : f[k] # t
             \/ index[t] \in 1..n /\ f[index[t]] = t
  <2>1. index[t] = IF \E k \in 1..n : f[k] = t
                   THEN CHOOSE k \in 1..n : f[k] = t ELSE 0
    BY <1>2
  <2>2. CASE \E k \in 1..n : f[k] = t
    <3>1. index[t] = CHOOSE k \in 1..n : f[k] = t
      BY <2>1, <2>2
    <3>. QED
      BY <3>1, <2>2
  <2>3. CASE ~\E k \in 1..n : f[k] = t
    BY <2>1, <2>3
  <2>. QED
    BY <2>2, <2>3
<1>4. /\ expires \in [Timers -> 0..MaxExpires] /\ gone = Null
      /\ \A t \in Timers : expires[t] = 0 <=> index[t] = 0
  <2>1. PICK g \in [1..n -> 1..MaxExpires] :
          expires = [t \in Timers |-> IF index[t] = 0 THEN 0 ELSE g[index[t]]]
    BY <1>2
  <2>2. \A t \in Timers : index[t] # 0 => /\ g[index[t]] \in 0..MaxExpires
                                          /\ g[index[t]] # 0
    BY <1>3, HeapAssumption
  <2>3. gone = Null
    BY DEF Init
  <2>. QED
    BY <2>1, <2>2, <2>3, HeapAssumption
<1>5. heap \in [1..Size -> Timers \cup {Null}]
  BY <1>2, HeapAssumption
<1>6. index \in [Timers -> 0..Size]
  <2>1. \A t \in Timers : index[t] \in 0..Size
    BY <1>3, HeapAssumption
  <2>2. index = [t \in Timers |-> index[t]]
    BY <1>2
  <2>. QED
    BY <2>1, <2>2
<1>7. TypeOK
  BY <1>2, <1>4, <1>5, <1>6, HeapAssumption DEF TypeOK
<1>8. \A k \in 1..Size : IF k <= n THEN heap[k] # Null /\ index[heap[k]] = k
                                   ELSE heap[k] = Null
  <2>0. heap = [k \in 1..Size |-> IF k <= n THEN f[k] ELSE Null]
    BY <1>2
  <2>1. \A k \in 1..n : k \in 1..Size /\ heap[k] = f[k] /\ f[k] \in Timers
    BY <2>0, HeapAssumption
  <2>2. \A k \in 1..n : index[f[k]] \in 1..n /\ f[index[f[k]]] = f[k]
    BY <1>3, <2>1
  <2>3. \A k \in 1..n : index[f[k]] = k
    BY <1>2, <2>1, <2>2
  <2>. QED
    BY <2>0, <2>1, <2>3, HeapAssumption
<1>9. \A t \in Timers : index[t] # 0 => index[t] <= n /\ heap[index[t]] = t
  BY <1>2, <1>3, HeapAssumption
<1>10. PositionsExact
  BY <1>2, <1>4, <1>8, <1>9 DEF PositionsExact, Occupied
<1>11. Control
  BY <1>2, <1>4 DEF Control
<1>12. \A k \in 2..n : Parent(k) < n
  BY ParentFacts
<1>13. HeapOrder /\ LoopOrder
  BY <1>2, <1>12, ParentSmall DEF HeapOrder, LoopOrder
<1>. QED
  BY <1>7, <1>10, <1>11, <1>13 DEF IInv

\* The position of a timer which is set
LEMMA SetTimer ==
  ASSUME IInv, pc = "idle", NEW t \in Timers, expires[t] > 0
  PROVE  index[t] \in 1..num /\ heap[index[t]] = t /\ Key(index[t]) = expires[t]
<1>1. index[t] # 0 /\ Occupied = num
  BY DEF IInv, TypeOK, PositionsExact, Control, Occupied
<1>. QED
  BY <1>1, HeapAssumption DEF IInv, TypeOK, PositionsExact, Key

LEMMA NextInv ==
  ASSUME IInv, [Next]_vars
  PROVE  IInv'
<1>1. CASE BubbleUpStep
  BY <1>1, UpStepOrder
<1>2. CASE BubbleUpDone
  BY <1>2, UpDoneOrder
<1>3. CASE BubbleDownStep
  BY <1>3, DownStepOrder
<1>4. CASE BubbleDownDone
  BY <1>4, DownDoneOrder
<1>5. ASSUME NEW t \in Timers, NEW e \in 1..MaxExpires, Insert(t, e)
      PROVE  IInv'
  BY <1>5, InsertOrder
<1>6. ASSUME NEW t \in Timers, NEW e \in 1..MaxExpires, Increase(t, e)
      PROVE  IInv'
  <2>1. index[t] \in 1..num /\ heap[index[t]] = t /\ Key(index[t]) = expires[t]
    BY <1>6, SetTimer DEF Increase
  <2>2. Key(index[t]) <= e
    BY <1>6, <2>1, HeapAssumption DEF Increase, IInv, TypeOK
  <2>. QED
    BY <1>6, <2>1, <2>2, RekeyDown DEF Increase
<1>7. ASSUME NEW t \in Timers, NEW e \in 1..MaxExpires, Decrease(t, e)
      PROVE  IInv'
  <2>1. expires[t] > 0
    BY <1>7, HeapAssumption DEF Decrease, IInv, TypeOK
  <2>2. index[t] \in 1..num /\ heap[index[t]] = t /\ Key(index[t]) = expires[t]
    BY <1>7, <2>1, SetTimer DEF Decrease
  <2>3. e <= Key(index[t])
    BY <1>7, <2>2, HeapAssumption DEF Decrease, IInv, TypeOK
  <2>. QED
    BY <1>7, <2>2, <2>3, RekeyUp DEF Decrease
<1>8. ASSUME NEW t \in Timers, NEW e \in 1..MaxExpires, Replace(t, e)
      PROVE  IInv'
  <2>1. /\ pc = "idle"
        /\ index[t] \in 1..num /\ heap[index[t]] = t
        /\ Key(index[t]) = expires[t] /\ expires[t] \in Nat
    BY <1>8, SetTimer, HeapAssumption DEF Replace, IInv, TypeOK
  <2>2. CASE expires[t] < e
    <3>1. Rekey(index[t], t, e, "down") /\ Key(index[t]) <= e
      BY <1>8, <2>1, <2>2, HeapAssumption DEF Replace
    <3>. QED
      BY <2>1, <3>1, RekeyDown
  <2>3. CASE ~(expires[t] < e)
    <3>1. Rekey(index[t], t, e, "up") /\ e <= Key(index[t])
      BY <1>8, <2>1, <2>3, HeapAssumption DEF Replace
    <3>. QED
      BY <2>1, <3>1, RekeyUp
  <2>. QED
    BY <2>2, <2>3
<1>9. ASSUME NEW e \in 1..MaxExpires, ReplaceMin(e)
      PROVE  IInv'
  <2>1. pc = "idle" /\ 1 \in 1..num /\ heap[1] \in Timers /\ Key(1) <= e
    BY <1>9, NatKeys DEF ReplaceMin
  <2>2. Rekey(1, heap[1], e, "down")
    BY <1>9 DEF ReplaceMin
  <2>. QED
    BY <2>1, <2>2, RekeyDown
<1>10. CASE DeleteMin
  <2>1. 1 \in 1..num
    BY <1>10, NatKeys DEF DeleteMin
  <2>. QED
    BY <1>10, <2>1, RemoveDown DEF DeleteMin
<1>11. ASSUME NEW t \in Timers, Delete(t)
       PROVE  IInv'
  <2>1. pc = "idle" /\ index[t] \in 1..num /\ heap[index[t]] = t
    BY <1>11, SetTimer DEF Delete
  <2>2. /\ Swap(index[t], num) /\ gone' = heap[index[t]] /\ num' = num - 1
        /\ expires' = expires /\ j' = index[t] /\ lo' = lo
    BY <1>11, <2>1 DEF Delete
  <2>3. Key(num) \in Nat /\ Key(index[t]) \in Nat
    BY <2>1, NatKeys, HeapAssumption
  <2>4. CASE Less(num, index[t])
    <3>1. pc' = "up" /\ Key(num) < Key(index[t])
      BY <1>11, <2>4 DEF Delete, Less
    <3>. QED
      BY <2>1, <2>2, <3>1, RemoveUp
  <2>5. CASE ~Less(num, index[t])
    <3>1. pc' = "down" /\ Key(index[t]) <= Key(num)
      BY <1>11, <2>3, <2>5 DEF Delete, Less
    <3>. QED
      BY <2>1, <2>2, <3>1, RemoveDown
  <2>. QED
    BY <2>4, <2>5
<1>12. CASE UNCHANGED vars
  BY <1>12 DEF vars, IInv, TypeOK, PositionsExact, Occupied, Control, HeapOrder,
     LoopOrder, InOrder, Key
<1>. QED
  BY <1>1, <1>2, <1>3, <1>4, <1>5, <1>6, <1>7, <1>8, <1>9, <1>10, <1>11, <1>12
  DEF Next

-----------------------------------------------------------------------------

\* The loop invariant and the positions hold in every state of every macro.
THEOREM HeapInvariance == Spec => []IInv
<1>1. Init => IInv
  BY InitInv
<1>2. IInv /\ [Next]_vars => IInv'
  BY NextInv
<1>. QED
  BY <1>1, <1>2, PTL DEF Spec

\* Every macro of heap.h leaves the heap in order, whatever its size, its keys
\* and the macros run before.
THEOREM HeapStaysOrdered == Spec => []HeapOrder
<1>1. IInv => HeapOrder
  BY DEF IInv
<1>. QED
  BY <1>1, HeapInvariance, PTL

\* The index of a timer, which timer_add trusts, is its position in the timer
\* table throughout every macro, and the table holds exactly the set timers.
THEOREM HeapPositions == Spec => []PositionsExact
<1>1. IInv => PositionsExact
  BY DEF IInv
<1>. QED
  BY <1>1, HeapInvariance, PTL

\* A non-empty set of positions has a first one
LEMMA FirstPosition ==
  ASSUME NEW U \in SUBSET Nat, U # {}
  PROVE  \E m \in U : \A k \in U : ~(k < m)
<1>. DEFINE R == OpToRel(<, Nat)
<1>1. IsWellFoundedOn(R, Nat)
  BY NatLessThanWellFounded
<1>2. \A x, y \in Nat : <<x, y>> \in R <=> x < y
  BY DEF OpToRel
<1>. HIDE DEF R
<1>3. \E m \in U : \A k \in U : ~(<<k, m>> \in R)
  BY <1>1, WFMin
<1>. QED
  BY <1>2, <1>3

\* In a heap in order, the first element is a minimum: the first position with
\* a lower key would have a parent with a lower key.
LEMMA OrderGivesMinimum ==
  ASSUME IInv
  PROVE  MinimumOnTop
<1>1. SUFFICES ASSUME pc = "idle", NEW k \in 1..num, ~(Key(1) <= Key(k))
               PROVE  FALSE
  BY DEF MinimumOnTop
<1>. DEFINE U == {i \in 1..num : Key(i) < Key(1)}
<1>2. /\ num \in 0..Size /\ 1 \in 1..num
      /\ \A i \in 1..num : Key(i) \in Nat
  BY <1>1, NatKeys
<1>3. U \in SUBSET Nat /\ k \in U
  BY <1>1, <1>2
<1>4. PICK m \in U : \A i \in U : ~(i < m)
  BY <1>3, FirstPosition
<1>5. m \in 2..num /\ Key(m) < Key(1)
  BY <1>2, <1>4
<1>6. Parent(m) \in 1..num /\ Parent(m) < m /\ Key(Parent(m)) <= Key(m)
  BY <1>1, <1>2, <1>5, ParentFacts DEF IInv, HeapOrder, InOrder
<1>7. Parent(m) \in U
  BY <1>2, <1>5, <1>6
<1>. QED
  BY <1>4, <1>6, <1>7

\* "The first element is always lower or equal to all other elements": what
\* the main loop sleeps for and what DELETE_MIN hands out is a minimum.
THEOREM HeapMinimum == Spec => []MinimumOnTop
<1>1. IInv => MinimumOnTop
  BY OrderGivesMinimum
<1>. QED
  BY <1>1, HeapInvariance, PTL

-----------------------------------------------------------------------------
(* Memory pools.  What holds of the state of the pool and the blocks in    *)
(* use holds of every saved state and the blocks it keeps, too.            *)

\* The sizes of cs added up, for any sizes sz
TotalOf(sz, cs) ==
  LET upTo[c \in 0..MaxChunks] ==
        IF c = 0 THEN 0 ELSE upTo[c - 1] + (IF c \in cs THEN sz[c] ELSE 0)
  IN  upTo[MaxChunks]

\* The partial sums
TotalRun(f, sz, cs) ==
  /\ f \in [0..MaxChunks -> Int] /\ f[0] = 0
  /\ \A c \in 1..MaxChunks : f[c] = f[c - 1] + (IF c \in cs THEN sz[c] ELSE 0)

\* States of a pool and blocks
MpStates == [free : [1..2 -> Nat], chain : [1..2 -> Seq(M!Chunks)]]
MpBlocks == [chunk : 0..MaxChunks, from : Nat, len : Nat]

MpTypes ==
  /\ size \in [M!Chunks -> Nat] /\ total \in Int /\ unused \in Seq(M!Chunks)
  /\ idx \in 1..2 /\ home \in {0, 1}
  /\ liveBlocks \in Seq(MpBlocks) /\ saved \in Seq([st : MpStates, blocks : Nat])
  /\ opened \in BOOLEAN /\ canRealloc \in BOOLEAN

\* The chunks of a state
Used(s) == Elements(s.chain[1]) \cup Elements(s.chain[2])

\* Each chunk is in one chain, and its size is that of the chain
ChunksOK(sz, s, un, big) ==
  /\ NoDuplicates(s.chain[1]) /\ NoDuplicates(s.chain[2]) /\ NoDuplicates(un)
  /\ Elements(s.chain[1]) \cap Elements(s.chain[2]) = {}
  /\ Elements(un) \cap Used(s) = {}
  /\ \A c \in M!Chunks :
       /\ c \in Elements(s.chain[1]) \cup Elements(un) => sz[c] = ChunkSize
       /\ sz[c] > 0 <=> c \in Used(s) \cup Elements(un)
  /\ big # 0 => big \in Elements(s.chain[2])

\* The size of the last chunk of chain i
TopSize(sz, s, i) == IF s.chain[i] = <<>> THEN 0 ELSE sz[Head(s.chain[i])]

\* The free space lies in the last chunk, and not where the pool itself is
StateOK(sz, h, s) ==
  /\ s \in MpStates
  /\ s.free[1] <= TopSize(sz, s, 1) /\ s.free[2] <= TopSize(sz, s, 2)
  /\ h # 0 => /\ s.chain[1] # <<>> /\ s.chain[1][Len(s.chain[1])] = h
              /\ Head(s.chain[1]) = h => s.free[1] <= ChunkSize - StateSize

\* A block lies in a chunk of the state, before its free space
BlockOK(sz, h, s, b) ==
  IF b.chunk = 0 THEN b.from = 0 /\ b.len = 0
  ELSE /\ b.chunk \in Used(s)
       /\ b.from + b.len <= sz[b.chunk]
       /\ b.chunk = h => b.from >= StateSize
       /\ \A i \in 1..2 : s.chain[i] # <<>> /\ b.chunk = Head(s.chain[i]) =>
            b.from + b.len <= sz[b.chunk] - s.free[i]

\* Blocks in one chunk lie in the order of their allocation
LiveOK(sz, h, s, bs) ==
  /\ \A k \in DOMAIN bs : BlockOK(sz, h, s, bs[k])
  /\ \A m, k \in DOMAIN bs : m < k /\ bs[m].chunk = bs[k].chunk =>
       bs[m].from + bs[m].len <= bs[k].from

\* a is the end of s
EndOf(a, s) ==
  /\ Len(a) <= Len(s)
  /\ \A k \in 1..Len(a) : a[k] = s[(Len(s) - Len(a)) + k]

\* A saved state is an older state of the pool
SavedOK(sz, h, s, bs, old) ==
  /\ StateOK(sz, h, old.st) /\ old.blocks <= Len(bs)
  /\ \A i \in 1..2 : EndOf(old.st.chain[i], s.chain[i])
  /\ \A k \in 1..old.blocks : BlockOK(sz, h, old.st, bs[k])

SavedInOrder(olds) ==
  \A w, k \in DOMAIN olds : w < k =>
    /\ olds[w].blocks <= olds[k].blocks
    /\ \A i \in 1..2 : Len(olds[w].st.chain[i]) <= Len(olds[k].st.chain[i])

\* The last chunk of chain 2 is newer than all saved states
NewBig(s, big, olds) ==
  /\ s.chain[2] # <<>> /\ big = Head(s.chain[2])
  /\ \A w \in DOMAIN olds : Len(olds[w].st.chain[2]) < Len(s.chain[2])

\* A growing buffer in chain 2 has a chunk of its own
BigBuffer ==
  opened /\ idx = 2 =>
    NewBig(poolState, lastBig, saved) /\ poolState.free[2] = TopSize(size, poolState, 2)

\* The block b ends where the free space begins
AtEnd(sz, s, big, olds, b) ==
  \/ /\ b.chunk = IF s.chain[1] = <<>> THEN 0 ELSE Head(s.chain[1])
     /\ b.from + b.len + s.free[1] = TopSize(sz, s, 1)
  \/ /\ NewBig(s, big, olds) /\ b.chunk = big /\ b.from = 0
     /\ b.len + s.free[2] = TopSize(sz, s, 2)

\* The last block may be reopened, and no saved state keeps it
LastBlock ==
  canRealloc =>
    /\ liveBlocks # <<>> /\ ~opened
    /\ AtEnd(size, poolState, lastBig, saved, liveBlocks[Len(liveBlocks)])
    /\ \A w \in DOMAIN saved : saved[w].blocks < Len(liveBlocks)

MempoolInv ==
  /\ MpTypes
  /\ ChunksOK(size, poolState, unused, lastBig)
  /\ total = TotalOf(size, M!Chunks)
  /\ StateOK(size, home, poolState)
  /\ LiveOK(size, home, poolState, liveBlocks)
  /\ \A w \in DOMAIN saved : SavedOK(size, home, poolState, liveBlocks, saved[w])
  /\ SavedInOrder(saved) /\ BigBuffer /\ LastBlock

\* Rounding by the alignment.
LEMMA AlignFacts ==
  ASSUME NEW n \in Nat
  PROVE  /\ M!Down(n) \in Nat /\ M!Down(n) <= n
         /\ M!Aligned(n) \in Nat /\ M!Aligned(n) >= n
<1>1. Align \in Nat /\ Align > 0
  BY MempoolAssumption
<1>2. (-n) % Align \in 0..(Align - 1) /\ n % Align \in 0..(Align - 1)
  BY <1>1
<1>3. n % Align <= n
  <2>1. CASE n < Align
    BY <1>1, <2>1
  <2>2. CASE n >= Align
    BY <1>1, <1>2, <2>2
  <2> QED
    BY <1>1, <2>1, <2>2
<1> QED
  BY <1>1, <1>2, <1>3 DEF M!Down, M!Aligned

\* TotalOf is the last partial sum.
LEMMA TotalIs ==
  ASSUME NEW sz \in [M!Chunks -> Nat], NEW cs
  PROVE  \E f : TotalRun(f, sz, cs) /\ TotalOf(sz, cs) = f[MaxChunks]
<1> DEFINE n == MaxChunks
           add(c) == IF c \in cs THEN sz[c] ELSE 0
           g == [x \in (1..n) \X Int |-> x[2] + add(x[1])]
<1>1. n \in Nat /\ \A c \in 1..n : add(c) \in Int
  BY MempoolAssumption DEF M!Chunks
<1> HIDE DEF add
<1>2. g \in [(1..n) \X Int -> Int]
  BY <1>1
<1>3. PICK f : IsRecursion(f, Int, 0, n, g)
  <2> HIDE DEF g, n
  <2>1. 0 \in Int
    OBVIOUS
  <2> QED
    BY <1>1, <1>2, <2>1, RecursionExists
<1>4. ASSUME NEW k \in 1..n PROVE f[k] = f[k - 1] + add(k)
  <2>1. f[k - 1] \in Int /\ <<k, f[k - 1]>> \in (1..n) \X Int
    BY <1>1, <1>3 DEF IsRecursion
  <2> QED
    BY <1>3, <2>1 DEF IsRecursion
<1>5. TotalRun(f, sz, cs)
  BY <1>3, <1>4 DEF TotalRun, IsRecursion, add
<1> DEFINE Step(h) == [c \in 0..MaxChunks |->
                        IF c = 0 THEN 0 ELSE h[c - 1] + (IF c \in cs THEN sz[c] ELSE 0)]
           upTo == CHOOSE h : h = Step(h)
<1>6. f = Step(f)
  BY <1>5 DEF TotalRun
<1>7. upTo = Step(upTo)
  BY <1>6
<1>8. TotalOf(sz, cs) = upTo[MaxChunks]
  BY DEF TotalOf
<1> HIDE DEF upTo
<1>9. /\ upTo[0] = 0
      /\ \A k \in 1..n : upTo[k] = upTo[k - 1] + (IF k \in cs THEN sz[k] ELSE 0)
  BY <1>1, <1>7
<1>10. upTo[n] = f[n]
  <2>1. f[0] = upTo[0]
    BY <1>5, <1>9 DEF TotalRun
  <2>2. \A k \in 1..n : f[k - 1] = upTo[k - 1] => f[k] = upTo[k]
    BY <1>5, <1>9 DEF TotalRun
  <2> QED
    BY <1>1, <2>1, <2>2, RecursionUnique
<1> QED
  BY <1>5, <1>8, <1>10

\* Sums of sums.
LEMMA SumsAdd ==
  ASSUME NEW n \in Nat, NEW f \in [0..n -> Int], NEW g \in [0..n -> Int], NEW h \in [0..n -> Int],
         f[0] = g[0] + h[0],
         \A k \in 1..n : f[k] - f[k - 1] = (g[k] - g[k - 1]) + (h[k] - h[k - 1])
  PROVE  f[n] = g[n] + h[n]
<1> DEFINE S == {m \in Nat : m <= n => f[m] = g[m] + h[m]}
<1>1. 0 \in S
  OBVIOUS
<1>2. ASSUME NEW m \in Nat, m \in S PROVE m + 1 \in S
  <2> SUFFICES ASSUME m + 1 <= n PROVE f[m + 1] = g[m + 1] + h[m + 1]
    OBVIOUS
  <2>1. m + 1 \in 1..n /\ (m + 1) - 1 = m /\ f[m] = g[m] + h[m] /\ m \in 0..n /\ m + 1 \in 0..n
    BY <1>2
  <2>2. f[m + 1] - f[m] = (g[m + 1] - g[m]) + (h[m + 1] - h[m])
    BY <2>1
  <2>3. /\ f[m] \in Int /\ g[m] \in Int /\ h[m] \in Int
        /\ f[m + 1] \in Int /\ g[m + 1] \in Int /\ h[m + 1] \in Int
    BY <2>1
  <2>4. f[m] = g[m] + h[m]
    BY <2>1
  <2> DEFINE f0 == f[m]
             f1 == f[m + 1]
             g0 == g[m]
             g1 == g[m + 1]
             h0 == h[m]
             h1 == h[m + 1]
  <2> HIDE DEF f0, f1, g0, g1, h0, h1
  <2>5. /\ f0 \in Int /\ f1 \in Int /\ g0 \in Int /\ g1 \in Int /\ h0 \in Int /\ h1 \in Int
        /\ f0 = g0 + h0 /\ f1 - f0 = (g1 - g0) + (h1 - h0)
    BY <2>2, <2>3, <2>4, Zenon DEF f0, f1, g0, g1, h0, h1
  <2>6. f1 = g1 + h1
    BY <2>5
  <2> QED
    BY <2>6 DEF f1, g1, h1
<1> HIDE DEF S
<1>3. n \in S
  BY <1>1, <1>2, SetInduction
<1> QED
  BY <1>3 DEF S

\* Freeing the chunks cs subtracts their sizes.
LEMMA TotalFreed ==
  ASSUME NEW sz \in [M!Chunks -> Nat], NEW new \in [M!Chunks -> Nat], NEW cs,
         \A c \in M!Chunks : new[c] = IF c \in cs THEN 0 ELSE sz[c]
  PROVE  /\ TotalOf(new, M!Chunks) = TotalOf(sz, M!Chunks) - TotalOf(sz, cs)
         /\ TotalOf(new, M!Chunks) \in Int /\ TotalOf(sz, M!Chunks) \in Int
         /\ TotalOf(sz, cs) \in Int
<1>1. PICK f : TotalRun(f, sz, M!Chunks) /\ TotalOf(sz, M!Chunks) = f[MaxChunks]
  BY TotalIs
<1>2. PICK g : TotalRun(g, new, M!Chunks) /\ TotalOf(new, M!Chunks) = g[MaxChunks]
  BY TotalIs
<1>3. PICK h : TotalRun(h, sz, cs) /\ TotalOf(sz, cs) = h[MaxChunks]
  BY TotalIs
<1>4. MaxChunks \in Nat /\ M!Chunks = 1..MaxChunks
  BY MempoolAssumption DEF M!Chunks
<1>5. /\ f \in [0..MaxChunks -> Int] /\ g \in [0..MaxChunks -> Int] /\ h \in [0..MaxChunks -> Int]
      /\ f[0] = 0 /\ g[0] = 0 /\ h[0] = 0
  BY <1>1, <1>2, <1>3 DEF TotalRun
<1>6. ASSUME NEW k \in 1..MaxChunks
      PROVE  f[k] - f[k - 1] = (g[k] - g[k - 1]) + (h[k] - h[k - 1])
  <2>1. /\ f[k] = f[k - 1] + sz[k] /\ g[k] = g[k - 1] + new[k]
        /\ h[k] = h[k - 1] + (IF k \in cs THEN sz[k] ELSE 0)
    BY <1>1, <1>2, <1>3, <1>4 DEF TotalRun
  <2>2. /\ f[k - 1] \in Int /\ g[k - 1] \in Int /\ h[k - 1] \in Int
        /\ sz[k] \in Int /\ new[k] = IF k \in cs THEN 0 ELSE sz[k]
    BY <1>4, <1>5, SMTT(30)
  <2>3. CASE k \in cs
    BY <2>1, <2>2, <2>3
  <2>4. CASE k \notin cs
    BY <2>1, <2>2, <2>4
  <2> QED
    BY <2>3, <2>4
<1>7. f[MaxChunks] = g[MaxChunks] + h[MaxChunks]
  <2>1. f[0] = g[0] + h[0]
    BY <1>5
  <2> QED
    BY <1>4, <1>5, <1>6, <2>1, SumsAdd
<1> QED
  BY <1>1, <1>2, <1>3, <1>4, <1>5, <1>7

\* The size of a single chunk.
LEMMA TotalSingle ==
  ASSUME NEW sz \in [M!Chunks -> Nat], NEW a \in M!Chunks
  PROVE  TotalOf(sz, {a}) = sz[a]
<1>1. PICK f : TotalRun(f, sz, {a}) /\ TotalOf(sz, {a}) = f[MaxChunks]
  BY TotalIs
<1>2. MaxChunks \in Nat /\ a \in 1..MaxChunks /\ sz[a] \in Nat
  BY MempoolAssumption DEF M!Chunks
<1> DEFINE h == [k \in 0..MaxChunks |-> IF k >= a THEN sz[a] ELSE 0]
<1>3. f[0] = h[0]
  BY <1>1, <1>2 DEF TotalRun
<1>4. ASSUME NEW k \in 1..MaxChunks, f[k - 1] = h[k - 1] PROVE f[k] = h[k]
  <2>1. f[k] = f[k - 1] + (IF k = a THEN sz[a] ELSE 0)
    BY <1>1 DEF TotalRun
  <2>2. k \in 0..MaxChunks /\ k - 1 \in 0..MaxChunks
    BY <1>2
  <2>3. h[k] = (IF k >= a THEN sz[a] ELSE 0) /\ h[k - 1] = (IF k - 1 >= a THEN sz[a] ELSE 0)
    BY <2>2
  <2> HIDE DEF h
  <2> QED
    BY <1>2, <1>4, <2>1, <2>3
<1>5. h[MaxChunks] = sz[a]
  BY <1>2
<1> HIDE DEF h
<1>6. f[MaxChunks] = h[MaxChunks]
  BY <1>2, <1>3, <1>4, RecursionUnique
<1> QED
  BY <1>1, <1>5, <1>6

\* One chunk changes its size.
LEMMA TotalChanged ==
  ASSUME NEW sz \in [M!Chunks -> Nat], NEW a \in M!Chunks, NEW v \in Nat
  PROVE  /\ TotalOf([sz EXCEPT ![a] = v], M!Chunks) = (TotalOf(sz, M!Chunks) - sz[a]) + v
         /\ TotalOf(sz, M!Chunks) \in Int
<1> DEFINE new == [sz EXCEPT ![a] = v]
           zero == [sz EXCEPT ![a] = 0]
<1>1. /\ new \in [M!Chunks -> Nat] /\ zero \in [M!Chunks -> Nat] /\ new[a] = v /\ sz[a] \in Nat
      /\ \A c \in M!Chunks : zero[c] = IF c \in {a} THEN 0 ELSE sz[c]
      /\ \A c \in M!Chunks : zero[c] = IF c \in {a} THEN 0 ELSE new[c]
  OBVIOUS
<1> HIDE DEF new, zero
<1>2. /\ TotalOf(zero, M!Chunks) = TotalOf(sz, M!Chunks) - TotalOf(sz, {a})
      /\ TotalOf(zero, M!Chunks) \in Int /\ TotalOf(sz, M!Chunks) \in Int
  BY <1>1, TotalFreed
<1>3. /\ TotalOf(zero, M!Chunks) = TotalOf(new, M!Chunks) - TotalOf(new, {a})
      /\ TotalOf(new, M!Chunks) \in Int
  BY <1>1, TotalFreed
<1>4. TotalOf(sz, {a}) = sz[a] /\ TotalOf(new, {a}) = v
  BY <1>1, TotalSingle
<1>5. TotalOf(new, M!Chunks) = (TotalOf(sz, M!Chunks) - sz[a]) + v
  BY <1>1, <1>2, <1>3, <1>4
<1> QED
  BY <1>2, <1>5 DEF new

\* c in front of s
InFront(c, s) == <<c>> \o s

\* q is p with c in front of it
ChainGrown(q, p, c) ==
  /\ q \in Seq(M!Chunks) /\ q # <<>> /\ Head(q) = c /\ Len(q) = Len(p) + 1
  /\ p # <<>> => q[Len(q)] = p[Len(p)]
  /\ Elements(q) = Elements(p) \cup {c}
  /\ NoDuplicates(p) /\ c \notin Elements(p) => NoDuplicates(q)
  /\ \A a \in Seq(M!Chunks) : EndOf(a, p) => EndOf(a, q)

\* A chunk is put in front of a chain.
LEMMA ChainGrows ==
  ASSUME NEW s \in Seq(M!Chunks), NEW c \in M!Chunks, NEW q, q = InFront(c, s)
  PROVE  ChainGrown(q, s, c)
<1> DEFINE S == M!Chunks
<1>0. s \in Seq(S) /\ c \in S
  OBVIOUS
<1> HIDE DEF S
<1>1. /\ q \in Seq(S) /\ Len(q) = Len(s) + 1 /\ q[1] = c /\ Len(s) \in Nat
      /\ DOMAIN q = 1..(Len(s) + 1) /\ DOMAIN s = 1..Len(s)
      /\ \A i \in 1..Len(s) : q[i + 1] = s[i]
  BY <1>0 DEF InFront
<1>2. q # <<>> /\ Head(q) = c
  BY <1>1
<1>3. \A i \in 2..(Len(s) + 1) : q[i] = s[i - 1] /\ i - 1 \in 1..Len(s)
  <2> SUFFICES ASSUME NEW i \in 2..(Len(s) + 1) PROVE q[i] = s[i - 1] /\ i - 1 \in 1..Len(s)
    OBVIOUS
  <2>1. i - 1 \in 1..Len(s) /\ (i - 1) + 1 = i
    BY <1>1
  <2> QED
    BY <1>1, <2>1
<1>4. ASSUME s # <<>> PROVE q[Len(q)] = s[Len(s)]
  <2>1. Len(s) \in 1..Len(s)
    BY <1>1, <1>4
  <2> QED
    BY <1>1, <2>1
<1>5. Elements(q) = Elements(s) \cup {c}
  <2>1. ASSUME NEW i \in DOMAIN q PROVE q[i] \in Elements(s) \cup {c}
    <3>1. i = 1 \/ i \in 2..(Len(s) + 1)
      BY <1>1
    <3> QED
      BY <1>1, <1>3, <3>1 DEF Elements
  <2>2. ASSUME NEW i \in DOMAIN s PROVE s[i] \in Elements(q)
    <3>1. i + 1 \in DOMAIN q /\ q[i + 1] = s[i]
      BY <1>1
    <3> QED
      BY <3>1 DEF Elements
  <2>3. c \in Elements(q)
    <3>1. 1 \in DOMAIN q
      BY <1>1
    <3> QED
      BY <1>1, <3>1 DEF Elements
  <2> QED
    BY <2>1, <2>2, <2>3 DEF Elements
<1>6. ASSUME NoDuplicates(s), c \notin Elements(s) PROVE NoDuplicates(q)
  <2>0. \A i \in 2..(Len(s) + 1) : q[i] # c
    BY <1>1, <1>3, <1>6 DEF Elements
  <2> SUFFICES ASSUME NEW i \in DOMAIN q, NEW w \in DOMAIN q, q[i] = q[w] PROVE i = w
    BY DEF NoDuplicates
  <2>1. /\ i = 1 \/ i \in 2..(Len(s) + 1)
        /\ w = 1 \/ w \in 2..(Len(s) + 1)
    BY <1>1
  <2>2. CASE i \in 2..(Len(s) + 1) /\ w \in 2..(Len(s) + 1)
    <3>1. q[i] = s[i - 1] /\ i - 1 \in DOMAIN s /\ q[w] = s[w - 1] /\ w - 1 \in DOMAIN s
      BY <1>1, <1>3, <2>2
    <3>2. i - 1 = w - 1
      BY <1>6, <3>1 DEF NoDuplicates
    <3> QED
      BY <2>2, <3>2
  <2>3. CASE i = 1 \/ w = 1
    BY <1>1, <2>0, <2>1, <2>3
  <2> QED
    BY <2>1, <2>2, <2>3
<1>7. ASSUME NEW a \in Seq(S), EndOf(a, s) PROVE EndOf(a, q)
  <2>1. Len(a) \in Nat /\ Len(a) <= Len(s)
    BY <1>7 DEF EndOf
  <2>2. ASSUME NEW k \in 1..Len(a) PROVE a[k] = q[(Len(q) - Len(a)) + k]
    <3>1. a[k] = s[(Len(s) - Len(a)) + k]
      BY <1>7 DEF EndOf
    <3>2. (Len(s) - Len(a)) + k \in 1..Len(s) /\ ((Len(s) - Len(a)) + k) + 1 = (Len(q) - Len(a)) + k
      BY <1>1, <2>1
    <3> QED
      BY <1>1, <3>1, <3>2
  <2> QED
    BY <1>1, <2>1, <2>2 DEF EndOf
<1> QED
  BY <1>1, <1>2, <1>4, <1>5, <1>6, <1>7 DEF ChainGrown, S

\* The end of a chain.
LEMMA EndFacts ==
  ASSUME NEW S, NEW a \in Seq(S), NEW s \in Seq(S), EndOf(a, s)
  PROVE  /\ Elements(a) \subseteq Elements(s)
         /\ NoDuplicates(s) => NoDuplicates(a)
         /\ Len(a) < Len(s) /\ NoDuplicates(s) => s # <<>> /\ Head(s) \notin Elements(a)
         /\ a # <<>> => s # <<>> /\ a[Len(a)] = s[Len(s)]
         /\ Len(a) = Len(s) => a = s
<1>1. /\ Len(a) \in Nat /\ Len(s) \in Nat /\ Len(a) <= Len(s)
      /\ DOMAIN a = 1..Len(a) /\ DOMAIN s = 1..Len(s)
      /\ \A k \in 1..Len(a) : a[k] = s[(Len(s) - Len(a)) + k]
  BY DEF EndOf
<1>2. \A k \in 1..Len(a) : (Len(s) - Len(a)) + k \in 1..Len(s)
  BY <1>1
<1>3. Elements(a) \subseteq Elements(s)
  BY <1>1, <1>2 DEF Elements
<1>4. ASSUME NoDuplicates(s) PROVE NoDuplicates(a)
  <2> SUFFICES ASSUME NEW i \in DOMAIN a, NEW w \in DOMAIN a, a[i] = a[w] PROVE i = w
    BY DEF NoDuplicates
  <2>1. (Len(s) - Len(a)) + i = (Len(s) - Len(a)) + w
    BY <1>1, <1>2, <1>4 DEF NoDuplicates
  <2> QED
    BY <1>1, <2>1
<1>5. ASSUME Len(a) < Len(s), NoDuplicates(s) PROVE s # <<>> /\ Head(s) \notin Elements(a)
  <2>1. s # <<>> /\ Head(s) = s[1] /\ 1 \in DOMAIN s
    BY <1>1, <1>5
  <2>2. ASSUME NEW k \in DOMAIN a PROVE a[k] # s[1]
    <3>1. (Len(s) - Len(a)) + k # 1 /\ (Len(s) - Len(a)) + k \in DOMAIN s
      BY <1>1, <1>5
    <3> QED
      BY <1>1, <1>5, <2>1, <3>1 DEF NoDuplicates
  <2> QED
    BY <2>1, <2>2 DEF Elements
<1>6. ASSUME a # <<>> PROVE s # <<>> /\ a[Len(a)] = s[Len(s)]
  <2>1. Len(a) \in 1..Len(a) /\ (Len(s) - Len(a)) + Len(a) = Len(s) /\ Len(s) # 0
    BY <1>1, <1>6
  <2> QED
    BY <1>1, <2>1
<1>7. ASSUME Len(a) = Len(s) PROVE a = s
  <2>1. \A k \in 1..Len(a) : a[k] = s[k]
    BY <1>1, <1>7
  <2> QED
    BY <1>1, <1>7, <2>1
<1> QED
  BY <1>3, <1>4, <1>5, <1>6, <1>7

\* A chain is an end of itself, and of two ends of a chain the shorter one is
\* an end of the longer one.
LEMMA EndsNested ==
  ASSUME NEW S, NEW s \in Seq(S)
  PROVE  /\ EndOf(s, s)
         /\ \A a, b \in Seq(S) : EndOf(a, s) /\ EndOf(b, s) /\ Len(a) <= Len(b) => EndOf(a, b)
<1>1. EndOf(s, s)
  <2>1. Len(s) \in Nat /\ \A k \in 1..Len(s) : (Len(s) - Len(s)) + k = k
    OBVIOUS
  <2> QED
    BY <2>1 DEF EndOf
<1>2. ASSUME NEW a \in Seq(S), NEW b \in Seq(S), EndOf(a, s), EndOf(b, s), Len(a) <= Len(b)
      PROVE  EndOf(a, b)
  <2>1. /\ Len(a) \in Nat /\ Len(b) \in Nat /\ Len(s) \in Nat
        /\ Len(b) <= Len(s)
    BY <1>2 DEF EndOf
  <2>2. ASSUME NEW k \in 1..Len(a) PROVE a[k] = b[(Len(b) - Len(a)) + k]
    <3>1. a[k] = s[(Len(s) - Len(a)) + k]
      BY <1>2 DEF EndOf
    <3>2. (Len(b) - Len(a)) + k \in 1..Len(b)
      BY <1>2, <2>1
    <3>3. b[(Len(b) - Len(a)) + k] = s[(Len(s) - Len(b)) + ((Len(b) - Len(a)) + k)]
      BY <1>2, <3>2 DEF EndOf
    <3>4. (Len(s) - Len(b)) + ((Len(b) - Len(a)) + k) = (Len(s) - Len(a)) + k
      BY <2>1
    <3> QED
      BY <3>1, <3>3, <3>4
  <2> QED
    BY <1>2, <2>2 DEF EndOf
<1> QED
  BY <1>1, <1>2

\* b is s without its end a
BeginOf(b, s, a) ==
  /\ b \in Seq(M!Chunks) /\ M!Reversed(b) \in Seq(M!Chunks)
  /\ Elements(b) = Elements(s) \ Elements(a)
  /\ Elements(M!Reversed(b)) = Elements(b) /\ NoDuplicates(M!Reversed(b))

\* The beginning of a chain, without the end a, in the opposite order.
LEMMA BeginFacts ==
  ASSUME NEW a \in Seq(M!Chunks), NEW s \in Seq(M!Chunks), EndOf(a, s), NoDuplicates(s),
         NEW b, b = SubSeq(s, 1, Len(s) - Len(a))
  PROVE  BeginOf(b, s, a)
<1> DEFINE S == M!Chunks
           n == Len(s) - Len(a)
           r == M!Reversed(b)
<1>0. /\ Len(a) \in Nat /\ Len(s) \in Nat /\ Len(a) <= Len(s)
      /\ DOMAIN a = 1..Len(a) /\ DOMAIN s = 1..Len(s)
      /\ \A k \in 1..Len(a) : a[k] = s[n + k]
  <2>1. Len(a) \in Nat /\ Len(s) \in Nat /\ DOMAIN a = 1..Len(a) /\ DOMAIN s = 1..Len(s)
    OBVIOUS
  <2>2. Len(a) <= Len(s) /\ \A k \in 1..Len(a) : a[k] = s[n + k]
    BY Zenon DEF EndOf
  <2> QED
    BY <2>1, <2>2
<1>01. n \in Nat /\ n <= Len(s) /\ n \in 0..Len(s) /\ n + Len(a) = Len(s)
  BY <1>0
<1>02. b = SubSeq(s, 1, n)
  OBVIOUS
<1> HIDE DEF n
<1>1. /\ Len(a) \in Nat /\ Len(s) \in Nat /\ Len(a) <= Len(s) /\ n \in 0..Len(s)
      /\ DOMAIN a = 1..Len(a) /\ DOMAIN s = 1..Len(s) /\ n + Len(a) = Len(s) /\ n \in Nat
      /\ \A k \in 1..Len(a) : a[k] = s[n + k]
  BY <1>0, <1>01
<1>2. b \in Seq(S) /\ Len(b) = n /\ DOMAIN b = 1..n /\ \A k \in 1..n : b[k] = s[k]
  <2>1. b \in Seq(S) /\ Len(b) = n /\ \A k \in 1..n : b[k] = s[k]
    <3>1. n \in 0..Len(s)
      BY <1>01
    <3>2. /\ SubSeq(s, 1, n) \in Seq(M!Chunks) /\ Len(SubSeq(s, 1, n)) = n
          /\ \A k \in 1..n : SubSeq(s, 1, n)[k] = s[k]
      BY <3>1, SplitFacts, Zenon
    <3> QED
      BY <1>02, <3>2, Zenon
  <2> QED
    BY <2>1
<1>3. \A k \in 1..n : (n + 1) - k \in 1..n /\ (n + 1) - ((n + 1) - k) = k
  BY <1>1
<1>4. r = [k \in 1..n |-> b[(n + 1) - k]]
  BY <1>2, SMTT(30) DEF M!Reversed
<1> HIDE DEF r
<1>5. /\ r \in Seq(S) /\ DOMAIN r = 1..n /\ \A k \in 1..n : r[k] = b[(n + 1) - k]
  <2>1. \A k \in 1..n : b[(n + 1) - k] \in S
    BY <1>2, <1>3, SMTT(30)
  <2>2. n \in Nat
    BY <1>1
  <2>3. DOMAIN r = 1..n /\ \A k \in 1..n : r[k] = b[(n + 1) - k]
    BY <1>4
  <2>4. r \in [1..n -> S]
    BY <1>4, <2>1
  <2>5. \A f \in [1..n -> S] : f \in Seq(S)
    BY <2>2
  <2> QED
    BY <2>3, <2>4, <2>5
<1>6. Elements(r) = Elements(b)
  <2>1. \A k \in 1..n : r[k] \in Elements(b)
    BY <1>2, <1>3, <1>5 DEF Elements
  <2>2. ASSUME NEW k \in 1..n PROVE b[k] \in Elements(r)
    <3>1. (n + 1) - k \in 1..n /\ r[(n + 1) - k] = b[k]
      BY <1>3, <1>5
    <3> QED
      BY <1>5, <3>1 DEF Elements
  <2> QED
    <3>1. Elements(r) \subseteq Elements(b)
      BY <1>5, <2>1 DEF Elements
    <3>2. Elements(b) \subseteq Elements(r)
      BY <1>2, <2>2 DEF Elements
    <3> QED
      BY <3>1, <3>2
<1>7. NoDuplicates(r)
  <2> SUFFICES ASSUME NEW i \in 1..n, NEW w \in 1..n, r[i] = r[w] PROVE i = w
    BY <1>5 DEF NoDuplicates
  <2>1. (n + 1) - i \in 1..n /\ (n + 1) - w \in 1..n
    BY <1>3
  <2>2. s[(n + 1) - i] = s[(n + 1) - w]
    BY <1>2, <1>5, <2>1
  <2>3. (n + 1) - i \in DOMAIN s /\ (n + 1) - w \in DOMAIN s
    BY <1>1, <2>1
  <2>4. (n + 1) - i = (n + 1) - w
    BY <2>2, <2>3 DEF NoDuplicates
  <2> QED
    BY <1>1, <2>4
<1>8. Elements(b) = Elements(s) \ Elements(a)
  <2>1. ASSUME NEW k \in 1..n PROVE b[k] \in Elements(s) \ Elements(a)
    <3>0. k \in 1..Len(s)
      BY <1>01, <1>1
    <3>1. b[k] = s[k] /\ k \in DOMAIN s
      BY <1>1, <1>2, <3>0
    <3>2. ASSUME NEW w \in DOMAIN a PROVE a[w] # s[k]
      <4>1. a[w] = s[n + w] /\ n + w \in DOMAIN s /\ n + w # k
        BY <1>1
      <4> QED
        BY <3>1, <4>1 DEF NoDuplicates
    <3> QED
      BY <3>1, <3>2 DEF Elements
  <2>2. ASSUME NEW k \in DOMAIN s, s[k] \notin Elements(a) PROVE s[k] \in Elements(b)
    <3>1. CASE k \in 1..n
      BY <1>2, <3>1 DEF Elements
    <3>2. CASE k \notin 1..n
      <4>1. k - n \in DOMAIN a /\ n + (k - n) = k
        BY <1>1, <3>2
      <4>2. a[k - n] = s[k]
        BY <1>1, <4>1
      <4> QED
        BY <2>2, <4>1, <4>2 DEF Elements
    <3> QED
      BY <3>1, <3>2
  <2>3. Elements(b) \subseteq Elements(s) \ Elements(a)
    BY <1>2, <2>1 DEF Elements
  <2>4. Elements(s) \ Elements(a) \subseteq Elements(b)
    <3> SUFFICES ASSUME NEW x \in Elements(s), x \notin Elements(a) PROVE x \in Elements(b)
      OBVIOUS
    <3>1. PICK k \in DOMAIN s : s[k] = x
      BY DEF Elements
    <3> QED
      BY <2>2, <3>1
  <2> QED
    BY <2>3, <2>4
<1> QED
  BY <1>2, <1>5, <1>6, <1>7, <1>8 DEF r, BeginOf

\* The parts of a state.
LEMMA StateType ==
  ASSUME NEW s \in MpStates
  PROVE  /\ s.free[1] \in Nat /\ s.free[2] \in Nat
         /\ s.chain[1] \in Seq(M!Chunks) /\ s.chain[2] \in Seq(M!Chunks)
         /\ s.chain \in [1..2 -> Seq(M!Chunks)] /\ s.free \in [1..2 -> Nat]
         /\ s = [free |-> s.free, chain |-> s.chain]
BY DEF MpStates

\* The last chunk of a chain.
LEMMA TopFacts ==
  ASSUME NEW sz \in [M!Chunks -> Nat], NEW s \in MpStates, NEW i \in 1..2
  PROVE  /\ TopSize(sz, s, i) \in Nat
         /\ s.chain[i] # <<>> => /\ Head(s.chain[i]) \in Elements(s.chain[i])
                                 /\ Head(s.chain[i]) \in Used(s) /\ Head(s.chain[i]) \in M!Chunks
                                 /\ TopSize(sz, s, i) = sz[Head(s.chain[i])]
         /\ s.chain[i] = <<>> => TopSize(sz, s, i) = 0
         /\ Used(s) \subseteq M!Chunks
<1>1. s.chain[i] \in Seq(M!Chunks) /\ (i = 1 \/ i = 2)
  BY DEF MpStates
<1>2. ASSUME s.chain[i] # <<>>
      PROVE  Head(s.chain[i]) \in Elements(s.chain[i]) /\ Head(s.chain[i]) \in M!Chunks
  BY <1>1, <1>2, TailFacts
<1>3. Used(s) \subseteq M!Chunks
  BY StateType, ElementsType DEF Used
<1>4. s.chain[i] # <<>> => TopSize(sz, s, i) = sz[Head(s.chain[i])]
  BY DEF TopSize
<1>5. s.chain[i] = <<>> => TopSize(sz, s, i) = 0
  BY DEF TopSize
<1>6. TopSize(sz, s, i) \in Nat
  BY <1>2, <1>4, <1>5
<1>7. s.chain[i] # <<>> => Head(s.chain[i]) \in Used(s)
  BY <1>1, <1>2 DEF Used
<1> QED
  BY <1>2, <1>3, <1>4, <1>5, <1>6, <1>7

\* The chunks of an older state are those of the state.
LEMMA OlderUsed ==
  ASSUME NEW s \in MpStates, NEW t \in MpStates, \A i \in 1..2 : EndOf(s.chain[i], t.chain[i])
  PROVE  /\ Used(s) \subseteq Used(t)
         /\ Elements(s.chain[1]) \subseteq Elements(t.chain[1])
         /\ Elements(s.chain[2]) \subseteq Elements(t.chain[2])
<1>1. EndOf(s.chain[1], t.chain[1]) /\ EndOf(s.chain[2], t.chain[2])
  OBVIOUS
<1>2. Elements(s.chain[1]) \subseteq Elements(t.chain[1])
  BY <1>1, StateType, EndFacts
<1>3. Elements(s.chain[2]) \subseteq Elements(t.chain[2])
  BY <1>1, StateType, EndFacts
<1> QED
  BY <1>2, <1>3 DEF Used

\* A state does not depend on the sizes of other chunks.
LEMMA SizesKept ==
  ASSUME NEW sz \in [M!Chunks -> Nat], NEW new \in [M!Chunks -> Nat], NEW h, NEW s \in MpStates,
         \A c \in Used(s) : new[c] = sz[c]
  PROVE  /\ TopSize(new, s, 1) = TopSize(sz, s, 1) /\ TopSize(new, s, 2) = TopSize(sz, s, 2)
         /\ StateOK(sz, h, s) => StateOK(new, h, s)
         /\ \A b : BlockOK(sz, h, s, b) => BlockOK(new, h, s, b)
<1>1. \A i \in 1..2 : TopSize(new, s, i) = TopSize(sz, s, i)
  BY TopFacts
<1>2. ASSUME StateOK(sz, h, s) PROVE StateOK(new, h, s)
  BY <1>1, <1>2 DEF StateOK
<1>3. ASSUME NEW b, BlockOK(sz, h, s, b) PROVE BlockOK(new, h, s, b)
  <2>1. CASE b.chunk = 0
    BY <1>3, <2>1 DEF BlockOK
  <2>2. CASE b.chunk # 0
    <3>1. b.chunk \in Used(s)
      BY <1>3, <2>2 DEF BlockOK
    <3>2. new[b.chunk] = sz[b.chunk]
      BY <3>1
    <3> QED
      BY <1>3, <2>2, <3>2 DEF BlockOK
  <2> QED
    BY <2>1, <2>2
<1> QED
  BY <1>1, <1>2, <1>3

\* A saved state does not depend on what happens after it.
LEMMA SavedKept ==
  ASSUME NEW sz \in [M!Chunks -> Nat], NEW new \in [M!Chunks -> Nat], NEW h,
         NEW s \in MpStates, NEW t \in MpStates, NEW bs, NEW more,
         NEW old \in [st : MpStates, blocks : Nat],
         SavedOK(sz, h, s, bs, old),
         \A c \in Used(old.st) : new[c] = sz[c],
         \A i \in 1..2 : EndOf(old.st.chain[i], t.chain[i]),
         old.blocks <= Len(more), \A k \in 1..old.blocks : more[k] = bs[k]
  PROVE  SavedOK(new, h, t, more, old)
<1>1. old.st \in MpStates
  OBVIOUS
<1>2. StateOK(sz, h, old.st) /\ \A k \in 1..old.blocks : BlockOK(sz, h, old.st, bs[k])
  BY DEF SavedOK
<1>3. /\ StateOK(sz, h, old.st) => StateOK(new, h, old.st)
      /\ \A b : BlockOK(sz, h, old.st, b) => BlockOK(new, h, old.st, b)
  BY <1>1, SizesKept
<1>4. \A k \in 1..old.blocks : BlockOK(new, h, old.st, more[k])
  BY <1>2, <1>3
<1> QED
  BY <1>2, <1>3, <1>4 DEF SavedOK

\* The state t is s with the chunk c in front of chain i
Pushed(sz, new, h, s, t, i, c) ==
  /\ StateOK(new, h, t)
  /\ \A b : BlockOK(sz, h, s, b) => BlockOK(new, h, t, b) /\ b.chunk # c
  /\ t.chain[i] # <<>> /\ Head(t.chain[i]) = c /\ TopSize(new, t, i) = new[c]
  /\ Used(t) = Used(s) \cup {c} /\ Elements(t.chain[i]) = Elements(s.chain[i]) \cup {c}
  /\ NoDuplicates(s.chain[i]) => NoDuplicates(t.chain[i])
  /\ Len(t.chain[i]) = Len(s.chain[i]) + 1
  /\ \A a \in Seq(M!Chunks), k \in 1..2 : EndOf(a, s.chain[k]) => EndOf(a, t.chain[k])

\* A chunk that is not in use is put in front of a chain.
LEMMA StatePushed ==
  ASSUME NEW sz \in [M!Chunks -> Nat], NEW new \in [M!Chunks -> Nat], NEW h \in {0, 1},
         NEW s \in MpStates, NEW t \in MpStates, NEW i \in 1..2, NEW c \in M!Chunks \ Used(s),
         StateOK(sz, h, s), \A d \in Used(s) : new[d] = sz[d],
         t.chain[i] = InFront(c, s.chain[i]), t.free[i] <= new[c],
         t.chain[3 - i] = s.chain[3 - i], t.free[3 - i] = s.free[3 - i]
  PROVE  Pushed(sz, new, h, s, t, i, c)
<1>1. /\ s.chain[i] \in Seq(M!Chunks) /\ s.free[i] \in Nat
      /\ (i = 1 /\ 3 - i = 2) \/ (i = 2 /\ 3 - i = 1)
  BY StateType
<1>2. c \in M!Chunks /\ c \notin Elements(s.chain[i])
  BY <1>1 DEF Used
<1>3. /\ t.chain[i] # <<>> /\ Head(t.chain[i]) = c /\ Len(t.chain[i]) = Len(s.chain[i]) + 1
      /\ s.chain[i] # <<>> => t.chain[i][Len(t.chain[i])] = s.chain[i][Len(s.chain[i])]
      /\ Elements(t.chain[i]) = Elements(s.chain[i]) \cup {c}
      /\ NoDuplicates(s.chain[i]) => NoDuplicates(t.chain[i])
      /\ \A a \in Seq(M!Chunks) : EndOf(a, s.chain[i]) => EndOf(a, t.chain[i])
  <2>1. ChainGrown(t.chain[i], s.chain[i], c)
    BY <1>1, <1>2, ChainGrows, Zenon
  <2> QED
    BY <1>2, <2>1, Zenon DEF ChainGrown
<1>4. Used(t) = Used(s) \cup {c}
  <2>1. CASE i = 1
    BY <1>1, <1>3, <2>1 DEF Used
  <2>2. CASE i = 2
    BY <1>1, <1>3, <2>2 DEF Used
  <2> QED
    BY <1>1, <2>1, <2>2
<1>5. /\ TopSize(new, s, 1) = TopSize(sz, s, 1) /\ TopSize(new, s, 2) = TopSize(sz, s, 2)
      /\ \A b : BlockOK(sz, h, s, b) => BlockOK(new, h, s, b)
      /\ StateOK(new, h, s)
  BY SizesKept
<1>6. TopSize(new, t, i) = new[c] /\ TopSize(new, t, 3 - i) = TopSize(new, s, 3 - i)
  BY <1>3 DEF TopSize
<1>7. StateOK(new, h, t)
  <2>1. t.free[1] <= TopSize(new, t, 1) /\ t.free[2] <= TopSize(new, t, 2)
    BY <1>1, <1>5, <1>6 DEF StateOK
  <2>2. ASSUME h # 0
        PROVE  /\ t.chain[1] # <<>> /\ t.chain[1][Len(t.chain[1])] = h
               /\ Head(t.chain[1]) = h => t.free[1] <= ChunkSize - StateSize
    <3>1. /\ s.chain[1] # <<>> /\ s.chain[1][Len(s.chain[1])] = h
          /\ Head(s.chain[1]) = h => s.free[1] <= ChunkSize - StateSize
      BY <2>2 DEF StateOK
    <3>2. CASE i = 1
      <4>1. Len(s.chain[1]) \in DOMAIN s.chain[1]
        BY <1>1, <3>1, <3>2
      <4>2. h \in Used(s)
        BY <3>1, <4>1 DEF Used, Elements
      <4>3. h # c
        BY <4>2
      <4> QED
        BY <1>3, <3>1, <3>2, <4>3
    <3>3. CASE i = 2
      BY <1>1, <3>1, <3>3
    <3> QED
      BY <1>1, <3>2, <3>3
  <2> QED
    BY <2>1, <2>2 DEF StateOK
<1>8. ASSUME NEW b, BlockOK(sz, h, s, b) PROVE BlockOK(new, h, t, b) /\ b.chunk # c
  <2>1. BlockOK(new, h, s, b)
    BY <1>5, <1>8
  <2>2. CASE b.chunk = 0
    <3>1. c # 0
      BY DEF M!Chunks
    <3> QED
      BY <2>1, <2>2, <3>1 DEF BlockOK
  <2>3. CASE b.chunk # 0
    <3>1. b.chunk \in Used(s)
      BY <2>1, <2>3 DEF BlockOK
    <3>2. b.chunk # c /\ b.chunk \in Used(t)
      BY <1>4, <3>1
    <3>3. ASSUME NEW k \in 1..2, t.chain[k] # <<>>, b.chunk = Head(t.chain[k])
          PROVE  b.from + b.len <= new[b.chunk] - t.free[k]
      <4>1. k = 3 - i
        BY <1>1, <1>3, <3>2, <3>3
      <4> QED
        BY <2>1, <2>3, <3>3, <4>1 DEF BlockOK
    <3> QED
      BY <2>1, <2>3, <3>2, <3>3 DEF BlockOK
  <2> QED
    BY <2>2, <2>3
<1>9. ASSUME NEW a \in Seq(M!Chunks), NEW k \in 1..2, EndOf(a, s.chain[k])
      PROVE  EndOf(a, t.chain[k])
  <2>1. k = i \/ k = 3 - i
    BY <1>1
  <2> QED
    BY <1>3, <1>9, <2>1
<1> QED
  BY <1>3, <1>4, <1>6, <1>7, <1>8, <1>9 DEF Pushed

\* The block b is cut from the free space of chain i, which leaves the state t
BlockCut(sz, h, t, i, bs, avail, n, b) ==
  /\ b \in MpBlocks /\ StateOK(sz, h, t)
  /\ LiveOK(sz, h, t, bs) /\ LiveOK(sz, h, t, Append(bs, b))
  /\ b.chunk = IF t.chain[i] = <<>> THEN 0 ELSE Head(t.chain[i])
  /\ b.from = TopSize(sz, t, i) - avail /\ b.len = n
  /\ t.free[i] = avail - n

\* A block is cut from the free space, of which avail bytes are left.
LEMMA BlockTaken ==
  ASSUME NEW sz \in [M!Chunks -> Nat], NEW h \in {0, 1}, NEW un, NEW big,
         NEW s \in MpStates, NEW t \in MpStates, NEW i \in 1..2,
         NEW bs \in Seq(MpBlocks), NEW avail \in Nat, NEW n \in Nat, NEW b,
         ChunksOK(sz, s, un, big), StateOK(sz, h, s), LiveOK(sz, h, s, bs),
         avail <= s.free[i], n <= avail, b = M!Block(i, sz, s, avail, n),
         t.chain = s.chain, t.free = [s.free EXCEPT ![i] = avail - n]
  PROVE  BlockCut(sz, h, t, i, bs, avail, n, b)
<1>1. /\ s.chain[1] \in Seq(M!Chunks) /\ s.chain[2] \in Seq(M!Chunks)
      /\ s.free[1] \in Nat /\ s.free[2] \in Nat /\ s.free \in [1..2 -> Nat]
      /\ (i = 1 /\ 3 - i = 2) \/ (i = 2 /\ 3 - i = 1)
  BY StateType
<1>2. /\ t.free[i] = avail - n /\ t.free[3 - i] = s.free[3 - i] /\ t.free[i] <= s.free[i]
      /\ \A k \in 1..2 : t.free[k] <= s.free[k] /\ t.free[k] \in Nat /\ s.free[k] \in Nat
  BY <1>1, StateType
<1>3. \A k \in 1..2 : TopSize(sz, t, k) = TopSize(sz, s, k) /\ TopSize(sz, s, k) \in Nat
  BY TopFacts DEF TopSize
<1>4. Used(t) = Used(s) /\ Used(s) \subseteq M!Chunks /\ 0 \notin M!Chunks
  BY TopFacts DEF Used, M!Chunks
<1>5. avail <= TopSize(sz, s, i)
  BY <1>1, <1>3 DEF StateOK
<1>a. \A e, z, f, g \in Int : e <= z - f /\ g <= f => e <= z - g
  OBVIOUS
<1>b. \A f, g, e \in Int : g <= f /\ f <= e => g <= e
  OBVIOUS
<1>6. StateOK(sz, h, t)
  <2>1. /\ s.free[1] <= TopSize(sz, s, 1) /\ s.free[2] <= TopSize(sz, s, 2)
        /\ h # 0 => /\ s.chain[1] # <<>> /\ s.chain[1][Len(s.chain[1])] = h
                    /\ Head(s.chain[1]) = h => s.free[1] <= ChunkSize - StateSize
    BY Zenon DEF StateOK
  <2>2. /\ t.free[1] \in Int /\ s.free[1] \in Int /\ t.free[1] <= s.free[1]
        /\ t.free[2] \in Int /\ s.free[2] \in Int /\ t.free[2] <= s.free[2]
        /\ TopSize(sz, s, 1) \in Int /\ TopSize(sz, s, 2) \in Int
        /\ ChunkSize - StateSize \in Int
    BY <1>2, <1>3, MempoolAssumption
  <2>3. t.free[1] <= TopSize(sz, t, 1) /\ t.free[2] <= TopSize(sz, t, 2)
    <3>1. TopSize(sz, t, 1) = TopSize(sz, s, 1) /\ TopSize(sz, t, 2) = TopSize(sz, s, 2)
      BY <1>3
    <3>2. t.free[1] <= TopSize(sz, s, 1)
      BY <1>b, <2>1, <2>2, Zenon
    <3>3. t.free[2] <= TopSize(sz, s, 2)
      <4>1. s.free[2] <= TopSize(sz, s, 2)
        BY <2>1
      <4>2. t.free[2] <= s.free[2]
        BY <2>2
      <4>3. t.free[2] \in Int /\ s.free[2] \in Int /\ TopSize(sz, s, 2) \in Int
        BY <2>2
      <4> QED
        BY <4>1, <4>2, <4>3
    <3> QED
      BY <3>1, <3>2, <3>3, Zenon
  <2>4. s.free[1] <= ChunkSize - StateSize => t.free[1] <= ChunkSize - StateSize
    BY <1>b, <2>2, Zenon
  <2> QED
    BY <2>1, <2>3, <2>4, Zenon DEF StateOK
<1>7. /\ b.chunk = (IF s.chain[i] = <<>> THEN 0 ELSE Head(s.chain[i])) /\ b.len = n
      /\ b.from = IF s.chain[i] = <<>> THEN 0 ELSE sz[Head(s.chain[i])] - avail
      /\ b = [chunk |-> b.chunk, from |-> b.from, len |-> b.len]
  BY DEF M!Block
<1>8. b.from = TopSize(sz, s, i) - avail /\ b.from \in Nat
  <2>1. CASE s.chain[i] = <<>>
    BY <1>3, <1>5, <1>7, <2>1 DEF TopSize
  <2>2. CASE s.chain[i] # <<>>
    BY <1>3, <1>5, <1>7, <2>2 DEF TopSize
  <2> QED
    BY <2>1, <2>2
<1>9. b \in MpBlocks
  <2>1. b.chunk \in 0..MaxChunks
    <3>1. M!Chunks \subseteq 0..MaxChunks /\ 0 \in 0..MaxChunks
      BY MempoolAssumption DEF M!Chunks
    <3>2. s.chain[i] # <<>> => Head(s.chain[i]) \in M!Chunks
      BY TopFacts
    <3> QED
      BY <1>7, <3>1, <3>2, Zenon
  <2>2. b.from \in Nat /\ b.len \in Nat
    BY <1>7, <1>8
  <2> HIDE DEF M!Block
  <2> QED
    BY <1>7, <2>1, <2>2 DEF MpBlocks
<1>10. ASSUME NEW x \in MpBlocks, BlockOK(sz, h, s, x)
       PROVE  BlockOK(sz, h, t, x) /\ (x.chunk = b.chunk => x.from + x.len <= b.from)
  <2>1. x.from \in Nat /\ x.len \in Nat
    BY DEF MpBlocks
  <2>2. CASE x.chunk = 0
    BY <1>8, <1>10, <2>1, <2>2 DEF BlockOK
  <2>3. CASE x.chunk # 0
    <3>1. /\ x.chunk \in Used(s) /\ x.from + x.len <= sz[x.chunk]
          /\ x.chunk = h => x.from >= StateSize
          /\ \A k \in 1..2 : s.chain[k] # <<>> /\ x.chunk = Head(s.chain[k]) =>
               x.from + x.len <= sz[x.chunk] - s.free[k]
      BY <1>10, <2>3 DEF BlockOK
    <3>2. sz[x.chunk] \in Nat
      BY <1>4, <3>1
    <3>3. ASSUME NEW k \in 1..2, t.chain[k] # <<>>, x.chunk = Head(t.chain[k])
          PROVE  x.from + x.len <= sz[x.chunk] - t.free[k]
      <4>1. x.from + x.len <= sz[x.chunk] - s.free[k]
        BY <3>1, <3>3
      <4>2. t.free[k] <= s.free[k] /\ t.free[k] \in Nat /\ s.free[k] \in Nat
        BY <1>2
      <4> QED
        <5>1. /\ x.from + x.len \in Int /\ sz[x.chunk] \in Int
              /\ s.free[k] \in Int /\ t.free[k] \in Int
          BY <2>1, <3>2, <4>2
        <5> QED
          BY <1>a, <4>1, <4>2, <5>1, Zenon
    <3>4. BlockOK(sz, h, t, x)
      BY <1>4, <2>3, <3>1, <3>3 DEF BlockOK
    <3>5. ASSUME x.chunk = b.chunk PROVE x.from + x.len <= b.from
      <4>1. s.chain[i] # <<>> /\ x.chunk = Head(s.chain[i])
        BY <1>7, <2>3, <3>5
      <4>2. x.from + x.len <= sz[x.chunk] - s.free[i] /\ b.from = sz[x.chunk] - avail
        BY <1>7, <3>1, <4>1
      <4> QED
        <5>1. x.from + x.len \in Int /\ sz[x.chunk] \in Int /\ s.free[i] \in Int /\ avail \in Int
          BY <1>2, <2>1, <3>2, SMTT(30)
        <5>2. x.from + x.len <= sz[x.chunk] - avail
          BY <1>a, <4>2, <5>1, Zenon
        <5> QED
          BY <4>2, <5>2, Zenon
    <3> QED
      BY <3>4, <3>5
  <2> QED
    BY <2>2, <2>3
<1>11. BlockOK(sz, h, t, b)
  <2>1. CASE s.chain[i] = <<>>
    BY <1>3, <1>5, <1>7, <1>8, <2>1 DEF BlockOK, TopSize
  <2>2. CASE s.chain[i] # <<>>
    <3>1. /\ b.chunk = Head(s.chain[i]) /\ b.chunk \in Elements(s.chain[i]) /\ b.chunk \in Used(s)
          /\ TopSize(sz, s, i) = sz[b.chunk] /\ b.chunk # 0 /\ sz[b.chunk] \in Nat
      BY <1>4, <1>7, <2>2, TopFacts
    <3>2. b.from + b.len <= sz[b.chunk] - t.free[i]
      BY <1>2, <1>7, <1>8, <3>1
    <3>3. b.from + b.len <= sz[b.chunk]
      BY <1>2, <1>7, <1>8, <3>1
    <3>4. ASSUME b.chunk = h PROVE b.from >= StateSize
      <4>1. h \in Elements(s.chain[1])
        <5>1. s.chain[1] # <<>> /\ s.chain[1][Len(s.chain[1])] = h
          BY <3>1, <3>4 DEF StateOK
        <5>2. Len(s.chain[1]) \in DOMAIN s.chain[1]
          BY <1>1, <5>1
        <5> QED
          BY <5>1, <5>2 DEF Elements
      <4>2. i = 1
        BY <1>1, <3>1, <3>4, <4>1 DEF ChunksOK
      <4>3. s.free[1] <= ChunkSize - StateSize
        BY <3>1, <3>4, <4>2 DEF StateOK
      <4>4. sz[b.chunk] = ChunkSize
        BY <1>4, <3>1, <3>4, <4>1 DEF ChunksOK
      <4> QED
        <5>1. avail <= ChunkSize - StateSize /\ ChunkSize \in Int /\ StateSize \in Int
          BY <1>1, <4>2, <4>3, MempoolAssumption
        <5>2. b.from = ChunkSize - avail
          BY <1>8, <3>1, <4>4, Zenon
        <5> QED
          BY <5>1, <5>2
    <3>5. ASSUME NEW k \in 1..2, t.chain[k] # <<>>, b.chunk = Head(t.chain[k])
          PROVE  b.from + b.len <= sz[b.chunk] - t.free[k]
      <4>1. b.chunk \in Elements(s.chain[k])
        BY <3>5, TopFacts
      <4>2. Elements(s.chain[1]) \cap Elements(s.chain[2]) = {}
        BY DEF ChunksOK
      <4>3. k = i
        <5>1. k = i \/ (k = 1 /\ i = 2) \/ (k = 2 /\ i = 1)
          BY <1>1
        <5> QED
          BY <3>1, <4>1, <4>2, <5>1, Zenon
      <4> QED
        BY <3>2, <4>3
    <3> QED
      BY <1>4, <3>1, <3>3, <3>4, <3>5 DEF BlockOK
  <2> QED
    BY <2>1, <2>2
<1>12. \A k \in DOMAIN bs : bs[k] \in MpBlocks /\ BlockOK(sz, h, s, bs[k])
  BY DEF LiveOK
<1>13. LiveOK(sz, h, t, bs)
  BY <1>10, <1>12 DEF LiveOK
<1>14. LiveOK(sz, h, t, Append(bs, b))
  <2> DEFINE q == Append(bs, b)
  <2>1. /\ Len(bs) \in Nat /\ DOMAIN bs = 1..Len(bs) /\ DOMAIN q = 1..(Len(bs) + 1)
        /\ q[Len(bs) + 1] = b /\ \A k \in 1..Len(bs) : q[k] = bs[k]
    BY <1>9
  <2> HIDE DEF q
  <2>2. ASSUME NEW k \in DOMAIN q PROVE BlockOK(sz, h, t, q[k])
    <3>1. k \in DOMAIN bs \/ k = Len(bs) + 1
      BY <2>1
    <3> QED
      BY <1>10, <1>11, <1>12, <2>1, <3>1
  <2>3. ASSUME NEW m \in DOMAIN q, NEW k \in DOMAIN q, m < k, q[m].chunk = q[k].chunk
        PROVE  q[m].from + q[m].len <= q[k].from
    <3>1. m \in DOMAIN bs /\ (k \in DOMAIN bs \/ k = Len(bs) + 1)
      BY <2>1, <2>3
    <3>2. CASE k \in DOMAIN bs
      BY <1>13, <2>1, <2>3, <3>1, <3>2 DEF LiveOK
    <3>3. CASE k = Len(bs) + 1
      BY <1>10, <1>12, <2>1, <2>3, <3>1, <3>3
    <3> QED
      BY <3>1, <3>2, <3>3
  <2> QED
    BY <2>2, <2>3 DEF LiveOK, q
<1>15. /\ b.chunk = IF t.chain[i] = <<>> THEN 0 ELSE Head(t.chain[i])
       /\ b.from = TopSize(sz, t, i) - avail /\ TopSize(sz, t, i) = TopSize(sz, s, i)
  BY <1>3, <1>7, <1>8
<1> QED
  BY <1>2, <1>6, <1>7, <1>9, <1>13, <1>14, <1>15 DEF BlockCut

\* A new chunk does not exist yet.
LEMMA NewChunkFacts ==
  ASSUME M!HasNewChunk
  PROVE  M!NewChunk \in M!Chunks /\ size[M!NewChunk] = 0
<1> DEFINE U == {c \in M!Chunks : size[c] = 0}
<1>1. U \subseteq Nat /\ U # {}
  BY MempoolAssumption DEF M!HasNewChunk, M!Chunks
<1> HIDE DEF U
<1>2. \E x \in U : \A y \in U : x <= y
  BY <1>1, LeastNatural
<1>3. M!Min(U) \in U
  BY <1>2 DEF M!Min
<1>4. M!NewChunk = M!Min(U)
  BY DEF M!NewChunk, U
<1> QED
  BY <1>3, <1>4 DEF U

\* The sizes of the chunks added up.
LEMMA SumIsTotal ==
  \A cs : M!SumSizes(cs) = TotalOf(size, cs)
BY DEF M!SumSizes, TotalOf

\* The pool may go on with the state s, in which avail bytes of chain i are
\* free, after taking keep of them
Room(s, i, avail, keep) ==
  /\ size' \in [M!Chunks -> Nat] /\ total' \in Int /\ unused' \in Seq(M!Chunks)
  /\ idx' \in 1..2 /\ poolState' \in MpStates /\ s \in MpStates
  /\ total' = TotalOf(size', M!Chunks)
  /\ i \in 1..2 /\ avail \in Nat /\ keep <= avail /\ avail <= s.free[i]
  /\ poolState'.chain = s.chain /\ poolState'.free = [s.free EXCEPT ![i] = avail - keep]
  /\ ChunksOK(size', s, unused', lastBig') /\ StateOK(size', home, s)
  /\ LiveOK(size', home, s, liveBlocks)
  /\ \A k \in 1..2, a \in Seq(M!Chunks) : EndOf(a, poolState.chain[k]) => EndOf(a, s.chain[k])
  /\ \A c \in Used(poolState) : size'[c] = size[c]
  /\ i = 2 => /\ s.chain[2] # <<>> /\ lastBig' = Head(s.chain[2]) /\ avail = TopSize(size', s, 2)
              /\ Len(poolState.chain[2]) < Len(s.chain[2])

\* There is enough free space in the first chain.
LEMMA RoomInChunk ==
  ASSUME MempoolInv, NEW avail \in Nat, NEW keep \in Nat, keep <= avail, avail <= poolState.free[1],
         poolState' = [poolState EXCEPT !.free[1] = avail - keep],
         UNCHANGED <<size, total, unused, lastBig>>, idx' \in 1..2
  PROVE  Room(poolState, 1, avail, keep)
<1>1. /\ size \in [M!Chunks -> Nat] /\ total \in Int /\ unused \in Seq(M!Chunks)
      /\ total = TotalOf(size, M!Chunks) /\ poolState \in MpStates
      /\ ChunksOK(size, poolState, unused, lastBig) /\ StateOK(size, home, poolState)
      /\ LiveOK(size, home, poolState, liveBlocks)
  BY DEF MempoolInv, MpTypes, StateOK
<1>2. /\ poolState'.chain = poolState.chain
      /\ poolState'.free = [poolState.free EXCEPT ![1] = avail - keep]
      /\ poolState' \in MpStates
  <2>1. avail - keep \in Nat
    OBVIOUS
  <2> QED
    BY <1>1, <2>1 DEF MpStates
<1>3. /\ 1 \in 1..2 /\ 1 # 2
      /\ size' = size /\ total' = total /\ unused' = unused /\ lastBig' = lastBig
  OBVIOUS
<1> QED
  BY <1>1, <1>2, <1>3, Zenon DEF Room

\* The chunk c, of size v, is added to chain i
Added(i, c, v, keep) ==
  /\ v > 0 /\ keep <= v /\ c \notin Used(poolState) /\ idx' = i
  /\ size' \in [M!Chunks -> Nat] /\ size'[c] = v
  /\ \A d \in M!Chunks \ {c} : size'[d] = size[d]
  /\ total' \in Int /\ total' = TotalOf(size', M!Chunks)
  /\ unused' \in Seq(M!Chunks) /\ NoDuplicates(unused')
  /\ Elements(unused') = Elements(unused) \ {c}
  /\ poolState' = [free |-> [poolState.free EXCEPT ![i] = v - keep],
                   chain |-> [poolState.chain EXCEPT ![i] = InFront(c, poolState.chain[i])]]
  /\ i = 1 => v = ChunkSize /\ lastBig' = lastBig
  /\ i = 2 => lastBig' = c

\* mp_alloc_internal of n bytes.
LEMMA RoomInternal ==
  ASSUME MempoolInv, NEW n \in Nat, NEW keep \in Nat, keep <= n, M!AllocInternal(n, keep)
  PROVE  \E s \in MpStates : s.free[idx'] \in Nat /\ Room(s, idx', s.free[idx'], keep)
<1> DEFINE st == poolState
<1>1. /\ size \in [M!Chunks -> Nat] /\ total \in Int /\ unused \in Seq(M!Chunks)
      /\ total = TotalOf(size, M!Chunks) /\ st \in MpStates /\ home \in {0, 1}
      /\ ChunksOK(size, st, unused, lastBig) /\ StateOK(size, home, st)
      /\ LiveOK(size, home, st, liveBlocks)
  BY DEF MempoolInv, MpTypes, StateOK
<1>2. /\ st.chain[1] \in Seq(M!Chunks) /\ st.chain[2] \in Seq(M!Chunks)
      /\ st.chain \in [1..2 -> Seq(M!Chunks)] /\ st.free \in [1..2 -> Nat]
  BY <1>1, StateType
<1>3. ChunkSize \in Nat /\ ChunkSize > 0
  BY MempoolAssumption
<1>4. ASSUME NEW i \in 1..2, NEW c \in M!Chunks, NEW v \in Nat, Added(i, c, v, keep)
      PROVE  \E s \in MpStates : s.free[idx'] \in Nat /\ Room(s, idx', s.free[idx'], keep)
  <2>0. /\ v > 0 /\ keep <= v /\ c \notin Used(st) /\ idx' = i
        /\ size' \in [M!Chunks -> Nat] /\ size'[c] = v
        /\ \A d \in M!Chunks \ {c} : size'[d] = size[d]
        /\ total' \in Int /\ total' = TotalOf(size', M!Chunks)
        /\ unused' \in Seq(M!Chunks) /\ NoDuplicates(unused')
        /\ Elements(unused') = Elements(unused) \ {c}
        /\ poolState' = [free |-> [st.free EXCEPT ![i] = v - keep],
                         chain |-> [st.chain EXCEPT ![i] = InFront(c, st.chain[i])]]
        /\ i = 1 => v = ChunkSize /\ lastBig' = lastBig
        /\ i = 2 => lastBig' = c
    BY <1>4, Zenon DEF Added
  <2> DEFINE s == [free |-> [st.free EXCEPT ![i] = v],
                   chain |-> [st.chain EXCEPT ![i] = InFront(c, st.chain[i])]]
  <2>1. InFront(c, st.chain[i]) \in Seq(M!Chunks)
    BY <1>2 DEF InFront
  <2>2. /\ s \in MpStates /\ s.free[i] = v /\ s.chain[i] = InFront(c, st.chain[i])
        /\ s.chain[3 - i] = st.chain[3 - i] /\ s.free[3 - i] = st.free[3 - i]
        /\ s.free = [st.free EXCEPT ![i] = v]
        /\ s.chain = [st.chain EXCEPT ![i] = InFront(c, st.chain[i])]
    <3>1. (i = 1 /\ 3 - i = 2) \/ (i = 2 /\ 3 - i = 1)
      OBVIOUS
    <3> QED
      BY <1>2, <2>1, <3>1 DEF MpStates
  <2>3. v - keep \in Nat
    BY <2>0
  <2>4. /\ poolState'.chain = s.chain /\ poolState'.free = [s.free EXCEPT ![i] = v - keep]
        /\ poolState' \in MpStates
    <3>1. /\ poolState'.chain = [st.chain EXCEPT ![i] = InFront(c, st.chain[i])]
          /\ poolState'.free = [st.free EXCEPT ![i] = v - keep]
      BY <1>2, <2>0
    <3>2. [s.free EXCEPT ![i] = v - keep] = [st.free EXCEPT ![i] = v - keep]
      BY <1>2, <2>2
    <3>3. poolState' = [free |-> poolState'.free, chain |-> poolState'.chain]
      BY <2>0
    <3>4. poolState'.free \in [1..2 -> Nat] /\ poolState'.chain \in [1..2 -> Seq(M!Chunks)]
      BY <1>2, <2>1, <2>3, <3>1
    <3> QED
      BY <2>2, <3>1, <3>2, <3>3, <3>4, Zenon DEF MpStates
  <2> HIDE DEF s
  <2>5. \A d \in Used(st) : size'[d] = size[d]
    <3>1. Used(st) \subseteq M!Chunks
      BY <1>1, TopFacts
    <3> QED
      BY <2>0, <3>1
  <2>6. s.free[i] <= size'[c]
    BY <2>0, <2>2
  <2>7. /\ StateOK(size', home, s)
        /\ \A b : BlockOK(size, home, st, b) => BlockOK(size', home, s, b) /\ b.chunk # c
        /\ s.chain[i] # <<>> /\ Head(s.chain[i]) = c /\ TopSize(size', s, i) = size'[c]
        /\ Used(s) = Used(st) \cup {c} /\ Elements(s.chain[i]) = Elements(st.chain[i]) \cup {c}
        /\ NoDuplicates(st.chain[i]) => NoDuplicates(s.chain[i])
        /\ Len(s.chain[i]) = Len(st.chain[i]) + 1
        /\ \A a \in Seq(M!Chunks), k \in 1..2 : EndOf(a, st.chain[k]) => EndOf(a, s.chain[k])
    <3>1. Pushed(size, size', home, st, s, i, c)
      BY <1>1, <2>0, <2>2, <2>5, <2>6, StatePushed, ZenonT(40)
    <3> QED
      BY <3>1, Zenon DEF Pushed
  <2>8. LiveOK(size', home, s, liveBlocks)
    BY <1>1, <2>7 DEF LiveOK
  <2>9. ChunksOK(size', s, unused', lastBig')
    <3>1. NoDuplicates(s.chain[1]) /\ NoDuplicates(s.chain[2])
      BY <1>1, <2>2, <2>7 DEF ChunksOK
    <3>2. Elements(s.chain[1]) \cap Elements(s.chain[2]) = {}
      <4>1. c \notin Elements(st.chain[1]) /\ c \notin Elements(st.chain[2])
        BY <2>0 DEF Used
      <4>2. Elements(st.chain[1]) \cap Elements(st.chain[2]) = {}
        BY <1>1 DEF ChunksOK
      <4>3. CASE i = 1
        BY <2>2, <2>7, <4>1, <4>2, <4>3
      <4>4. CASE i = 2
        BY <2>2, <2>7, <4>1, <4>2, <4>4
      <4> QED
        BY <4>3, <4>4
    <3>3. Elements(unused') \cap Used(s) = {}
      BY <1>1, <2>0, <2>7 DEF ChunksOK
    <3>4. ASSUME NEW d \in M!Chunks
          PROVE  /\ d \in Elements(s.chain[1]) \cup Elements(unused') => size'[d] = ChunkSize
                 /\ size'[d] > 0 <=> d \in Used(s) \cup Elements(unused')
      <4>1. CASE d = c
        <5>1. size'[d] > 0 /\ d \in Used(s) /\ d \notin Elements(unused')
          BY <2>0, <2>7, <4>1
        <5>2. ASSUME d \in Elements(s.chain[1]) PROVE size'[d] = ChunkSize
          <6>1. i = 1
            BY <2>0, <2>2, <4>1, <5>2 DEF Used
          <6> QED
            BY <2>0, <4>1, <6>1
        <5> QED
          BY <5>1, <5>2
      <4>2. CASE d # c
        <5>1. size'[d] = size[d] /\ (d \in Used(s) <=> d \in Used(st))
          BY <2>0, <2>7, <4>2
        <5>2. d \in Elements(unused') <=> d \in Elements(unused)
          BY <2>0, <4>2
        <5>3. d \in Elements(s.chain[1]) <=> d \in Elements(st.chain[1])
          <6>1. CASE i = 1
            BY <2>7, <4>2, <6>1
          <6>2. CASE i = 2
            BY <2>2, <6>2
          <6> QED
            BY <6>1, <6>2
        <5> QED
          BY <1>1, <5>1, <5>2, <5>3 DEF ChunksOK
      <4> QED
        BY <4>1, <4>2
    <3>5. ASSUME lastBig' # 0 PROVE lastBig' \in Elements(s.chain[2])
      <4>1. CASE i = 1
        BY <1>1, <2>0, <2>2, <3>5, <4>1 DEF ChunksOK
      <4>2. CASE i = 2
        BY <2>0, <2>7, <4>2
      <4> QED
        BY <4>1, <4>2
    <3> QED
      BY <2>0, <3>1, <3>2, <3>3, <3>4, <3>5 DEF ChunksOK
  <2>10. i = 2 => /\ s.chain[2] # <<>> /\ lastBig' = Head(s.chain[2]) /\ v = TopSize(size', s, 2)
                  /\ Len(st.chain[2]) < Len(s.chain[2])
    <3> SUFFICES ASSUME i = 2
                 PROVE  /\ s.chain[2] # <<>> /\ lastBig' = Head(s.chain[2])
                        /\ v = TopSize(size', s, 2)
                        /\ Len(st.chain[2]) < Len(s.chain[2])
      OBVIOUS
    <3>1. Len(st.chain[2]) \in Nat
      BY <1>2
    <3>2. s.chain[2] # <<>> /\ Head(s.chain[2]) = c /\ TopSize(size', s, 2) = size'[c]
      BY <2>7, Zenon
    <3>3. Len(s.chain[2]) = Len(st.chain[2]) + 1
      BY <2>7, Zenon
    <3>4. lastBig' = c /\ size'[c] = v
      BY <2>0, Zenon
    <3>5. Len(st.chain[2]) < Len(s.chain[2])
      BY <3>1, <3>3
    <3> HIDE DEF s, st
    <3> QED
      BY <3>2, <3>4, <3>5
  <2>11. Room(s, i, v, keep)
    <3>1. v <= s.free[i] /\ i \in 1..2
      BY <2>2
    <3>2. idx' \in 1..2
      BY <2>0
    <3> QED
      BY <2>0, <2>2, <2>4, <2>5, <2>7, <2>8, <2>9, <2>10, <3>1, <3>2, Zenon DEF Room
  <2> QED
    BY <2>0, <2>2, <2>11
<1>5. CASE n <= ChunkSize \div 2
  <2>1. keep <= ChunkSize
    BY <1>3, <1>5
  <2>2. CASE unused # <<>>
    <3> DEFINE c == Head(unused)
    <3>1. /\ idx' = 1 /\ UNCHANGED <<size, total, lastBig>> /\ unused' = Tail(unused)
          /\ poolState' = [free |-> [st.free EXCEPT ![1] = ChunkSize - keep],
                           chain |-> [st.chain EXCEPT ![1] = InFront(c, st.chain[1])]]
      BY <1>5, <2>2 DEF M!AllocInternal, InFront
    <3>2. /\ c \in M!Chunks /\ c \in Elements(unused) /\ unused' \in Seq(M!Chunks)
          /\ NoDuplicates(unused') /\ Elements(unused') = Elements(unused) \ {c}
      BY <1>1, <2>2, <3>1, TailFacts DEF ChunksOK
    <3>3. c \notin Used(st) /\ size'[c] = ChunkSize
      BY <1>1, <3>1, <3>2 DEF ChunksOK
    <3> HIDE DEF c
    <3>4. Added(1, c, ChunkSize, keep)
      BY <1>1, <1>3, <2>1, <3>1, <3>2, <3>3 DEF Added
    <3> QED
      BY <1>3, <1>4, <3>2, <3>4
  <2>3. CASE unused = <<>>
    <3> DEFINE c == M!NewChunk
    <3>1. /\ idx' = 1 /\ UNCHANGED <<unused, lastBig>> /\ M!HasNewChunk
          /\ size' = [size EXCEPT ![c] = ChunkSize] /\ total' = total + ChunkSize
          /\ poolState' = [free |-> [st.free EXCEPT ![1] = ChunkSize - keep],
                           chain |-> [st.chain EXCEPT ![1] = InFront(c, st.chain[1])]]
      BY <1>5, <2>3 DEF M!AllocInternal, InFront
    <3>2. c \in M!Chunks /\ size[c] = 0
      BY <3>1, NewChunkFacts
    <3> HIDE DEF c
    <3>3. c \notin Used(st) /\ c \notin Elements(unused)
      BY <1>1, <3>2 DEF ChunksOK
    <3>4. total' \in Int /\ total' = TotalOf(size', M!Chunks)
      <4>1. TotalOf(size', M!Chunks) = (TotalOf(size, M!Chunks) - size[c]) + ChunkSize
        BY <1>1, <1>3, <3>1, <3>2, TotalChanged
      <4> QED
        BY <1>1, <1>3, <3>1, <3>2, <4>1
    <3>5. /\ size' \in [M!Chunks -> Nat] /\ size'[c] = ChunkSize
          /\ \A d \in M!Chunks \ {c} : size'[d] = size[d]
      BY <1>1, <1>3, <3>1, <3>2
    <3>6. /\ unused' \in Seq(M!Chunks) /\ NoDuplicates(unused')
          /\ Elements(unused') = Elements(unused) \ {c}
      BY <1>1, <3>1, <3>3 DEF ChunksOK
    <3>7. Added(1, c, ChunkSize, keep)
      BY <1>3, <2>1, <3>1, <3>2, <3>3, <3>4, <3>5, <3>6 DEF Added
    <3> QED
      BY <1>3, <1>4, <3>2, <3>7
  <2> QED
    BY <2>2, <2>3
<1>6. CASE ~(n <= ChunkSize \div 2)
  <2> DEFINE c == M!NewChunk
             v == M!Aligned(n)
  <2>1. /\ idx' = 2 /\ UNCHANGED unused /\ lastBig' = c /\ M!HasNewChunk
        /\ size' = [size EXCEPT ![c] = v] /\ total' = total + v
        /\ poolState' = [free |-> [st.free EXCEPT ![2] = v - keep],
                         chain |-> [st.chain EXCEPT ![2] = InFront(c, st.chain[2])]]
    BY <1>6 DEF M!AllocInternal, InFront
  <2>2. c \in M!Chunks /\ size[c] = 0
    BY <2>1, NewChunkFacts
  <2>3. v \in Nat /\ v >= n
    BY AlignFacts
  <2>4. n > 0
    BY <1>3, <1>6
  <2> HIDE DEF c, v
  <2>5. v > 0 /\ keep <= v
    BY <2>3, <2>4
  <2>6. c \notin Used(st) /\ c \notin Elements(unused)
    BY <1>1, <2>2 DEF ChunksOK
  <2>7. total' \in Int /\ total' = TotalOf(size', M!Chunks)
    <3>1. TotalOf(size', M!Chunks) = (TotalOf(size, M!Chunks) - size[c]) + v
      BY <1>1, <2>1, <2>2, <2>3, TotalChanged
    <3> QED
      BY <1>1, <2>1, <2>2, <2>3, <3>1
  <2>8. /\ size' \in [M!Chunks -> Nat] /\ size'[c] = v
        /\ \A d \in M!Chunks \ {c} : size'[d] = size[d]
    BY <1>1, <2>1, <2>2, <2>3
  <2>9. /\ unused' \in Seq(M!Chunks) /\ NoDuplicates(unused')
        /\ Elements(unused') = Elements(unused) \ {c}
    BY <1>1, <2>1, <2>6 DEF ChunksOK
  <2>10. Added(2, c, v, keep)
    BY <2>1, <2>2, <2>3, <2>5, <2>6, <2>7, <2>8, <2>9 DEF Added
  <2> QED
    BY <1>4, <2>2, <2>3, <2>10
<1> QED
  BY <1>5, <1>6

\* The parts of the invariant.
LEMMA MempoolParts ==
  ASSUME MempoolInv
  PROVE  /\ size \in [M!Chunks -> Nat] /\ total \in Int /\ unused \in Seq(M!Chunks)
         /\ idx \in 1..2 /\ home \in {0, 1} /\ poolState \in MpStates
         /\ liveBlocks \in Seq(MpBlocks) /\ saved \in Seq([st : MpStates, blocks : Nat])
         /\ opened \in BOOLEAN /\ canRealloc \in BOOLEAN
         /\ ChunksOK(size, poolState, unused, lastBig) /\ total = TotalOf(size, M!Chunks)
         /\ StateOK(size, home, poolState) /\ LiveOK(size, home, poolState, liveBlocks)
         /\ \A w \in DOMAIN saved : /\ saved[w] \in [st : MpStates, blocks : Nat]
                                    /\ saved[w].st \in MpStates /\ saved[w].blocks \in Nat
                                    /\ SavedOK(size, home, poolState, liveBlocks, saved[w])
         /\ SavedInOrder(saved)
<1>1. /\ size \in [M!Chunks -> Nat] /\ total \in Int /\ unused \in Seq(M!Chunks)
      /\ idx \in 1..2 /\ home \in {0, 1} /\ poolState \in MpStates
      /\ liveBlocks \in Seq(MpBlocks) /\ saved \in Seq([st : MpStates, blocks : Nat])
      /\ opened \in BOOLEAN /\ canRealloc \in BOOLEAN
  BY Zenon DEF MempoolInv, MpTypes, StateOK
<1>2. \A w \in DOMAIN saved : /\ saved[w] \in [st : MpStates, blocks : Nat]
                              /\ saved[w].st \in MpStates /\ saved[w].blocks \in Nat
  <2> DEFINE S == [st : MpStates, blocks : Nat]
  <2>1. \A x \in S : x.st \in MpStates /\ x.blocks \in Nat
    OBVIOUS
  <2>2. saved \in Seq(S)
    BY <1>1
  <2> HIDE DEF S
  <2>3. \A w \in DOMAIN saved : saved[w] \in S
    BY <2>2
  <2> QED
    BY <2>1, <2>3 DEF S
<1> QED
  BY <1>1, <1>2, Zenon DEF MempoolInv

\* The pool after taking a block b of n bytes from the room in the state s
Taken(i, n, b) ==
  /\ b \in MpBlocks /\ poolState' \in MpStates
  /\ StateOK(size', home, poolState') /\ ChunksOK(size', poolState', unused', lastBig')
  /\ LiveOK(size', home, poolState', liveBlocks)
  /\ LiveOK(size', home, poolState', Append(liveBlocks, b))
  /\ \A w \in DOMAIN saved :
       /\ SavedOK(size', home, poolState', liveBlocks, saved[w])
       /\ SavedOK(size', home, poolState', Append(liveBlocks, b), saved[w])
  /\ SavedOK(size', home, poolState', Append(liveBlocks, b),
             [st |-> poolState, blocks |-> Len(liveBlocks)])
  /\ i = 2 => /\ NewBig(poolState', lastBig', saved)
              /\ poolState'.free[2] = TopSize(size', poolState', 2) - n
  /\ AtEnd(size', poolState', lastBig', saved, b)

\* A block is taken from the room found.
LEMMA RoomTaken ==
  ASSUME MempoolInv, NEW s \in MpStates, NEW i \in 1..2, NEW avail \in Nat, NEW n \in Nat,
         Room(s, i, avail, n), NEW b, b = M!Block(i, size', s, avail, n)
  PROVE  Taken(i, n, b)
<1> DEFINE t == poolState'
           more == Append(liveBlocks, b)
<1>1. /\ size \in [M!Chunks -> Nat] /\ home \in {0, 1} /\ poolState \in MpStates
      /\ liveBlocks \in Seq(MpBlocks) /\ StateOK(size, home, poolState)
      /\ LiveOK(size, home, poolState, liveBlocks)
      /\ \A w \in DOMAIN saved : /\ saved[w] \in [st : MpStates, blocks : Nat]
                                 /\ saved[w].st \in MpStates /\ saved[w].blocks \in Nat
                                 /\ SavedOK(size, home, poolState, liveBlocks, saved[w])
  BY MempoolParts, Zenon
<1>2. /\ size' \in [M!Chunks -> Nat] /\ t \in MpStates
      /\ n <= avail /\ avail <= s.free[i]
      /\ t.chain = s.chain /\ t.free = [s.free EXCEPT ![i] = avail - n]
      /\ ChunksOK(size', s, unused', lastBig') /\ StateOK(size', home, s)
      /\ LiveOK(size', home, s, liveBlocks)
      /\ \A k \in 1..2, a \in Seq(M!Chunks) : EndOf(a, poolState.chain[k]) => EndOf(a, s.chain[k])
      /\ \A c \in Used(poolState) : size'[c] = size[c]
      /\ i = 2 => /\ s.chain[2] # <<>> /\ lastBig' = Head(s.chain[2])
                  /\ avail = TopSize(size', s, 2)
                  /\ Len(poolState.chain[2]) < Len(s.chain[2])
  BY Zenon DEF Room
<1> HIDE DEF t
<1>3. /\ b \in MpBlocks /\ StateOK(size', home, t)
      /\ LiveOK(size', home, t, liveBlocks) /\ LiveOK(size', home, t, more)
      /\ b.chunk = IF t.chain[i] = <<>> THEN 0 ELSE Head(t.chain[i])
      /\ b.from = TopSize(size', t, i) - avail /\ b.len = n
      /\ TopSize(size', t, i) = TopSize(size', s, i) /\ t.free[i] = avail - n
  <2>1. BlockCut(size', home, t, i, liveBlocks, avail, n, b)
    BY <1>1, <1>2, BlockTaken, Zenon
  <2>2. TopSize(size', t, i) = TopSize(size', s, i)
    BY <1>2 DEF TopSize
  <2> QED
    BY <2>1, <2>2, Zenon DEF BlockCut, more
<1>4. ChunksOK(size', t, unused', lastBig')
  BY <1>2 DEF ChunksOK, Used
<1>5. /\ Len(more) = Len(liveBlocks) + 1 /\ Len(liveBlocks) \in Nat
      /\ \A k \in 1..Len(liveBlocks) : more[k] = liveBlocks[k]
  BY <1>1, <1>3
<1> HIDE DEF more
<1>6. ASSUME NEW old \in [st : MpStates, blocks : Nat],
             SavedOK(size, home, poolState, liveBlocks, old)
      PROVE  /\ SavedOK(size', home, t, liveBlocks, old) /\ SavedOK(size', home, t, more, old)
             /\ Len(old.st.chain[2]) <= Len(poolState.chain[2])
  <2>1. /\ old.st \in MpStates /\ old.blocks \in Nat /\ old.blocks <= Len(liveBlocks)
        /\ \A k \in 1..2 : EndOf(old.st.chain[k], poolState.chain[k])
    BY <1>6 DEF SavedOK
  <2>2. \A k \in 1..2 : EndOf(old.st.chain[k], t.chain[k])
    <3>1. \A k \in 1..2 : old.st.chain[k] \in Seq(M!Chunks)
      BY <2>1 DEF MpStates
    <3> QED
      BY <1>2, <2>1, <3>1
  <2>3. \A c \in Used(old.st) : size'[c] = size[c]
    BY <1>1, <1>2, <2>1, OlderUsed
  <2>4. SavedOK(size', home, t, liveBlocks, old)
    BY <1>1, <1>2, <1>6, <2>1, <2>2, <2>3, SavedKept
  <2>5. old.blocks <= Len(more) /\ \A k \in 1..old.blocks : more[k] = liveBlocks[k]
    BY <1>5, <2>1
  <2>6. SavedOK(size', home, t, more, old)
    BY <1>1, <1>2, <1>6, <2>1, <2>2, <2>3, <2>5, SavedKept
  <2> QED
    BY <2>1, <2>4, <2>6 DEF EndOf
<1>7. \A w \in DOMAIN saved : /\ SavedOK(size', home, t, liveBlocks, saved[w])
                              /\ SavedOK(size', home, t, more, saved[w])
                              /\ Len(saved[w].st.chain[2]) <= Len(poolState.chain[2])
  BY <1>1, <1>6
<1>8. SavedOK(size', home, t, more, [st |-> poolState, blocks |-> Len(liveBlocks)])
  <2> DEFINE now == [st |-> poolState, blocks |-> Len(liveBlocks)]
  <2>1. now \in [st : MpStates, blocks : Nat] /\ now.st = poolState /\ now.blocks = Len(liveBlocks)
    BY <1>1, <1>5
  <2> HIDE DEF now
  <2>2. \A k \in 1..2 : EndOf(poolState.chain[k], poolState.chain[k])
    BY <1>1, StateType, EndsNested
  <2>3. \A k \in 1..Len(liveBlocks) : BlockOK(size, home, poolState, liveBlocks[k])
    BY <1>1 DEF LiveOK
  <2>4. SavedOK(size, home, poolState, liveBlocks, now)
    BY <1>1, <1>5, <2>1, <2>2, <2>3 DEF SavedOK
  <2> QED
    BY <1>6, <2>1, <2>4 DEF now
<1>9. ASSUME i = 2
      PROVE  NewBig(t, lastBig', saved) /\ t.free[2] = TopSize(size', t, 2) - n
             /\ b.from = 0 /\ b.chunk = lastBig' /\ b.len + t.free[2] = TopSize(size', t, 2)
  <2>1. /\ t.chain[2] # <<>> /\ lastBig' = Head(t.chain[2]) /\ avail = TopSize(size', t, 2)
        /\ Len(poolState.chain[2]) < Len(t.chain[2])
    BY <1>2, <1>3, <1>9
  <2>2. \A w \in DOMAIN saved : Len(saved[w].st.chain[2]) < Len(t.chain[2])
    <3> SUFFICES ASSUME NEW w \in DOMAIN saved PROVE Len(saved[w].st.chain[2]) < Len(t.chain[2])
      OBVIOUS
    <3> DEFINE x == saved[w].st.chain[2]
               y == poolState.chain[2]
               z == t.chain[2]
    <3>1. x \in Seq(M!Chunks)
      BY <1>1, StateType
    <3>2. y \in Seq(M!Chunks) /\ z \in Seq(M!Chunks)
      BY <1>1, <1>2, StateType
    <3>3. Len(x) <= Len(y)
      BY <1>7
    <3>4. Len(y) < Len(z)
      BY <2>1
    <3> HIDE DEF x, y, z
    <3>5. Len(x) < Len(z)
      BY <3>1, <3>2, <3>3, <3>4
    <3> QED
      BY <3>5 DEF x, z
  <2>3. NewBig(t, lastBig', saved)
    BY <2>1, <2>2 DEF NewBig
  <2>4. b.chunk = lastBig' /\ b.from = 0 /\ b.len = n /\ t.free[2] = avail - n
    BY <1>3, <1>9, <2>1
  <2> QED
    BY <2>1, <2>3, <2>4
<1>10. AtEnd(size', t, lastBig', saved, b)
  <2>1. CASE i = 1
    <3>1. TopSize(size', t, 1) \in Nat
      BY <1>2, TopFacts
    <3> QED
      BY <1>3, <2>1, <3>1 DEF AtEnd
  <2>2. CASE i = 2
    BY <1>9, <2>2 DEF AtEnd
  <2> QED
    BY <2>1, <2>2
<1> QED
  BY <1>2, <1>3, <1>4, <1>7, <1>8, <1>9, <1>10, Zenon DEF Taken, t, more

\* mp_alloc_fast finds room for n bytes.
LEMMA AllocFastRoom ==
  ASSUME MempoolInv, NEW n \in Nat, NEW align \in BOOLEAN, M!AllocFast(n, align)
  PROVE  \E s \in MpStates, i \in 1..2, avail \in Nat :
           /\ Room(s, i, avail, n)
           /\ liveBlocks' = Append(liveBlocks, M!Block(i, size', s, avail, n))
<1> DEFINE avail == IF align THEN M!Down(poolState.free[1]) ELSE poolState.free[1]
<1>1. poolState \in MpStates /\ poolState.free[1] \in Nat /\ idx \in 1..2
  BY MempoolParts, StateType
<1>2. avail \in Nat /\ avail <= poolState.free[1]
  BY <1>1, AlignFacts
<1>3. CASE n <= avail
  <2>1. /\ poolState' = [poolState EXCEPT !.free[1] = avail - n]
        /\ liveBlocks' = Append(liveBlocks, M!Block(1, size, poolState, avail, n))
        /\ UNCHANGED <<size, total, unused, idx, lastBig>>
    BY <1>3 DEF M!AllocFast
  <2> HIDE DEF avail
  <2>2. Room(poolState, 1, avail, n)
    BY <1>1, <1>2, <1>3, <2>1, RoomInChunk
  <2>3. 1 \in 1..2 /\ liveBlocks' = Append(liveBlocks, M!Block(1, size', poolState, avail, n))
    BY <2>1
  <2> QED
    BY <1>1, <1>2, <2>2, <2>3
<1>4. CASE ~(n <= avail)
  <2>1. /\ M!AllocInternal(n, n)
        /\ liveBlocks' =
             Append(liveBlocks, M!Block(idx', size', poolState', poolState'.free[idx'] + n, n))
    BY <1>4 DEF M!AllocFast
  <2>2. PICK s \in MpStates : s.free[idx'] \in Nat /\ Room(s, idx', s.free[idx'], n)
    BY <2>1, RoomInternal
  <2>3. idx' \in 1..2 /\ poolState'.chain = s.chain
        /\ poolState'.free = [s.free EXCEPT ![idx'] = s.free[idx'] - n]
    BY <2>2 DEF Room
  <2>4. poolState'.free[idx'] + n = s.free[idx']
    BY <2>2, <2>3, StateType
  <2>5. M!Block(idx', size', poolState', s.free[idx'], n) = M!Block(idx', size', s, s.free[idx'], n)
    BY <2>3 DEF M!Block
  <2> QED
    BY <2>1, <2>2, <2>3, <2>4, <2>5
<1> QED
  BY <1>3, <1>4

\* Lengths after an append.
LEMMA AppendLength ==
  ASSUME NEW S, NEW s \in Seq(S), NEW e \in S
  PROVE  /\ Append(s, e) \in Seq(S) /\ Append(s, e) # <<>> /\ Len(s) \in Nat
         /\ Len(Append(s, e)) = Len(s) + 1 /\ Append(s, e)[Len(s) + 1] = e
         /\ DOMAIN s = 1..Len(s) /\ DOMAIN Append(s, e) = 1..(Len(s) + 1)
         /\ \A k \in 1..Len(s) : Append(s, e)[k] = s[k]
OBVIOUS

\* Alloc keeps the invariant.
LEMMA MempoolAlloc ==
  ASSUME MempoolInv, NEW n \in Nat, NEW align \in BOOLEAN, M!Alloc(n, align)
  PROVE  MempoolInv'
<1>1. /\ M!AllocFast(n, align) /\ ~opened /\ canRealloc' = TRUE
      /\ home' = home /\ saved' = saved /\ opened' = opened
  BY DEF M!Alloc
<1>2. PICK s \in MpStates, i \in 1..2, avail \in Nat :
           /\ Room(s, i, avail, n)
           /\ liveBlocks' = Append(liveBlocks, M!Block(i, size', s, avail, n))
  BY <1>1, AllocFastRoom
<1> DEFINE b == M!Block(i, size', s, avail, n)
<1>3. Taken(i, n, b)
  BY <1>2, RoomTaken
<1> HIDE DEF b
<1>4. liveBlocks' = Append(liveBlocks, b)
  BY <1>2 DEF b
<1>5. /\ size' \in [M!Chunks -> Nat] /\ total' \in Int /\ unused' \in Seq(M!Chunks)
      /\ idx' \in 1..2 /\ total' = TotalOf(size', M!Chunks)
  BY <1>2, Zenon DEF Room
<1>6. /\ home \in {0, 1} /\ liveBlocks \in Seq(MpBlocks)
      /\ saved \in Seq([st : MpStates, blocks : Nat]) /\ opened \in BOOLEAN
      /\ SavedInOrder(saved)
      /\ \A w \in DOMAIN saved : /\ saved[w].blocks \in Nat
                                 /\ SavedOK(size, home, poolState, liveBlocks, saved[w])
  BY MempoolParts, Zenon
<1>7. b \in MpBlocks
  BY <1>3, Zenon DEF Taken
<1>8. /\ liveBlocks' \in Seq(MpBlocks) /\ liveBlocks' # <<>> /\ Len(liveBlocks) \in Nat
      /\ Len(liveBlocks') = Len(liveBlocks) + 1 /\ liveBlocks'[Len(liveBlocks')] = b
  BY <1>4, <1>6, <1>7, AppendLength
<1>9. \A w \in DOMAIN saved' : saved'[w].blocks < Len(liveBlocks')
  BY <1>1, <1>6, <1>8 DEF SavedOK
<1>10. AtEnd(size', poolState', lastBig', saved', liveBlocks'[Len(liveBlocks')])
  BY <1>1, <1>3, <1>8, Zenon DEF Taken
<1>11. LastBlock'
  BY <1>1, <1>8, <1>9, <1>10, Zenon DEF LastBlock
<1>12. BigBuffer'
  BY <1>1, Zenon DEF BigBuffer
<1>13. MpTypes'
  BY <1>1, <1>5, <1>6, <1>8, Zenon DEF MpTypes
<1>14. /\ ChunksOK(size, poolState, unused, lastBig)' /\ StateOK(size, home, poolState)'
       /\ LiveOK(size, home, poolState, liveBlocks)'
       /\ \A w \in DOMAIN saved' : SavedOK(size', home', poolState', liveBlocks', saved'[w])
       /\ SavedInOrder(saved)'
  BY <1>1, <1>3, <1>4, <1>6, Zenon DEF Taken
<1> QED
  BY <1>5, <1>11, <1>12, <1>13, <1>14, Zenon DEF MempoolInv

\* Push keeps the invariant.
LEMMA MempoolPush ==
  ASSUME MempoolInv, M!Push
  PROVE  MempoolInv'
<1> DEFINE now == [st |-> poolState, blocks |-> Len(liveBlocks)]
           n == StateSize
<1>0. n \in Nat /\ TRUE \in BOOLEAN
  BY MempoolAssumption
<1>1. /\ M!AllocFast(n, TRUE) /\ ~opened /\ canRealloc' = FALSE
      /\ home' = home /\ saved' = Append(saved, now) /\ opened' = opened
  BY DEF M!Push
<1> HIDE DEF n
<1>2. PICK s \in MpStates, i \in 1..2, avail \in Nat :
           /\ Room(s, i, avail, n)
           /\ liveBlocks' = Append(liveBlocks, M!Block(i, size', s, avail, n))
  BY <1>0, <1>1, AllocFastRoom
<1> DEFINE b == M!Block(i, size', s, avail, n)
<1>3. Taken(i, n, b)
  BY <1>0, <1>2, RoomTaken
<1> HIDE DEF b
<1>4. liveBlocks' = Append(liveBlocks, b)
  BY <1>2 DEF b
<1>5. /\ size' \in [M!Chunks -> Nat] /\ total' \in Int /\ unused' \in Seq(M!Chunks)
      /\ idx' \in 1..2 /\ total' = TotalOf(size', M!Chunks)
  BY <1>2, Zenon DEF Room
<1>6. /\ home \in {0, 1} /\ liveBlocks \in Seq(MpBlocks) /\ poolState \in MpStates
      /\ saved \in Seq([st : MpStates, blocks : Nat]) /\ opened \in BOOLEAN
      /\ SavedInOrder(saved)
      /\ \A w \in DOMAIN saved : /\ saved[w].blocks \in Nat
                                 /\ SavedOK(size, home, poolState, liveBlocks, saved[w])
  BY MempoolParts, Zenon
<1>7. b \in MpBlocks
  BY <1>3, Zenon DEF Taken
<1>8. liveBlocks' \in Seq(MpBlocks) /\ Len(liveBlocks) \in Nat
  BY <1>4, <1>6, <1>7, AppendLength
<1>9. now \in [st : MpStates, blocks : Nat] /\ now.st = poolState /\ now.blocks = Len(liveBlocks)
  BY <1>6, <1>8
<1> HIDE DEF now
<1>10. /\ saved' \in Seq([st : MpStates, blocks : Nat]) /\ Len(saved) \in Nat
       /\ DOMAIN saved = 1..Len(saved) /\ DOMAIN saved' = 1..(Len(saved) + 1)
       /\ saved'[Len(saved) + 1] = now /\ \A k \in 1..Len(saved) : saved'[k] = saved[k]
  <2> DEFINE S == [st : MpStates, blocks : Nat]
  <2>1. saved \in Seq(S) /\ now \in S
    BY <1>6, <1>9
  <2> HIDE DEF S
  <2>2. /\ Append(saved, now) \in Seq(S) /\ Len(saved) \in Nat
        /\ DOMAIN saved = 1..Len(saved) /\ DOMAIN Append(saved, now) = 1..(Len(saved) + 1)
        /\ Append(saved, now)[Len(saved) + 1] = now
        /\ \A k \in 1..Len(saved) : Append(saved, now)[k] = saved[k]
    BY <2>1, AppendLength
  <2> QED
    BY <1>1, <2>2 DEF S
<1>11. ASSUME NEW w \in DOMAIN saved'
       PROVE  SavedOK(size', home', poolState', liveBlocks', saved'[w])
  <2>1. w \in DOMAIN saved \/ w = Len(saved) + 1
    BY <1>10
  <2>2. SavedOK(size', home, poolState', Append(liveBlocks, b), now)
    BY <1>3, Zenon DEF Taken, now
  <2>3. \A k \in DOMAIN saved : SavedOK(size', home, poolState', Append(liveBlocks, b), saved[k])
    BY <1>3, Zenon DEF Taken
  <2> QED
    BY <1>1, <1>4, <1>10, <2>1, <2>2, <2>3
<1>12. SavedInOrder(saved')
  <2> SUFFICES ASSUME NEW w \in DOMAIN saved', NEW k \in DOMAIN saved', w < k
               PROVE  /\ saved'[w].blocks <= saved'[k].blocks
                      /\ \A m \in 1..2 : Len(saved'[w].st.chain[m]) <= Len(saved'[k].st.chain[m])
    BY DEF SavedInOrder
  <2>1. w \in DOMAIN saved /\ (k \in DOMAIN saved \/ k = Len(saved) + 1) /\ saved'[w] = saved[w]
    BY <1>10
  <2>2. CASE k \in DOMAIN saved
    <3>1. saved'[k] = saved[k]
      BY <1>10, <2>2
    <3> QED
      BY <1>6, <2>1, <2>2, <3>1 DEF SavedInOrder
  <2>3. CASE k = Len(saved) + 1
    <3>1. saved'[k] = now
      BY <1>10, <2>3
    <3>2. SavedOK(size, home, poolState, liveBlocks, saved[w])
      BY <1>6, <2>1
    <3> QED
      BY <1>9, <2>1, <3>1, <3>2 DEF SavedOK, EndOf
  <2> QED
    BY <2>1, <2>2, <2>3
<1>13. LastBlock' /\ BigBuffer'
  BY <1>1, Zenon DEF LastBlock, BigBuffer
<1>14. MpTypes'
  BY <1>1, <1>5, <1>6, <1>8, <1>10, Zenon DEF MpTypes
<1>15. /\ ChunksOK(size, poolState, unused, lastBig)' /\ StateOK(size, home, poolState)'
       /\ LiveOK(size, home, poolState, liveBlocks)'
  BY <1>1, <1>3, <1>4, Zenon DEF Taken
<1> QED
  BY <1>5, <1>11, <1>12, <1>13, <1>14, <1>15, Zenon DEF MempoolInv

\* A growing buffer in the room found keeps the invariant.
LEMMA MempoolRoom ==
  ASSUME MempoolInv, NEW s \in MpStates, NEW i \in 1..2, NEW avail \in Nat,
         Room(s, i, avail, 0), idx' = i, opened' \in BOOLEAN, canRealloc' = FALSE,
         UNCHANGED <<home, liveBlocks, saved>>
  PROVE  MempoolInv'
<1> DEFINE b == M!Block(i, size', s, avail, 0)
<1>1. Taken(i, 0, b)
  BY RoomTaken
<1> HIDE DEF b
<1>2. home' = home /\ liveBlocks' = liveBlocks /\ saved' = saved
  OBVIOUS
<1>3. /\ size' \in [M!Chunks -> Nat] /\ total' \in Int /\ unused' \in Seq(M!Chunks)
      /\ idx' \in 1..2 /\ total' = TotalOf(size', M!Chunks) /\ poolState' \in MpStates
  BY Zenon DEF Room
<1>4. /\ home \in {0, 1} /\ liveBlocks \in Seq(MpBlocks)
      /\ saved \in Seq([st : MpStates, blocks : Nat]) /\ SavedInOrder(saved)
  BY MempoolParts, Zenon
<1>5. LastBlock'
  BY Zenon DEF LastBlock
<1>6. BigBuffer'
  <2> SUFFICES ASSUME i = 2
               PROVE  /\ NewBig(poolState', lastBig', saved')
                      /\ poolState'.free[2] = TopSize(size', poolState', 2)
    BY Zenon DEF BigBuffer
  <2>1. /\ NewBig(poolState', lastBig', saved)
        /\ poolState'.free[2] = TopSize(size', poolState', 2) - 0
    BY <1>1, Zenon DEF Taken
  <2>2. TopSize(size', poolState', 2) \in Nat
    BY <1>3, TopFacts
  <2> QED
    BY <1>2, <2>1, <2>2
<1>7. MpTypes'
  BY <1>2, <1>3, <1>4, Zenon DEF MpTypes
<1>8. /\ ChunksOK(size, poolState, unused, lastBig)' /\ StateOK(size, home, poolState)'
      /\ LiveOK(size, home, poolState, liveBlocks)'
      /\ \A w \in DOMAIN saved' : SavedOK(size', home', poolState', liveBlocks', saved'[w])
      /\ SavedInOrder(saved)'
  BY <1>1, <1>2, <1>4, Zenon DEF Taken
<1> QED
  BY <1>3, <1>5, <1>6, <1>7, <1>8, Zenon DEF MempoolInv

\* Start keeps the invariant.
LEMMA MempoolStart ==
  ASSUME MempoolInv, NEW n \in Nat, NEW align \in BOOLEAN, M!Start(n, align)
  PROVE  MempoolInv'
<1> DEFINE avail == IF align THEN M!Down(poolState.free[1]) ELSE poolState.free[1]
<1>1. /\ opened' = TRUE /\ canRealloc' = FALSE /\ UNCHANGED <<home, liveBlocks, saved>>
      /\ IF n <= avail
         THEN /\ idx' = 1 /\ poolState' = [poolState EXCEPT !.free[1] = avail]
              /\ UNCHANGED <<size, total, unused, lastBig>>
         ELSE M!AllocInternal(n, 0)
  BY DEF M!Start
<1>2. poolState \in MpStates /\ poolState.free[1] \in Nat
  BY MempoolParts, StateType
<1>3. avail \in Nat /\ avail <= poolState.free[1] /\ avail - 0 = avail /\ 0 \in Nat /\ 0 <= avail
  BY <1>2, AlignFacts
<1> HIDE DEF avail
<1>4. CASE n <= avail
  <2>1. Room(poolState, 1, avail, 0)
    BY <1>1, <1>3, <1>4, RoomInChunk
  <2>2. idx' = 1 /\ opened' \in BOOLEAN /\ 1 \in 1..2
    BY <1>1, <1>4
  <2> QED
    BY <1>1, <1>2, <1>3, <2>1, <2>2, MempoolRoom
<1>5. CASE ~(n <= avail)
  <2>1. M!AllocInternal(n, 0) /\ 0 <= n
    BY <1>1, <1>5
  <2>2. PICK s \in MpStates : s.free[idx'] \in Nat /\ Room(s, idx', s.free[idx'], 0)
    BY <1>3, <2>1, RoomInternal
  <2>3. idx' \in 1..2 /\ opened' \in BOOLEAN
    BY <1>1, <2>2 DEF Room
  <2> QED
    BY <1>1, <2>2, <2>3, MempoolRoom
<1> QED
  BY <1>4, <1>5

\* End keeps the invariant.
LEMMA MempoolEnd ==
  ASSUME MempoolInv, NEW k \in Nat, M!End(k)
  PROVE  MempoolInv'
<1> DEFINE i == idx
           avail == poolState.free[i]
           b == M!Block(i, size, poolState, avail, k)
           t == poolState'
<1>1. /\ opened /\ k <= avail /\ liveBlocks' = Append(liveBlocks, b)
      /\ poolState' = [poolState EXCEPT !.free[i] = @ - k]
      /\ opened' = FALSE /\ canRealloc' = TRUE
      /\ size' = size /\ total' = total /\ unused' = unused /\ idx' = idx
      /\ lastBig' = lastBig /\ home' = home /\ saved' = saved
  BY DEF M!End, M!Avail
<1>2. /\ size \in [M!Chunks -> Nat] /\ total \in Int /\ unused \in Seq(M!Chunks)
      /\ i \in 1..2 /\ home \in {0, 1} /\ poolState \in MpStates
      /\ liveBlocks \in Seq(MpBlocks) /\ saved \in Seq([st : MpStates, blocks : Nat])
      /\ ChunksOK(size, poolState, unused, lastBig) /\ total = TotalOf(size, M!Chunks)
      /\ StateOK(size, home, poolState) /\ LiveOK(size, home, poolState, liveBlocks)
      /\ \A w \in DOMAIN saved : /\ saved[w] \in [st : MpStates, blocks : Nat]
                                 /\ saved[w].st \in MpStates /\ saved[w].blocks \in Nat
                                 /\ SavedOK(size, home, poolState, liveBlocks, saved[w])
      /\ SavedInOrder(saved)
  BY MempoolParts, Zenon
<1>3. avail \in Nat /\ avail - k \in Nat /\ avail <= poolState.free[i]
  BY <1>1, <1>2 DEF MpStates
<1>4. /\ t.chain = poolState.chain /\ t.free = [poolState.free EXCEPT ![i] = avail - k]
      /\ t \in MpStates
  BY <1>1, <1>2, <1>3 DEF MpStates
<1>5. i = 2 => /\ NewBig(poolState, lastBig, saved) /\ avail = TopSize(size, poolState, 2)
  BY <1>1 DEF MempoolInv, BigBuffer
<1> HIDE DEF i, avail, t
<1>6. BlockCut(size, home, t, i, liveBlocks, avail, k, b)
  BY <1>1, <1>2, <1>3, <1>4, BlockTaken
<1> HIDE DEF b
<1>7. /\ b \in MpBlocks /\ StateOK(size, home, t)
      /\ LiveOK(size, home, t, Append(liveBlocks, b))
      /\ b.chunk = IF t.chain[i] = <<>> THEN 0 ELSE Head(t.chain[i])
      /\ b.from = TopSize(size, t, i) - avail /\ b.len = k
      /\ t.free[i] = avail - k
  BY <1>6, Zenon DEF BlockCut
<1>8. /\ liveBlocks' \in Seq(MpBlocks) /\ liveBlocks' # <<>> /\ Len(liveBlocks) \in Nat
      /\ Len(liveBlocks') = Len(liveBlocks) + 1 /\ liveBlocks'[Len(liveBlocks')] = b
      /\ \A m \in 1..Len(liveBlocks) : liveBlocks'[m] = liveBlocks[m]
  BY <1>1, <1>2, <1>7, AppendLength, SMTT(30)
<1>9. \A w \in DOMAIN saved : saved[w].blocks < Len(liveBlocks')
  BY <1>2, <1>8 DEF SavedOK
<1>10. ASSUME NEW w \in DOMAIN saved PROVE SavedOK(size, home, t, liveBlocks', saved[w])
  <2>1. /\ saved[w].blocks <= Len(liveBlocks)
        /\ \A m \in 1..2 : EndOf(saved[w].st.chain[m], t.chain[m])
    BY <1>2, <1>4 DEF SavedOK
  <2>2. /\ saved[w].blocks <= Len(liveBlocks')
        /\ \A m \in 1..saved[w].blocks : liveBlocks'[m] = liveBlocks[m]
    BY <1>2, <1>8, <2>1
  <2> QED
    BY <1>2, <1>4, <2>1, <2>2, SavedKept
<1>11. ChunksOK(size, t, unused, lastBig)
  BY <1>2, <1>4 DEF ChunksOK, Used
<1>12. AtEnd(size, t, lastBig, saved, b)
  <2>1. TopSize(size, t, i) \in Nat
    BY <1>2, <1>4, TopFacts
  <2>2. CASE i = 1
    BY <1>3, <1>7, <2>1, <2>2 DEF AtEnd
  <2>3. CASE i = 2
    <3>1. NewBig(t, lastBig, saved)
      BY <1>4, <1>5, <2>3 DEF NewBig
    <3>2. TopSize(size, t, 2) = avail
      BY <1>4, <1>5, <2>3 DEF TopSize
    <3>3. b.chunk = lastBig /\ b.from = 0 /\ b.len + t.free[2] = TopSize(size, t, 2)
      BY <1>3, <1>7, <2>1, <2>3, <3>1, <3>2 DEF NewBig
    <3> QED
      BY <3>1, <3>3 DEF AtEnd
  <2> QED
    BY <1>2, <2>2, <2>3
<1>13. LastBlock'
  BY <1>1, <1>8, <1>9, <1>12, Zenon DEF LastBlock, t
<1>14. BigBuffer'
  BY <1>1, Zenon DEF BigBuffer
<1>15. MpTypes'
  <2>1. idx' \in 1..2
    BY <1>1, <1>2 DEF i
  <2> QED
    BY <1>1, <1>2, <1>8, <2>1, Zenon DEF MpTypes
<1>16. /\ ChunksOK(size, poolState, unused, lastBig)' /\ StateOK(size, home, poolState)'
       /\ LiveOK(size, home, poolState, liveBlocks)' /\ (total = TotalOf(size, M!Chunks))'
       /\ \A w \in DOMAIN saved' : SavedOK(size', home', poolState', liveBlocks', saved'[w])
       /\ SavedInOrder(saved)'
  BY <1>1, <1>2, <1>7, <1>10, <1>11, Zenon DEF t
<1> QED
  BY <1>13, <1>14, <1>15, <1>16, Zenon DEF MempoolInv

\* The last block may be reopened: where it is.
LEMMA LastBlockFacts ==
  ASSUME MempoolInv, canRealloc
  PROVE  /\ liveBlocks # <<>> /\ Len(liveBlocks) \in Nat /\ Len(liveBlocks) > 0
         /\ M!Last(liveBlocks) \in MpBlocks
         /\ BlockOK(size, home, poolState, M!Last(liveBlocks))
         /\ M!LastIdx \in 1..2 /\ M!LastSize = M!Last(liveBlocks).len
         /\ M!Last(liveBlocks).chunk =
              (IF poolState.chain[M!LastIdx] = <<>> THEN 0 ELSE Head(poolState.chain[M!LastIdx]))
         /\ M!Last(liveBlocks).from + M!Last(liveBlocks).len + poolState.free[M!LastIdx]
              = TopSize(size, poolState, M!LastIdx)
         /\ M!LastIdx = 2 => NewBig(poolState, lastBig, saved) /\ M!Last(liveBlocks).from = 0
<1> DEFINE b == M!Last(liveBlocks)
           i == M!LastIdx
<1>1. /\ size \in [M!Chunks -> Nat] /\ poolState \in MpStates /\ liveBlocks \in Seq(MpBlocks)
      /\ ChunksOK(size, poolState, unused, lastBig)
      /\ LiveOK(size, home, poolState, liveBlocks)
  BY MempoolParts, Zenon
<1>2. liveBlocks # <<>> /\ AtEnd(size, poolState, lastBig, saved, liveBlocks[Len(liveBlocks)])
  BY Zenon DEF MempoolInv, LastBlock
<1>3. Len(liveBlocks) \in Nat /\ Len(liveBlocks) > 0 /\ Len(liveBlocks) \in DOMAIN liveBlocks
  BY <1>1, <1>2
<1>4. /\ b = liveBlocks[Len(liveBlocks)] /\ b \in MpBlocks
      /\ BlockOK(size, home, poolState, b)
  BY <1>1, <1>3 DEF LiveOK, M!Last
<1>5. i = IF b.chunk = lastBig /\ b.from = 0 /\ lastBig # 0 THEN 2 ELSE 1
  BY DEF M!LastIdx
<1>6. M!LastSize = IF poolState.chain[i] = <<>> THEN 0
                   ELSE size[Head(poolState.chain[i])] - b.from - poolState.free[i]
  BY DEF M!LastSize
<1> HIDE DEF b, i
<1>7. /\ b.from \in Nat /\ b.len \in Nat /\ i \in 1..2
      /\ poolState.free[1] \in Nat /\ poolState.free[2] \in Nat
      /\ TopSize(size, poolState, 1) \in Nat /\ TopSize(size, poolState, 2) \in Nat
  <2>1. b.from \in Nat /\ b.len \in Nat /\ i \in 1..2
    BY <1>4, <1>5 DEF MpBlocks
  <2>2. poolState.free[1] \in Nat /\ poolState.free[2] \in Nat
    BY <1>1, StateType
  <2>3. TopSize(size, poolState, 1) \in Nat /\ TopSize(size, poolState, 2) \in Nat
    BY <1>1, TopFacts
  <2> QED
    BY <2>1, <2>2, <2>3
<1>8. /\ b.chunk = (IF poolState.chain[i] = <<>> THEN 0 ELSE Head(poolState.chain[i]))
      /\ b.from + b.len + poolState.free[i] = TopSize(size, poolState, i)
      /\ i = 2 => NewBig(poolState, lastBig, saved) /\ b.from = 0
  <2>1. CASE /\ b.chunk = IF poolState.chain[1] = <<>> THEN 0 ELSE Head(poolState.chain[1])
             /\ b.from + b.len + poolState.free[1] = TopSize(size, poolState, 1)
    <3>1. ASSUME lastBig # 0, b.chunk = lastBig PROVE FALSE
      <4>1. lastBig \in Elements(poolState.chain[2])
        BY <1>1, <3>1 DEF ChunksOK
      <4>2. poolState.chain[1] # <<>>
        BY <2>1, <3>1
      <4>3. b.chunk \in Elements(poolState.chain[1])
        BY <1>1, <2>1, <4>2, TopFacts
      <4> QED
        BY <1>1, <3>1, <4>1, <4>3 DEF ChunksOK
    <3>2. i = 1
      BY <1>5, <3>1
    <3> QED
      BY <2>1, <3>2
  <2>2. CASE /\ NewBig(poolState, lastBig, saved) /\ b.chunk = lastBig /\ b.from = 0
             /\ b.len + poolState.free[2] = TopSize(size, poolState, 2)
    <3>1. poolState.chain[2] # <<>> /\ lastBig = Head(poolState.chain[2])
      BY <2>2 DEF NewBig
    <3>2. lastBig \in M!Chunks
      BY <1>1, <3>1, TopFacts
    <3>3. lastBig # 0
      BY <3>2, MempoolAssumption DEF M!Chunks
    <3>4. i = 2
      BY <1>5, <2>2, <3>3
    <3> QED
      BY <1>7, <2>2, <3>1, <3>4
  <2> QED
    BY <1>2, <1>4, <2>1, <2>2 DEF AtEnd
<1>9. M!LastSize = b.len
  <2>1. CASE poolState.chain[i] = <<>>
    BY <1>4, <1>6, <1>8, <2>1 DEF BlockOK
  <2>2. CASE poolState.chain[i] # <<>>
    <3>1. TopSize(size, poolState, i) = size[Head(poolState.chain[i])]
      BY <2>2 DEF TopSize
    <3>2. poolState.free[i] \in Nat /\ TopSize(size, poolState, i) \in Nat
      BY <1>7
    <3> QED
      BY <1>6, <1>7, <1>8, <2>2, <3>1, <3>2
  <2> QED
    BY <2>1, <2>2
<1> QED
  BY <1>2, <1>3, <1>4, <1>7, <1>8, <1>9 DEF b, i

\* Open keeps the invariant.
LEMMA MempoolOpen ==
  ASSUME MempoolInv, M!Open
  PROVE  MempoolInv'
<1> DEFINE b == M!Last(liveBlocks)
           i == M!LastIdx
           n == Len(liveBlocks) - 1
           t == poolState'
<1>1. /\ canRealloc /\ idx' = i /\ opened' = TRUE /\ canRealloc' = FALSE
      /\ poolState' = [poolState EXCEPT !.free[i] = @ + M!LastSize]
      /\ liveBlocks' = SubSeq(liveBlocks, 1, n)
      /\ size' = size /\ total' = total /\ unused' = unused
      /\ lastBig' = lastBig /\ home' = home /\ saved' = saved
  BY DEF M!Open
<1>2. /\ size \in [M!Chunks -> Nat] /\ total \in Int /\ unused \in Seq(M!Chunks)
      /\ home \in {0, 1} /\ poolState \in MpStates
      /\ liveBlocks \in Seq(MpBlocks) /\ saved \in Seq([st : MpStates, blocks : Nat])
      /\ ChunksOK(size, poolState, unused, lastBig) /\ total = TotalOf(size, M!Chunks)
      /\ StateOK(size, home, poolState) /\ LiveOK(size, home, poolState, liveBlocks)
      /\ \A w \in DOMAIN saved : /\ saved[w] \in [st : MpStates, blocks : Nat]
                                 /\ saved[w].st \in MpStates /\ saved[w].blocks \in Nat
                                 /\ SavedOK(size, home, poolState, liveBlocks, saved[w])
      /\ SavedInOrder(saved)
  BY MempoolParts, Zenon
<1>3. /\ Len(liveBlocks) \in Nat /\ Len(liveBlocks) > 0 /\ b \in MpBlocks
      /\ BlockOK(size, home, poolState, b)
      /\ i \in 1..2 /\ M!LastSize = b.len
      /\ b.chunk = (IF poolState.chain[i] = <<>> THEN 0 ELSE Head(poolState.chain[i]))
      /\ b.from + b.len + poolState.free[i] = TopSize(size, poolState, i)
      /\ i = 2 => NewBig(poolState, lastBig, saved) /\ b.from = 0
  BY <1>1, LastBlockFacts
<1>4. b = liveBlocks[Len(liveBlocks)]
  BY DEF M!Last
<1>5. n \in Nat /\ n \in 0..Len(liveBlocks) /\ n + 1 = Len(liveBlocks)
  BY <1>3
<1> HIDE DEF b, i, n, t
<1>6. /\ liveBlocks' \in Seq(MpBlocks) /\ Len(liveBlocks') = n
      /\ \A k \in 1..n : liveBlocks'[k] = liveBlocks[k]
  BY <1>1, <1>2, <1>5, SplitFacts
<1>7. DOMAIN liveBlocks' = 1..n /\ DOMAIN liveBlocks = 1..(n + 1)
  BY <1>2, <1>5, <1>6
<1>8. /\ b.from \in Nat /\ b.len \in Nat /\ poolState.free \in [1..2 -> Nat]
      /\ poolState.chain \in [1..2 -> Seq(M!Chunks)]
      /\ poolState = [free |-> poolState.free, chain |-> poolState.chain]
  BY <1>2, <1>3, StateType DEF MpBlocks
<1>9. /\ t.chain = poolState.chain
      /\ t.free = [poolState.free EXCEPT ![i] = poolState.free[i] + b.len]
      /\ t \in MpStates /\ t.free[i] = poolState.free[i] + b.len
      /\ \A k \in 1..2 : k # i => t.free[k] = poolState.free[k]
  <2> DEFINE f == [poolState.free EXCEPT ![i] = poolState.free[i] + b.len]
  <2>1. t = [free |-> f, chain |-> poolState.chain]
    BY <1>1, <1>3, <1>8 DEF t
  <2>2. /\ f \in [1..2 -> Nat] /\ f[i] = poolState.free[i] + b.len
        /\ \A k \in 1..2 : k # i => f[k] = poolState.free[k]
    BY <1>3, <1>8
  <2>3. t.free = f /\ t.chain = poolState.chain
    BY <2>1
  <2>4. t \in MpStates
    BY <1>8, <2>1, <2>2, Zenon DEF MpStates
  <2> QED
    BY <2>2, <2>3, <2>4
<1>10. /\ \A k \in 1..2 : TopSize(size, t, k) = TopSize(size, poolState, k)
       /\ \A k \in 1..2 : TopSize(size, poolState, k) \in Nat /\ poolState.free[k] \in Nat
  BY <1>2, <1>8, <1>9, TopFacts DEF TopSize
<1>11. t.free[i] = TopSize(size, t, i) - b.from
  BY <1>3, <1>8, <1>9, <1>10
<1>12. Used(t) = Used(poolState) /\ ChunksOK(size, t, unused, lastBig)
  BY <1>2, <1>9 DEF ChunksOK, Used
<1>13. StateOK(size, home, t)
  <2>1. ASSUME NEW k \in 1..2 PROVE t.free[k] <= TopSize(size, t, k)
    <3>1. CASE k = i
      BY <1>8, <1>10, <1>11, <3>1
    <3>2. CASE k # i
      <4>1. poolState.free[k] <= TopSize(size, poolState, k)
        BY <1>2 DEF StateOK
      <4> QED
        BY <1>9, <1>10, <3>2, <4>1
    <3> QED
      BY <3>1, <3>2
  <2>2. ASSUME home # 0
        PROVE  /\ t.chain[1] # <<>> /\ t.chain[1][Len(t.chain[1])] = home
               /\ Head(t.chain[1]) = home => t.free[1] <= ChunkSize - StateSize
    <3>1. /\ poolState.chain[1] # <<>> /\ poolState.chain[1][Len(poolState.chain[1])] = home
          /\ Head(poolState.chain[1]) = home => poolState.free[1] <= ChunkSize - StateSize
      BY <1>2, <2>2 DEF StateOK
    <3>2. ASSUME Head(t.chain[1]) = home PROVE t.free[1] <= ChunkSize - StateSize
      <4>1. CASE i = 1
        <5>1. b.chunk = home
          BY <1>3, <1>9, <3>1, <3>2, <4>1
        <5>2. b.from >= StateSize
          BY <1>3, <2>2, <5>1 DEF BlockOK
        <5>3. home \in Elements(poolState.chain[1]) /\ home \in M!Chunks
          BY <1>2, <1>9, <3>1, <3>2, TopFacts, SMTT(30)
        <5>4. TopSize(size, t, 1) = ChunkSize
          <6>1. size[home] = ChunkSize
            BY <1>2, <5>3 DEF ChunksOK
          <6> QED
            BY <1>9, <3>1, <3>2, <6>1 DEF TopSize
        <5> QED
          BY <1>8, <1>11, <4>1, <5>2, <5>4, MempoolAssumption
      <4>2. CASE i # 1
        BY <1>9, <3>1, <3>2, <4>2
      <4> QED
        BY <4>1, <4>2
    <3> QED
      BY <1>9, <3>1, <3>2
  <2> QED
    BY <1>9, <2>1, <2>2 DEF StateOK
<1>14. ASSUME NEW k \in 1..n PROVE BlockOK(size, home, t, liveBlocks[k])
  <2> DEFINE x == liveBlocks[k]
  <2>1. k \in DOMAIN liveBlocks /\ n + 1 \in DOMAIN liveBlocks /\ k < n + 1
    BY <1>5, <1>7
  <2>2. x \in MpBlocks /\ BlockOK(size, home, poolState, x)
    BY <1>2, <2>1 DEF LiveOK
  <2>3. x.chunk = b.chunk => x.from + x.len <= b.from
    BY <1>2, <1>4, <1>5, <2>1 DEF LiveOK
  <2> SUFFICES BlockOK(size, home, t, x)
    OBVIOUS
  <2> HIDE DEF x
  <2>4. CASE x.chunk = 0
    BY <2>2, <2>4 DEF BlockOK
  <2>5. CASE x.chunk # 0
    <3>1. ASSUME NEW m \in 1..2, t.chain[m] # <<>>, x.chunk = Head(t.chain[m])
          PROVE  x.from + x.len <= size[x.chunk] - t.free[m]
      <4>1. CASE m = i
        <5>1. x.chunk = b.chunk
          BY <1>3, <1>9, <3>1, <4>1
        <5>2. TopSize(size, t, i) = size[x.chunk]
          BY <3>1, <4>1 DEF TopSize
        <5>3. size[x.chunk] - t.free[m] = b.from
          <6>1. size[x.chunk] \in Nat
            BY <1>3, <1>10, <5>2
          <6> QED
            BY <1>8, <1>11, <4>1, <5>2, <6>1
        <5> QED
          BY <2>3, <5>1, <5>3
      <4>2. CASE m # i
        BY <1>9, <2>2, <2>5, <3>1, <4>2 DEF BlockOK
      <4> QED
        BY <4>1, <4>2
    <3> QED
      BY <1>12, <2>2, <2>5, <3>1 DEF BlockOK
  <2> QED
    BY <2>4, <2>5
<1>15. LiveOK(size, home, t, liveBlocks')
  <2>1. \A k \in 1..n : k \in DOMAIN liveBlocks
    BY <1>5, <1>7
  <2>2. \A m, k \in 1..n : m < k /\ liveBlocks[m].chunk = liveBlocks[k].chunk =>
          liveBlocks[m].from + liveBlocks[m].len <= liveBlocks[k].from
    BY <1>2, <2>1 DEF LiveOK
  <2> QED
    BY <1>6, <1>7, <1>14, <2>2 DEF LiveOK
<1>16. ASSUME NEW w \in DOMAIN saved PROVE SavedOK(size, home, t, liveBlocks', saved[w])
  <2>1. \A m \in 1..2 : EndOf(saved[w].st.chain[m], t.chain[m])
    BY <1>2, <1>9 DEF SavedOK
  <2>2. saved[w].blocks < Len(liveBlocks)
    BY <1>1 DEF MempoolInv, LastBlock
  <2>3. /\ saved[w].blocks <= Len(liveBlocks')
        /\ \A m \in 1..saved[w].blocks : liveBlocks'[m] = liveBlocks[m]
    BY <1>2, <1>5, <1>6, <2>2
  <2> QED
    BY <1>2, <1>9, <2>1, <2>3, SavedKept
<1>17. BigBuffer'
  <2> SUFFICES ASSUME i = 2
               PROVE  NewBig(t, lastBig, saved) /\ t.free[2] = TopSize(size, t, 2)
    BY <1>1, Zenon DEF BigBuffer, t
  <2>1. NewBig(t, lastBig, saved)
    BY <1>3, <1>9 DEF NewBig
  <2> QED
    BY <1>3, <1>10, <1>11, <2>1
<1>18. LastBlock'
  BY <1>1, Zenon DEF LastBlock
<1>19. MpTypes'
  <2>1. TRUE \in BOOLEAN /\ FALSE \in BOOLEAN
    OBVIOUS
  <2> QED
    BY <1>1, <1>2, <1>3, <1>6, <2>1, Zenon DEF MpTypes
<1>20. /\ ChunksOK(size, poolState, unused, lastBig)' /\ StateOK(size, home, poolState)'
       /\ LiveOK(size, home, poolState, liveBlocks)' /\ (total = TotalOf(size, M!Chunks))'
       /\ \A w \in DOMAIN saved' : SavedOK(size', home', poolState', liveBlocks', saved'[w])
       /\ SavedInOrder(saved)'
  BY <1>1, <1>2, <1>12, <1>13, <1>15, <1>16, Zenon DEF t
<1> QED
  BY <1>17, <1>18, <1>19, <1>20, Zenon DEF MempoolInv

\* A step that changes nothing.
LEMMA MempoolStutter ==
  ASSUME MempoolInv, UNCHANGED M!mpVars
  PROVE  MempoolInv'
<1>1. /\ size' = size /\ total' = total /\ poolState' = poolState /\ unused' = unused
      /\ idx' = idx /\ lastBig' = lastBig /\ home' = home /\ liveBlocks' = liveBlocks
      /\ saved' = saved /\ opened' = opened /\ canRealloc' = canRealloc
  BY DEF M!mpVars
<1>2. MpTypes' /\ BigBuffer' /\ LastBlock'
  BY <1>1, Zenon DEF MempoolInv, MpTypes, BigBuffer, LastBlock
<1> QED
  BY <1>1, <1>2, Zenon DEF MempoolInv

\* The larger one of two numbers.
LEMMA MaxOfTwo ==
  ASSUME NEW a \in Nat, NEW b \in Nat
  PROVE  M!Max({a, b}) \in Nat /\ M!Max({a, b}) >= a /\ M!Max({a, b}) >= b
<1>1. \E x \in {a, b} : \A y \in {a, b} : x >= y
  <2>1. CASE a >= b
    BY <2>1
  <2>2. CASE ~(a >= b)
    <3>1. b >= a /\ b >= b
      BY <2>2
    <3> QED
      BY <3>1
  <2> QED
    BY <2>1, <2>2
<1>2. M!Max({a, b}) \in {a, b} /\ \A y \in {a, b} : M!Max({a, b}) >= y
  BY <1>1 DEF M!Max
<1> QED
  BY <1>2

\* A growing buffer with a chunk of its own gets a larger one.
LEMMA MempoolRealloc ==
  ASSUME MempoolInv, NEW n \in Nat, opened, idx = 2, NEW v \in Nat, v > 0, NEW c,
         c = Head(poolState.chain[2]),
         size' = [size EXCEPT ![c] = v], total' = (total - size[c]) + v,
         poolState' = [poolState EXCEPT !.free[2] = v], lastBig' = c,
         UNCHANGED <<unused, idx, home, liveBlocks, saved, opened, canRealloc>>
  PROVE  MempoolInv'
<1> DEFINE st == poolState
           t == poolState'
<1>1. /\ size \in [M!Chunks -> Nat] /\ total \in Int /\ unused \in Seq(M!Chunks)
      /\ home \in {0, 1} /\ st \in MpStates /\ idx \in 1..2
      /\ liveBlocks \in Seq(MpBlocks) /\ saved \in Seq([st : MpStates, blocks : Nat])
      /\ ChunksOK(size, st, unused, lastBig) /\ total = TotalOf(size, M!Chunks)
      /\ StateOK(size, home, st) /\ LiveOK(size, home, st, liveBlocks)
      /\ \A w \in DOMAIN saved : /\ saved[w] \in [st : MpStates, blocks : Nat]
                                 /\ saved[w].st \in MpStates /\ saved[w].blocks \in Nat
                                 /\ SavedOK(size, home, st, liveBlocks, saved[w])
      /\ SavedInOrder(saved) /\ opened \in BOOLEAN
  BY MempoolParts, Zenon
<1>2. NewBig(st, lastBig, saved) /\ st.free[2] = TopSize(size, st, 2)
  BY DEF MempoolInv, BigBuffer
<1>3. ~canRealloc
  BY DEF MempoolInv, LastBlock
<1>4. /\ st.chain[2] # <<>> /\ lastBig = c
      /\ \A w \in DOMAIN saved : Len(saved[w].st.chain[2]) < Len(st.chain[2])
  BY <1>2 DEF NewBig
<1>5. c \in M!Chunks /\ c \in Elements(st.chain[2]) /\ TopSize(size, st, 2) = size[c]
  BY <1>1, <1>4, TopFacts
<1>6. /\ unused' = unused /\ idx' = idx /\ home' = home /\ liveBlocks' = liveBlocks
      /\ saved' = saved /\ opened' = opened /\ canRealloc' = canRealloc
  OBVIOUS
<1>7. /\ size' \in [M!Chunks -> Nat] /\ size'[c] = v
      /\ \A d \in M!Chunks \ {c} : size'[d] = size[d]
  BY <1>1, <1>5
<1>8. total' \in Int /\ total' = TotalOf(size', M!Chunks)
  <2>1. TotalOf(size', M!Chunks) = (TotalOf(size, M!Chunks) - size[c]) + v
    BY <1>1, <1>5, TotalChanged
  <2>2. size[c] \in Nat
    BY <1>1, <1>5
  <2> QED
    BY <1>1, <2>1, <2>2
<1>9. st.free \in [1..2 -> Nat] /\ st.chain \in [1..2 -> Seq(M!Chunks)]
      /\ st.chain[1] \in Seq(M!Chunks) /\ st.chain[2] \in Seq(M!Chunks)
  BY <1>1, StateType
<1>10. t.chain = st.chain /\ t.free[1] = st.free[1] /\ t.free[2] = v /\ t \in MpStates
  <2> DEFINE f == [st.free EXCEPT ![2] = v]
  <2>0. st = [free |-> st.free, chain |-> st.chain]
    BY <1>1, StateType
  <2>1. t = [free |-> f, chain |-> st.chain]
    BY <2>0
  <2>2. f \in [1..2 -> Nat] /\ f[1] = st.free[1] /\ f[2] = v
    BY <1>9
  <2>3. t.free = f /\ t.chain = st.chain
    BY <2>1
  <2>4. t \in MpStates
    BY <1>9, <2>1, <2>2, Zenon DEF MpStates
  <2> QED
    BY <2>2, <2>3, <2>4
<1> HIDE DEF t
<1>11. /\ c \notin Elements(st.chain[1]) /\ c \notin Elements(unused)
       /\ c \in Used(st) /\ Used(t) = Used(st) /\ Used(st) \subseteq M!Chunks
  BY <1>1, <1>5, <1>10, TopFacts DEF ChunksOK, Used
<1>12. ChunksOK(size', t, unused, c)
  <2>1. ASSUME NEW d \in M!Chunks
        PROVE  /\ d \in Elements(t.chain[1]) \cup Elements(unused) => size'[d] = ChunkSize
               /\ size'[d] > 0 <=> d \in Used(t) \cup Elements(unused)
    <3>1. CASE d = c
      BY <1>7, <1>10, <1>11, <3>1
    <3>2. CASE d # c
      BY <1>1, <1>7, <1>10, <1>11, <3>2 DEF ChunksOK
    <3> QED
      BY <3>1, <3>2
  <2> QED
    BY <1>1, <1>5, <1>10, <1>11, <2>1 DEF ChunksOK
<1>13. TopSize(size', t, 2) = v /\ TopSize(size', t, 1) = TopSize(size, st, 1)
  <2>1. TopSize(size', t, 2) = v
    BY <1>4, <1>7, <1>10 DEF TopSize
  <2>2. CASE st.chain[1] = <<>>
    BY <1>10, <2>1, <2>2 DEF TopSize
  <2>3. CASE st.chain[1] # <<>>
    <3>1. Head(st.chain[1]) \in Elements(st.chain[1]) /\ Head(st.chain[1]) \in M!Chunks
      BY <1>1, <2>3, TopFacts, SMTT(30)
    <3>2. size'[Head(st.chain[1])] = size[Head(st.chain[1])]
      BY <1>7, <1>11, <3>1
    <3> QED
      BY <1>10, <2>1, <2>3, <3>2 DEF TopSize
  <2> QED
    BY <2>2, <2>3
<1>14. StateOK(size', home, t)
  BY <1>1, <1>10, <1>13 DEF StateOK
<1>15. ASSUME NEW x \in MpBlocks, BlockOK(size, home, st, x) PROVE BlockOK(size', home, t, x)
  <2>0. x.from \in Nat /\ x.len \in Nat
    BY DEF MpBlocks
  <2>1. CASE x.chunk = 0
    BY <1>15, <2>1 DEF BlockOK
  <2>2. CASE x.chunk = c
    <3>0. c # 0 /\ 2 \in 1..2
      BY <1>5, MempoolAssumption DEF M!Chunks
    <3>1. x.from + x.len <= size[c] - st.free[2] /\ (x.chunk = home => x.from >= StateSize)
      BY <1>4, <1>15, <2>2, <3>0 DEF BlockOK
    <3>2. size[c] \in Nat /\ st.free[2] = size[c]
      BY <1>1, <1>2, <1>5
    <3>3. x.from + x.len = 0
      BY <2>0, <3>1, <3>2
    <3>4. ASSUME NEW m \in 1..2, t.chain[m] # <<>>, x.chunk = Head(t.chain[m])
          PROVE  x.from + x.len <= size'[x.chunk] - t.free[m]
      <4>1. m # 1
        <5> SUFFICES ASSUME m = 1 PROVE FALSE
          OBVIOUS
        <5>1. st.chain[1] # <<>> /\ c = Head(st.chain[1])
          BY <1>10, <2>2, <3>4
        <5>2. c \in Elements(st.chain[1])
          <6>1. size \in [M!Chunks -> Nat] /\ st \in MpStates /\ 1 \in 1..2
            BY <1>1
          <6>2. Head(st.chain[1]) \in Elements(st.chain[1])
            BY <5>1, <6>1, TopFacts, Zenon
          <6> QED
            BY <5>1, <6>2
        <5> QED
          BY <1>11, <5>2
      <4>2. m = 2
        BY <4>1
      <4>3. size'[x.chunk] - t.free[m] = 0
        BY <1>7, <1>10, <2>2, <4>2
      <4> QED
        BY <3>3, <4>3
    <3>5. x.from + x.len <= size'[x.chunk]
      BY <1>7, <2>2, <3>3
    <3> QED
      BY <1>11, <2>2, <3>0, <3>1, <3>4, <3>5 DEF BlockOK
  <2>3. CASE x.chunk # 0 /\ x.chunk # c
    <3>1. x.chunk \in Used(st)
      BY <1>15, <2>3 DEF BlockOK
    <3>2. size'[x.chunk] = size[x.chunk]
      BY <1>7, <1>11, <2>3, <3>1
    <3>3. ASSUME NEW m \in 1..2, t.chain[m] # <<>>, x.chunk = Head(t.chain[m])
          PROVE  x.from + x.len <= size'[x.chunk] - t.free[m]
      <4>1. m = 1
        <5>1. m # 2
          BY <1>10, <2>3, <3>3
        <5> QED
          BY <5>1
      <4>2. x.from + x.len <= size[x.chunk] - st.free[1]
        BY <1>10, <1>15, <2>3, <3>3, <4>1 DEF BlockOK
      <4> QED
        BY <1>10, <3>2, <4>1, <4>2
    <3> QED
      BY <1>11, <1>15, <2>3, <3>2, <3>3 DEF BlockOK
  <2> QED
    BY <2>1, <2>2, <2>3
<1>16. LiveOK(size', home, t, liveBlocks)
  <2>1. \A k \in DOMAIN liveBlocks : liveBlocks[k] \in MpBlocks
    BY <1>1
  <2> QED
    BY <1>1, <1>15, <2>1 DEF LiveOK
<1>17. ASSUME NEW w \in DOMAIN saved PROVE SavedOK(size', home, t, liveBlocks, saved[w])
  <2> DEFINE old == saved[w]
             a == old.st.chain[2]
  <2>1. /\ old \in [st : MpStates, blocks : Nat] /\ old.st \in MpStates /\ old.blocks \in Nat
        /\ SavedOK(size, home, st, liveBlocks, old)
    BY <1>1
  <2>2. \A m \in 1..2 : EndOf(old.st.chain[m], st.chain[m])
    BY <2>1 DEF SavedOK
  <2>3. Len(a) < Len(st.chain[2])
    BY <1>4
  <2> HIDE DEF old
  <2>4. a \in Seq(M!Chunks) /\ EndOf(a, st.chain[2]) /\ NoDuplicates(st.chain[2])
    BY <1>1, <2>1, <2>2, StateType DEF ChunksOK
  <2> HIDE DEF a
  <2>5. c \notin Elements(a)
    BY <1>9, <2>3, <2>4, EndFacts
  <2>6. c \notin Elements(old.st.chain[1])
    <3>1. Elements(old.st.chain[1]) \subseteq Elements(st.chain[1])
      BY <1>1, <2>1, <2>2, OlderUsed
    <3> QED
      BY <1>11, <3>1
  <2>7. Used(old.st) \subseteq Used(st) /\ c \notin Used(old.st)
    BY <1>1, <2>1, <2>2, <2>5, <2>6, OlderUsed DEF Used, a
  <2>8. \A d \in Used(old.st) : size'[d] = size[d]
    BY <1>7, <1>11, <2>7
  <2>9. old.blocks <= Len(liveBlocks) /\ \A m \in 1..2 : EndOf(old.st.chain[m], t.chain[m])
    BY <1>10, <2>1, <2>2 DEF SavedOK
  <2>10. SavedOK(size', home, t, liveBlocks, old)
    BY <1>1, <1>7, <1>10, <2>1, <2>8, <2>9, SavedKept
  <2> QED
    BY <2>10 DEF old
<1>18. BigBuffer'
  <2>1. NewBig(t, c, saved)
    BY <1>4, <1>10 DEF NewBig
  <2> QED
    BY <1>6, <1>10, <1>13, <2>1, Zenon DEF BigBuffer, t
<1>19. LastBlock'
  <2>1. ~canRealloc'
    BY <1>3, <1>6
  <2> QED
    BY <2>1 DEF LastBlock
<1>20. MpTypes'
  <2>1. canRealloc \in BOOLEAN
    BY MempoolParts
  <2> QED
    BY <1>1, <1>6, <1>7, <1>8, <2>1, Zenon DEF MpTypes
<1>21. /\ ChunksOK(size, poolState, unused, lastBig)' /\ StateOK(size, home, poolState)'
       /\ LiveOK(size, home, poolState, liveBlocks)'
       /\ \A w \in DOMAIN saved' : SavedOK(size', home', poolState', liveBlocks', saved'[w])
       /\ SavedInOrder(saved)'
  BY <1>1, <1>6, <1>12, <1>14, <1>16, <1>17, Zenon DEF t
<1> QED
  BY <1>8, <1>18, <1>19, <1>20, <1>21, Zenon DEF MempoolInv

\* Grow keeps the invariant.
LEMMA MempoolGrow ==
  ASSUME MempoolInv, NEW n \in Nat, M!Grow(n)
  PROVE  MempoolInv'
<1>1. /\ opened /\ UNCHANGED <<home, liveBlocks, saved, opened, canRealloc>>
  BY DEF M!Grow
<1>2. /\ poolState \in MpStates /\ idx \in 1..2 /\ opened \in BOOLEAN /\ poolState.free[2] \in Nat
      /\ poolState.free[idx] \in Nat /\ canRealloc \in BOOLEAN
  BY MempoolParts, StateType
<1>3. canRealloc = FALSE
  BY <1>1, <1>2 DEF MempoolInv, LastBlock
<1>4. CASE n <= M!Avail
  <2>1. UNCHANGED <<size, total, poolState, unused, idx, lastBig>>
    BY <1>4 DEF M!Grow
  <2> QED
    BY <1>1, <2>1, MempoolStutter DEF M!mpVars
<1>5. CASE ~(n <= M!Avail) /\ idx = 2
  <2> DEFINE c == Head(poolState.chain[2])
             v == M!Aligned(M!Max({2 * M!Avail, n}))
  <2>1. /\ size' = [size EXCEPT ![c] = v] /\ total' = total - size[c] + v
        /\ poolState' = [poolState EXCEPT !.free[2] = v] /\ lastBig' = c
        /\ UNCHANGED <<unused, idx>>
    BY <1>5 DEF M!Grow
  <2>2. M!Avail \in Nat /\ 2 * M!Avail \in Nat
    BY <1>2 DEF M!Avail
  <2>3. M!Max({2 * M!Avail, n}) \in Nat /\ M!Max({2 * M!Avail, n}) >= n
    BY <2>2, MaxOfTwo
  <2>4. v \in Nat /\ v >= M!Max({2 * M!Avail, n})
    BY <2>3, AlignFacts
  <2>5. v > 0
    BY <1>5, <2>2, <2>3, <2>4
  <2> HIDE DEF c, v
  <2>6. c = Head(poolState.chain[2]) /\ total' = (total - size[c]) + v
    BY <2>1 DEF c
  <2>7. UNCHANGED <<unused, idx, home, liveBlocks, saved, opened, canRealloc>>
    BY <1>1, <2>1
  <2> QED
    BY <1>1, <1>5, <2>1, <2>4, <2>5, <2>6, <2>7, MempoolRealloc
<1>6. CASE ~(n <= M!Avail) /\ idx # 2
  <2>1. M!AllocInternal(n, 0) /\ 0 \in Nat /\ 0 <= n
    BY <1>6 DEF M!Grow
  <2>2. PICK s \in MpStates : s.free[idx'] \in Nat /\ Room(s, idx', s.free[idx'], 0)
    BY <2>1, RoomInternal
  <2>3. idx' \in 1..2 /\ opened' \in BOOLEAN /\ canRealloc' = FALSE
    BY <1>1, <1>2, <1>3, <2>2 DEF Room
  <2> QED
    BY <1>1, <2>2, <2>3, MempoolRoom
<1> QED
  BY <1>4, <1>5, <1>6

\* Two chains put together.
LEMMA ConcatElements ==
  ASSUME NEW S, NEW s \in Seq(S), NEW t \in Seq(S)
  PROVE  s \o t \in Seq(S) /\ Elements(s \o t) = Elements(s) \cup Elements(t)
<1> DEFINE q == s \o t
<1>1. /\ q \in Seq(S) /\ Len(s) \in Nat /\ Len(t) \in Nat
      /\ DOMAIN s = 1..Len(s) /\ DOMAIN t = 1..Len(t) /\ DOMAIN q = 1..(Len(s) + Len(t))
      /\ \A k \in 1..Len(s) : q[k] = s[k]
      /\ \A k \in 1..Len(t) : q[Len(s) + k] = t[k]
  OBVIOUS
<1> HIDE DEF q
<1>2. ASSUME NEW k \in DOMAIN q PROVE q[k] \in Elements(s) \cup Elements(t)
  <2>1. CASE k \in 1..Len(s)
    BY <1>1, <2>1 DEF Elements
  <2>2. CASE k \notin 1..Len(s)
    <3>1. k - Len(s) \in 1..Len(t) /\ Len(s) + (k - Len(s)) = k
      BY <1>1, <2>2
    <3>2. q[k] = t[k - Len(s)]
      BY <1>1, <3>1
    <3> QED
      BY <1>1, <3>1, <3>2 DEF Elements
  <2> QED
    BY <2>1, <2>2
<1>3. ASSUME NEW k \in DOMAIN s PROVE s[k] \in Elements(q)
  <2>1. k \in DOMAIN q /\ q[k] = s[k]
    BY <1>1
  <2> QED
    BY <2>1 DEF Elements
<1>4. ASSUME NEW k \in DOMAIN t PROVE t[k] \in Elements(q)
  <2>1. Len(s) + k \in DOMAIN q /\ q[Len(s) + k] = t[k]
    BY <1>1
  <2> QED
    BY <2>1 DEF Elements
<1>5. Elements(q) \subseteq Elements(s) \cup Elements(t)
  BY <1>2 DEF Elements
<1>6. Elements(s) \subseteq Elements(q) /\ Elements(t) \subseteq Elements(q)
  BY <1>3, <1>4 DEF Elements
<1> QED
  BY <1>1, <1>5, <1>6 DEF q

\* The chunks of two chains put together
Joined(q, s, t) ==
  q \in Seq(M!Chunks) /\ NoDuplicates(q) /\ Elements(q) = Elements(s) \cup Elements(t)

\* Two chains without a common chunk put together.
LEMMA JoinedFacts ==
  ASSUME NEW s \in Seq(M!Chunks), NEW t \in Seq(M!Chunks), NoDuplicates(s), NoDuplicates(t),
         Elements(s) \cap Elements(t) = {}, NEW q, q = s \o t
  PROVE  Joined(q, s, t)
<1>1. s \o t \in Seq(M!Chunks) /\ Elements(s \o t) = Elements(s) \cup Elements(t)
  BY ConcatElements
<1>2. NoDuplicates(s \o t)
  BY ConcatFacts
<1> QED
  BY <1>1, <1>2 DEF Joined

\* What freeing chunks does to the sizes.
LEMMA FreedFacts ==
  ASSUME MempoolInv, NEW cs, M!FreeChunks(cs)
  PROVE  /\ size' \in [M!Chunks -> Nat] /\ total' \in Int /\ total' = TotalOf(size', M!Chunks)
         /\ \A c \in M!Chunks : size'[c] = IF c \in cs THEN 0 ELSE size[c]
<1>1. size \in [M!Chunks -> Nat] /\ total = TotalOf(size, M!Chunks)
  BY MempoolParts
<1>2. size' = [c \in M!Chunks |-> IF c \in cs THEN 0 ELSE size[c]]
  BY DEF M!FreeChunks
<1>3. total' = total - TotalOf(size, cs)
  BY SumIsTotal DEF M!FreeChunks
<1>4. /\ size' \in [M!Chunks -> Nat]
      /\ \A c \in M!Chunks : size'[c] = IF c \in cs THEN 0 ELSE size[c]
  BY <1>1, <1>2
<1>5. /\ TotalOf(size', M!Chunks) = TotalOf(size, M!Chunks) - TotalOf(size, cs)
      /\ TotalOf(size', M!Chunks) \in Int
  BY <1>1, <1>4, TotalFreed
<1> QED
  BY <1>1, <1>3, <1>4, <1>5

\* The pool returns to an older state s.
LEMMA Returned ==
  ASSUME MempoolInv, NEW s \in MpStates, StateOK(size, home, s),
         \A i \in 1..2 : EndOf(s.chain[i], poolState.chain[i]),
         NEW cs, cs = Elements(poolState.chain[2]) \ Elements(s.chain[2]), M!FreeChunks(cs),
         NEW b, b = SubSeq(poolState.chain[1], 1, Len(poolState.chain[1]) - Len(s.chain[1])),
         unused' = M!Reversed(b) \o unused
  PROVE  /\ size' \in [M!Chunks -> Nat] /\ total' \in Int /\ total' = TotalOf(size', M!Chunks)
         /\ unused' \in Seq(M!Chunks) /\ ChunksOK(size', s, unused', 0)
         /\ StateOK(size', home, s) /\ \A c \in Used(s) : size'[c] = size[c]
<1> DEFINE st == poolState
           r == M!Reversed(b)
<1>1. /\ size \in [M!Chunks -> Nat] /\ st \in MpStates /\ unused \in Seq(M!Chunks)
      /\ ChunksOK(size, st, unused, lastBig)
  BY MempoolParts, Zenon
<1>2. /\ st.chain[1] \in Seq(M!Chunks) /\ st.chain[2] \in Seq(M!Chunks)
      /\ s.chain[1] \in Seq(M!Chunks) /\ s.chain[2] \in Seq(M!Chunks)
      /\ EndOf(s.chain[1], st.chain[1]) /\ EndOf(s.chain[2], st.chain[2])
  BY <1>1, StateType
<1>3. /\ NoDuplicates(st.chain[1]) /\ NoDuplicates(st.chain[2]) /\ NoDuplicates(unused)
      /\ Elements(st.chain[1]) \cap Elements(st.chain[2]) = {}
      /\ Elements(unused) \cap Elements(st.chain[1]) = {}
      /\ Elements(unused) \cap Elements(st.chain[2]) = {}
      /\ \A c \in M!Chunks :
           /\ c \in Elements(st.chain[1]) \cup Elements(unused) => size[c] = ChunkSize
           /\ size[c] > 0 <=> \/ c \in Elements(st.chain[1]) \/ c \in Elements(st.chain[2])
                              \/ c \in Elements(unused)
  BY <1>1 DEF ChunksOK, Used
<1>4. /\ size' \in [M!Chunks -> Nat] /\ total' \in Int /\ total' = TotalOf(size', M!Chunks)
      /\ \A c \in M!Chunks : size'[c] = IF c \in cs THEN 0 ELSE size[c]
  BY FreedFacts
<1>5. /\ r \in Seq(M!Chunks) /\ Elements(r) = Elements(b) /\ NoDuplicates(r)
      /\ Elements(b) = Elements(st.chain[1]) \ Elements(s.chain[1])
  <2>1. BeginOf(b, st.chain[1], s.chain[1])
    BY <1>2, <1>3, BeginFacts, Zenon
  <2> QED
    BY <2>1, Zenon DEF BeginOf
<1>6. Elements(r) = Elements(st.chain[1]) \ Elements(s.chain[1])
  BY <1>5
<1>7. NoDuplicates(s.chain[1]) /\ Elements(s.chain[1]) \subseteq Elements(st.chain[1])
  BY <1>2, <1>3, EndFacts
<1>8. NoDuplicates(s.chain[2]) /\ Elements(s.chain[2]) \subseteq Elements(st.chain[2])
  BY <1>2, <1>3, EndFacts
<1> HIDE DEF r
<1>9. Elements(r) \cap Elements(unused) = {}
  BY <1>3, <1>6
<1>10. unused' = r \o unused
  BY DEF r
<1>11. Joined(unused', r, unused)
  BY <1>1, <1>3, <1>5, <1>9, <1>10, JoinedFacts, Zenon
<1>12. /\ unused' \in Seq(M!Chunks) /\ Elements(unused') = Elements(r) \cup Elements(unused)
       /\ NoDuplicates(unused')
  BY <1>11 DEF Joined
<1>13. \A c \in Used(s) : c \in M!Chunks /\ c \notin cs
  BY <1>2, <1>3, <1>7, <1>8, ElementsType DEF Used
<1>14. \A c \in Used(s) : size'[c] = size[c]
  BY <1>4, <1>13
<1>15. ChunksOK(size', s, unused', 0)
  <2>1. Elements(s.chain[1]) \cap Elements(s.chain[2]) = {}
    BY <1>3, <1>7, <1>8
  <2>2. Elements(unused') \cap Used(s) = {}
    BY <1>3, <1>6, <1>7, <1>8, <1>12 DEF Used
  <2>3. ASSUME NEW c \in M!Chunks
        PROVE  /\ c \in Elements(s.chain[1]) \cup Elements(unused') => size'[c] = ChunkSize
               /\ size'[c] > 0 <=> c \in Used(s) \cup Elements(unused')
    <3>1. c \in Elements(s.chain[1]) \cup Elements(unused') <=>
            c \in Elements(st.chain[1]) \cup Elements(unused)
      BY <1>6, <1>7, <1>12
    <3>2. CASE c \in cs
      <4>1. size'[c] = 0 /\ ~(0 > 0)
        BY <1>4, <3>2
      <4>2. c \in Elements(st.chain[2]) /\ c \notin Elements(s.chain[2])
        BY <3>2
      <4>3. c \notin Elements(st.chain[1]) /\ c \notin Elements(unused)
        BY <1>3, <4>2
      <4>4. c \notin Elements(s.chain[1]) /\ c \notin Elements(unused')
        BY <3>1, <4>3
      <4> QED
        BY <4>1, <4>2, <4>4 DEF Used
    <3>3. CASE c \notin cs
      <4>1. size'[c] = size[c]
        BY <1>4, <3>3
      <4>2. c \in Elements(s.chain[2]) <=> c \in Elements(st.chain[2])
        BY <1>8, <3>3
      <4> QED
        BY <1>3, <3>1, <4>1, <4>2 DEF Used
    <3> QED
      BY <3>2, <3>3
  <2> QED
    BY <1>7, <1>8, <1>12, <2>1, <2>2, <2>3 DEF ChunksOK
<1>16. StateOK(size', home, s)
  BY <1>1, <1>4, <1>14, SizesKept
<1> QED
  BY <1>4, <1>12, <1>14, <1>15, <1>16

\* Restore keeps the invariant.
LEMMA MempoolRestore ==
  ASSUME MempoolInv, NEW k \in DOMAIN saved, M!Restore(k)
  PROVE  MempoolInv'
<1> DEFINE s == saved[k].st
           n == saved[k].blocks
           cs == Elements(poolState.chain[2]) \ Elements(s.chain[2])
           b == SubSeq(poolState.chain[1], 1, Len(poolState.chain[1]) - Len(s.chain[1]))
<1>1. /\ size \in [M!Chunks -> Nat] /\ poolState \in MpStates
      /\ home \in {0, 1} /\ idx \in 1..2
      /\ liveBlocks \in Seq(MpBlocks) /\ saved \in Seq([st : MpStates, blocks : Nat])
      /\ LiveOK(size, home, poolState, liveBlocks) /\ ChunksOK(size, poolState, unused, lastBig)
      /\ \A w \in DOMAIN saved : /\ saved[w] \in [st : MpStates, blocks : Nat]
                                 /\ saved[w].st \in MpStates /\ saved[w].blocks \in Nat
                                 /\ SavedOK(size, home, poolState, liveBlocks, saved[w])
      /\ SavedInOrder(saved) /\ opened \in BOOLEAN
  BY MempoolParts, Zenon
<1>2. /\ s \in MpStates /\ n \in Nat /\ StateOK(size, home, s) /\ n <= Len(liveBlocks)
      /\ \A i \in 1..2 : EndOf(s.chain[i], poolState.chain[i])
      /\ \A m \in 1..n : BlockOK(size, home, s, liveBlocks[m])
  BY <1>1 DEF SavedOK
<1>3. /\ ~opened /\ unused' = M!Reversed(M!Newer(1, s)) \o unused
      /\ M!FreeChunks(M!ToSet(M!Newer(2, s))) /\ poolState' = s /\ lastBig' = 0
      /\ liveBlocks' = SubSeq(liveBlocks, 1, n) /\ saved' = SubSeq(saved, 1, k - 1)
      /\ canRealloc' = FALSE /\ idx' = idx /\ home' = home /\ opened' = opened
  BY DEF M!Restore, M!RestoreState
<1>4. M!Newer(1, s) = b
  BY DEF M!Newer
<1>5. M!ToSet(M!Newer(2, s)) = cs
  <2> DEFINE d == SubSeq(poolState.chain[2], 1, Len(poolState.chain[2]) - Len(s.chain[2]))
  <2>1. M!ToSet(M!Newer(2, s)) = Elements(d)
    BY DEF M!Newer, M!ToSet, Elements
  <2>2. poolState.chain[2] \in Seq(M!Chunks) /\ s.chain[2] \in Seq(M!Chunks)
    BY <1>1, <1>2, StateType
  <2>3. EndOf(s.chain[2], poolState.chain[2]) /\ NoDuplicates(poolState.chain[2])
    BY <1>1, <1>2 DEF ChunksOK
  <2>4. Elements(d) = cs
    <3>1. BeginOf(d, poolState.chain[2], s.chain[2])
      BY <2>2, <2>3, BeginFacts, Zenon
    <3> QED
      BY <3>1, Zenon DEF BeginOf
  <2> QED
    BY <2>1, <2>4
<1> HIDE DEF s, n, cs, b
<1>6. /\ size' \in [M!Chunks -> Nat] /\ total' \in Int /\ total' = TotalOf(size', M!Chunks)
      /\ unused' \in Seq(M!Chunks) /\ ChunksOK(size', s, unused', 0)
      /\ StateOK(size', home, s) /\ \A c \in Used(s) : size'[c] = size[c]
  <2>1. cs = Elements(poolState.chain[2]) \ Elements(s.chain[2])
    BY DEF cs
  <2>2. b = SubSeq(poolState.chain[1], 1, Len(poolState.chain[1]) - Len(s.chain[1]))
    BY DEF b
  <2>3. M!FreeChunks(cs) /\ unused' = M!Reversed(b) \o unused
    BY <1>3, <1>4, <1>5
  <2> QED
    BY <1>2, <2>1, <2>2, <2>3, Returned
<1>7. n \in 0..Len(liveBlocks) /\ Len(liveBlocks) \in Nat
  BY <1>1, <1>2
<1>8. /\ liveBlocks' \in Seq(MpBlocks) /\ Len(liveBlocks') = n
      /\ \A m \in 1..n : liveBlocks'[m] = liveBlocks[m]
  BY <1>1, <1>3, <1>7, SplitFacts
<1>9. DOMAIN liveBlocks' = 1..n /\ \A m \in 1..n : m \in DOMAIN liveBlocks
  BY <1>1, <1>7, <1>8
<1>10. LiveOK(size', home, s, liveBlocks')
  <2>1. \A x : BlockOK(size, home, s, x) => BlockOK(size', home, s, x)
    BY <1>1, <1>2, <1>6, SizesKept
  <2>2. \A m \in 1..n : BlockOK(size', home, s, liveBlocks'[m])
    BY <1>2, <1>8, <2>1
  <2>3. \A m, w \in 1..n : m < w /\ liveBlocks[m].chunk = liveBlocks[w].chunk =>
          liveBlocks[m].from + liveBlocks[m].len <= liveBlocks[w].from
    BY <1>1, <1>9 DEF LiveOK
  <2> QED
    BY <1>8, <1>9, <2>2, <2>3 DEF LiveOK
<1>11. /\ saved' \in Seq([st : MpStates, blocks : Nat]) /\ DOMAIN saved' = 1..(k - 1)
       /\ \A w \in 1..(k - 1) : saved'[w] = saved[w] /\ w \in DOMAIN saved /\ w < k
  <2> DEFINE S == [st : MpStates, blocks : Nat]
  <2>1. saved \in Seq(S)
    BY <1>1
  <2> HIDE DEF S
  <2>2. /\ Len(saved) \in Nat /\ DOMAIN saved = 1..Len(saved) /\ k \in 1..Len(saved)
        /\ k - 1 \in 0..Len(saved)
    BY <2>1
  <2>3. /\ saved' \in Seq(S) /\ Len(saved') = k - 1
        /\ \A w \in 1..(k - 1) : saved'[w] = saved[w]
    BY <1>3, <2>1, <2>2, SplitFacts
  <2>4. \A w \in 1..(k - 1) : w \in DOMAIN saved /\ w < k
    BY <2>2
  <2>5. DOMAIN saved' = 1..(k - 1)
    BY <2>3
  <2> QED
    BY <2>3, <2>4, <2>5 DEF S
<1>12. ASSUME NEW w \in DOMAIN saved' PROVE SavedOK(size', home, s, liveBlocks', saved'[w])
  <2> DEFINE old == saved[w]
  <2>1. saved'[w] = old /\ w \in DOMAIN saved /\ w < k
    BY <1>11
  <2>2. /\ old \in [st : MpStates, blocks : Nat] /\ old.st \in MpStates /\ old.blocks \in Nat
        /\ SavedOK(size, home, poolState, liveBlocks, old)
    BY <1>1, <2>1
  <2>3. old.blocks <= n /\ \A i \in 1..2 : Len(old.st.chain[i]) <= Len(s.chain[i])
    BY <1>1, <2>1 DEF SavedInOrder, n, s
  <2> HIDE DEF old
  <2>4. \A i \in 1..2 : EndOf(old.st.chain[i], s.chain[i])
    <3> SUFFICES ASSUME NEW i \in 1..2 PROVE EndOf(old.st.chain[i], s.chain[i])
      OBVIOUS
    <3>1. /\ old.st.chain[i] \in Seq(M!Chunks) /\ s.chain[i] \in Seq(M!Chunks)
          /\ poolState.chain[i] \in Seq(M!Chunks)
      BY <1>1, <1>2, <2>2 DEF MpStates
    <3>2. EndOf(old.st.chain[i], poolState.chain[i]) /\ EndOf(s.chain[i], poolState.chain[i])
      BY <1>2, <2>2 DEF SavedOK
    <3>3. Len(old.st.chain[i]) <= Len(s.chain[i])
      BY <2>3
    <3> QED
      BY <3>1, <3>2, <3>3, EndsNested, Zenon
  <2>5. Used(old.st) \subseteq Used(s)
    BY <1>2, <2>2, <2>4, OlderUsed
  <2>6. \A c \in Used(old.st) : size'[c] = size[c]
    BY <1>6, <2>5
  <2>7. old.blocks <= Len(liveBlocks') /\ \A m \in 1..old.blocks : liveBlocks'[m] = liveBlocks[m]
    BY <1>2, <1>8, <2>2, <2>3
  <2>8. SavedOK(size', home, s, liveBlocks', old)
    BY <1>1, <1>2, <1>6, <2>2, <2>4, <2>6, <2>7, SavedKept
  <2> QED
    BY <2>1, <2>8
<1>13. SavedInOrder(saved')
  BY <1>1, <1>11 DEF SavedInOrder
<1>14. LastBlock' /\ BigBuffer'
  BY <1>3, Zenon DEF LastBlock, BigBuffer
<1>15. MpTypes'
  BY <1>1, <1>3, <1>6, <1>8, <1>11, Zenon DEF MpTypes
<1>16. /\ ChunksOK(size, poolState, unused, lastBig)' /\ StateOK(size, home, poolState)'
       /\ LiveOK(size, home, poolState, liveBlocks)'
       /\ \A w \in DOMAIN saved' : SavedOK(size', home', poolState', liveBlocks', saved'[w])
  BY <1>3, <1>6, <1>10, <1>12, Zenon
<1> QED
  BY <1>6, <1>13, <1>14, <1>15, <1>16, Zenon DEF MempoolInv

\* A pair of chains.
LEMMA PairFacts ==
  ASSUME NEW S, NEW a \in S, NEW b \in S
  PROVE  <<a, b>>[1] = a /\ <<a, b>>[2] = b /\ <<a, b>> \in [1..2 -> S]
OBVIOUS

\* Flush keeps the invariant.
LEMMA MempoolFlush ==
  ASSUME MempoolInv, M!Flush
  PROVE  MempoolInv'
<1> DEFINE st == poolState
           rest == IF home = 0 THEN << >> ELSE <<home>>
           f == <<IF home = 0 THEN 0 ELSE ChunkSize - StateSize, 0>>
           ch == <<rest, << >> >>
           s == [free |-> f, chain |-> ch]
           b == SubSeq(st.chain[1], 1, Len(st.chain[1]) - Len(rest))
           cs == Elements(st.chain[2])
<1>1. /\ size \in [M!Chunks -> Nat] /\ st \in MpStates /\ home \in {0, 1} /\ idx \in 1..2
      /\ ChunksOK(size, st, unused, lastBig) /\ StateOK(size, home, st) /\ opened \in BOOLEAN
  BY MempoolParts, Zenon
<1>2. /\ ~opened /\ M!FreeChunks(cs) /\ unused' = M!Reversed(b) \o unused
      /\ poolState' = s /\ lastBig' = 0 /\ liveBlocks' = << >> /\ saved' = << >>
      /\ canRealloc' = FALSE /\ idx' = idx /\ home' = home /\ opened' = opened
  BY DEF M!Flush, M!ToSet, Elements
<1>3. rest \in Seq(M!Chunks) /\ (home = 0 => rest = << >>)
      /\ (home # 0 => rest # << >> /\ Len(rest) = 1 /\ rest[1] = home /\ Head(rest) = home)
  <2>1. CASE home = 0
    BY <2>1
  <2>2. CASE home = 1
    <3>1. 1 \in M!Chunks
      BY MempoolAssumption DEF M!Chunks
    <3>2. rest = <<1>>
      BY <2>2
    <3> HIDE DEF rest
    <3> QED
      BY <2>2, <3>1, <3>2
  <2> QED
    BY <1>1, <2>1, <2>2
<1>4. f[1] = (IF home = 0 THEN 0 ELSE ChunkSize - StateSize) /\ f[2] = 0 /\ f \in [1..2 -> Nat]
  BY MempoolAssumption
<1> HIDE DEF rest
<1>5. ch[1] = rest /\ ch[2] = << >> /\ ch \in [1..2 -> Seq(M!Chunks)]
  <2>1. << >> \in Seq(M!Chunks)
    OBVIOUS
  <2> QED
    BY <1>3, <2>1, PairFacts
<1> HIDE DEF f, ch
<1>6. /\ s \in MpStates /\ s.chain[1] = rest /\ s.chain[2] = << >>
      /\ s.free[1] = (IF home = 0 THEN 0 ELSE ChunkSize - StateSize) /\ s.free[2] = 0
  BY <1>4, <1>5 DEF MpStates
<1> HIDE DEF s
<1>7. /\ st.chain[1] \in Seq(M!Chunks) /\ st.chain[2] \in Seq(M!Chunks)
      /\ home # 0 => st.chain[1] # << >> /\ st.chain[1][Len(st.chain[1])] = home
  BY <1>1, StateType DEF StateOK
<1>8. EndOf(rest, st.chain[1]) /\ EndOf(<< >>, st.chain[2])
  <2>1. Len(st.chain[1]) \in Nat /\ Len(st.chain[2]) \in Nat /\ Len(<< >>) = 0
    BY <1>7
  <2>2. EndOf(<< >>, st.chain[2]) /\ EndOf(<< >>, st.chain[1])
    BY <2>1 DEF EndOf
  <2>3. CASE home = 0
    BY <1>3, <2>2, <2>3
  <2>4. CASE home # 0
    <3>1. Len(st.chain[1]) >= 1 /\ (Len(st.chain[1]) - 1) + 1 = Len(st.chain[1])
      BY <1>7, <2>1, <2>4
    <3>2. Len(rest) = 1 /\ rest[1] = home
      BY <1>3, <2>4
    <3>3. ASSUME NEW k \in 1..Len(rest)
          PROVE  rest[k] = st.chain[1][(Len(st.chain[1]) - Len(rest)) + k]
      <4>1. k = 1
        BY <3>2
      <4> QED
        BY <1>7, <2>4, <3>1, <3>2, <4>1
    <3> QED
      BY <2>2, <3>1, <3>2, <3>3 DEF EndOf
  <2> QED
    BY <2>3, <2>4
<1>9. \A i \in 1..2 : EndOf(s.chain[i], st.chain[i])
  BY <1>6, <1>8
<1>10. ASSUME home # 0 PROVE size[home] = ChunkSize
  <2>1. Len(st.chain[1]) \in DOMAIN st.chain[1]
    BY <1>7, <1>10
  <2>2. home \in Elements(st.chain[1])
    BY <1>7, <1>10, <2>1 DEF Elements
  <2>3. home \in M!Chunks
    BY <1>7, <2>2, ElementsType
  <2> QED
    BY <1>1, <2>2, <2>3 DEF ChunksOK
<1>11. StateOK(size, home, s)
  <2>1. TopSize(size, s, 2) = 0
    BY <1>6 DEF TopSize
  <2>2. CASE home = 0
    <3>1. TopSize(size, s, 1) = 0
      BY <1>3, <1>6, <2>2 DEF TopSize
    <3> QED
      BY <1>6, <2>1, <2>2, <3>1 DEF StateOK
  <2>3. CASE home # 0
    <3>1. TopSize(size, s, 1) = ChunkSize /\ ChunkSize - StateSize <= ChunkSize
      BY <1>3, <1>6, <1>10, <2>3, MempoolAssumption DEF TopSize
    <3>2. s.chain[1][Len(s.chain[1])] = home /\ s.chain[1] # << >>
      BY <1>3, <1>6, <2>3
    <3>3. s.free[1] = ChunkSize - StateSize /\ ChunkSize - StateSize \in Int
      BY <1>6, <2>3, MempoolAssumption
    <3> QED
      BY <1>6, <2>1, <2>3, <3>1, <3>2, <3>3 DEF StateOK
  <2> QED
    BY <2>2, <2>3
<1>12. cs = Elements(st.chain[2]) \ Elements(s.chain[2])
  BY <1>6, EmptyFacts
<1>13. b = SubSeq(st.chain[1], 1, Len(st.chain[1]) - Len(s.chain[1]))
  BY <1>6
<1> HIDE DEF cs, b
<1>14. /\ size' \in [M!Chunks -> Nat] /\ total' \in Int /\ total' = TotalOf(size', M!Chunks)
       /\ unused' \in Seq(M!Chunks) /\ ChunksOK(size', s, unused', 0)
       /\ StateOK(size', home, s)
  BY <1>2, <1>6, <1>9, <1>11, <1>12, <1>13, Returned
<1>15. /\ LiveOK(size', home, s, << >>) /\ SavedInOrder(<< >>) /\ DOMAIN << >> = {}
       /\ << >> \in Seq(MpBlocks) /\ << >> \in Seq([st : MpStates, blocks : Nat])
  BY DEF LiveOK, SavedInOrder
<1>16. LastBlock' /\ BigBuffer'
  BY <1>2, Zenon DEF LastBlock, BigBuffer
<1>17. MpTypes'
  BY <1>1, <1>2, <1>14, <1>15, Zenon DEF MpTypes
<1>18. /\ ChunksOK(size, poolState, unused, lastBig)' /\ StateOK(size, home, poolState)'
       /\ LiveOK(size, home, poolState, liveBlocks)' /\ SavedInOrder(saved)'
       /\ \A w \in DOMAIN saved' : SavedOK(size', home', poolState', liveBlocks', saved'[w])
  BY <1>2, <1>14, <1>15, Zenon
<1> QED
  BY <1>14, <1>16, <1>17, <1>18, Zenon DEF MempoolInv

\* A chain of chunks that do not repeat cut in two.
LEMMA CutChain ==
  ASSUME NEW s \in Seq(M!Chunks), NoDuplicates(s), NEW n \in 0..Len(s)
  PROVE  /\ SubSeq(s, n + 1, Len(s)) \in Seq(M!Chunks)
         /\ NoDuplicates(SubSeq(s, n + 1, Len(s)))
         /\ Elements(SubSeq(s, n + 1, Len(s))) = Elements(s) \ Elements(SubSeq(s, 1, n))
         /\ Elements(SubSeq(s, 1, n)) \subseteq Elements(s)
<1> DEFINE front == SubSeq(s, 1, n)
           back == SubSeq(s, n + 1, Len(s))
<1>1. /\ front \in Seq(M!Chunks) /\ Len(front) = n /\ \A k \in 1..n : front[k] = s[k]
      /\ back \in Seq(M!Chunks) /\ Len(back) = Len(s) - n
      /\ \A k \in 1..(Len(s) - n) : back[k] = s[k + n]
  BY SplitFacts
<1> HIDE DEF front, back
<1>2. /\ Len(s) \in Nat /\ n \in Nat /\ n <= Len(s) /\ DOMAIN s = 1..Len(s)
      /\ DOMAIN front = 1..n /\ DOMAIN back = 1..(Len(s) - n)
  BY <1>1
<1>3. \A k \in 1..(Len(s) - n) : k + n \in DOMAIN s /\ k + n > n
  BY <1>2
<1>4. \A k \in 1..n : k \in DOMAIN s
  BY <1>2
<1>5. NoDuplicates(back)
  <2> SUFFICES ASSUME NEW i \in DOMAIN back, NEW w \in DOMAIN back, back[i] = back[w] PROVE i = w
    BY DEF NoDuplicates
  <2>1. i + n = w + n
    BY <1>1, <1>2, <1>3, SMTT(30) DEF NoDuplicates
  <2> QED
    BY <1>2, <2>1
<1>6. Elements(front) \subseteq Elements(s)
  BY <1>1, <1>2, <1>4 DEF Elements
<1>7. ASSUME NEW k \in DOMAIN back PROVE back[k] \in Elements(s) \ Elements(front)
  <2>1. back[k] = s[k + n] /\ k + n \in DOMAIN s /\ k + n > n
    BY <1>1, <1>2, <1>3
  <2>2. ASSUME NEW m \in DOMAIN front PROVE front[m] # back[k]
    <3>1. front[m] = s[m] /\ m \in DOMAIN s /\ m <= n
      BY <1>1, <1>2, <1>4
    <3>2. m # k + n
      BY <1>2, <2>1, <3>1
    <3> QED
      BY <2>1, <3>1, <3>2 DEF NoDuplicates
  <2> QED
    BY <2>1, <2>2 DEF Elements
<1>8. ASSUME NEW k \in DOMAIN s, s[k] \notin Elements(front) PROVE s[k] \in Elements(back)
  <2>1. k \notin 1..n
    BY <1>1, <1>2, <1>8 DEF Elements
  <2>2. k - n \in 1..(Len(s) - n) /\ (k - n) + n = k
    BY <1>2, <2>1
  <2>3. back[k - n] = s[k]
    BY <1>1, <2>2
  <2> QED
    BY <1>2, <2>2, <2>3 DEF Elements
<1>9. Elements(back) = Elements(s) \ Elements(front)
  <2>1. Elements(back) \subseteq Elements(s) \ Elements(front)
    BY <1>7 DEF Elements
  <2>2. ASSUME NEW x \in Elements(s), x \notin Elements(front) PROVE x \in Elements(back)
    <3>1. PICK k \in DOMAIN s : s[k] = x
      BY DEF Elements
    <3> QED
      BY <1>8, <2>2, <3>1
  <2> QED
    BY <2>1, <2>2
<1> QED
  BY <1>1, <1>5, <1>6, <1>9 DEF front, back

\* A number of chunks for mp_shrink exists.
LEMMA GreatestNumber ==
  ASSUME NEW n \in Nat, NEW U, U \subseteq 0..n, 0 \in U
  PROVE  M!Max(U) \in U
<1> DEFINE R == {k \in Nat : k <= n /\ n - k \in U}
<1>1. n - n = 0 /\ n \in R
  OBVIOUS
<1>2. R \subseteq Nat /\ R # {}
  BY <1>1
<1>3. PICK x \in R : \A y \in R : x <= y
  <2> HIDE DEF R
  <2> QED
    BY <1>2, LeastNatural
<1>4. x \in Nat /\ x <= n /\ n - x \in U
  BY <1>3
<1>5. \A y \in U : n - x >= y
  <2> SUFFICES ASSUME NEW y \in U PROVE n - x >= y
    OBVIOUS
  <2>1. y \in 0..n /\ n - (n - y) = y /\ n - y \in Nat /\ n - y <= n
    OBVIOUS
  <2>2. n - y \in R
    BY <2>1
  <2>3. x <= n - y
    BY <1>3, <2>2
  <2> QED
    BY <1>4, <2>1, <2>3
<1>6. \E z \in U : \A y \in U : z >= y
  BY <1>4, <1>5
<1> QED
  BY <1>6 DEF M!Max

\* Shrink keeps the invariant.
LEMMA MempoolShrink ==
  ASSUME MempoolInv, NEW least \in Nat, M!Shrink(least)
  PROVE  MempoolInv'
<1> DEFINE U == {k \in 0 .. Len(unused) : k = 0 \/ total - k * ChunkSize >= least}
           n == M!Max(U)
           front == SubSeq(unused, 1, n)
           cs == Elements(front)
<1>1. /\ size \in [M!Chunks -> Nat] /\ total \in Int /\ unused \in Seq(M!Chunks)
      /\ home \in {0, 1} /\ poolState \in MpStates /\ idx \in 1..2
      /\ liveBlocks \in Seq(MpBlocks) /\ saved \in Seq([st : MpStates, blocks : Nat])
      /\ ChunksOK(size, poolState, unused, lastBig)
      /\ StateOK(size, home, poolState) /\ LiveOK(size, home, poolState, liveBlocks)
      /\ \A w \in DOMAIN saved : /\ saved[w] \in [st : MpStates, blocks : Nat]
                                 /\ saved[w].st \in MpStates /\ saved[w].blocks \in Nat
                                 /\ SavedOK(size, home, poolState, liveBlocks, saved[w])
      /\ SavedInOrder(saved) /\ opened \in BOOLEAN /\ canRealloc \in BOOLEAN
  BY MempoolParts, Zenon
<1>2. /\ M!FreeChunks(cs) /\ unused' = SubSeq(unused, n + 1, Len(unused))
      /\ poolState' = poolState /\ idx' = idx /\ lastBig' = lastBig /\ home' = home
      /\ liveBlocks' = liveBlocks /\ saved' = saved /\ opened' = opened
      /\ canRealloc' = canRealloc
  BY DEF M!Shrink, M!ToSet, Elements
<1>3. n \in 0..Len(unused)
  <2>1. Len(unused) \in Nat /\ U \subseteq 0..Len(unused) /\ 0 \in U
    BY <1>1
  <2> HIDE DEF U
  <2>2. n \in U
    BY <2>1, GreatestNumber
  <2> QED
    BY <2>1, <2>2
<1> HIDE DEF n, U
<1>4. NoDuplicates(unused)
  BY <1>1 DEF ChunksOK
<1>5. /\ unused' \in Seq(M!Chunks) /\ NoDuplicates(unused')
      /\ Elements(unused') = Elements(unused) \ cs /\ cs \subseteq Elements(unused)
  BY <1>1, <1>2, <1>3, <1>4, CutChain
<1> HIDE DEF cs, front
<1>6. /\ size' \in [M!Chunks -> Nat] /\ total' \in Int /\ total' = TotalOf(size', M!Chunks)
      /\ \A c \in M!Chunks : size'[c] = IF c \in cs THEN 0 ELSE size[c]
  BY <1>2, FreedFacts
<1>7. /\ Elements(unused) \cap Used(poolState) = {} /\ Used(poolState) \subseteq M!Chunks
  BY <1>1, TopFacts DEF ChunksOK
<1>8. \A c \in Used(poolState) : size'[c] = size[c]
  BY <1>5, <1>6, <1>7
<1>9. /\ StateOK(size', home, poolState)
      /\ \A b : BlockOK(size, home, poolState, b) => BlockOK(size', home, poolState, b)
      /\ TopSize(size', poolState, 1) = TopSize(size, poolState, 1)
      /\ TopSize(size', poolState, 2) = TopSize(size, poolState, 2)
  BY <1>1, <1>6, <1>8, SizesKept
<1>10. LiveOK(size', home, poolState, liveBlocks)
  BY <1>1, <1>9 DEF LiveOK
<1>11. ChunksOK(size', poolState, unused', lastBig)
  <2>1. ASSUME NEW c \in M!Chunks
        PROVE  /\ c \in Elements(poolState.chain[1]) \cup Elements(unused') => size'[c] = ChunkSize
               /\ size'[c] > 0 <=> c \in Used(poolState) \cup Elements(unused')
    <3>1. /\ c \in Elements(poolState.chain[1]) \cup Elements(unused) => size[c] = ChunkSize
          /\ size[c] > 0 <=> c \in Used(poolState) \cup Elements(unused)
      BY <1>1 DEF ChunksOK
    <3>2. CASE c \in cs
      <4>1. c \notin Used(poolState) /\ c \notin Elements(unused') /\ size'[c] = 0
        BY <1>5, <1>6, <1>7, <3>2
      <4>2. c \notin Elements(poolState.chain[1])
        BY <4>1 DEF Used
      <4> QED
        BY <4>1, <4>2
    <3>3. CASE c \notin cs
      <4>1. size'[c] = size[c] /\ (c \in Elements(unused') <=> c \in Elements(unused))
        BY <1>5, <1>6, <3>3
      <4> QED
        BY <3>1, <4>1
    <3> QED
      BY <3>2, <3>3
  <2>2. Elements(unused') \cap Used(poolState) = {}
    BY <1>5, <1>7
  <2> QED
    BY <1>1, <1>5, <2>1, <2>2 DEF ChunksOK
<1>12. ASSUME NEW w \in DOMAIN saved PROVE SavedOK(size', home, poolState, liveBlocks, saved[w])
  <2>1. /\ \A m \in 1..2 : EndOf(saved[w].st.chain[m], poolState.chain[m])
        /\ saved[w].blocks <= Len(liveBlocks)
    BY <1>1 DEF SavedOK
  <2>2. Used(saved[w].st) \subseteq Used(poolState)
    BY <1>1, <2>1, OlderUsed
  <2>3. \A c \in Used(saved[w].st) : size'[c] = size[c]
    BY <1>8, <2>2
  <2> QED
    BY <1>1, <1>6, <2>1, <2>3, SavedKept
<1>13. BigBuffer'
  <2>1. BigBuffer
    BY DEF MempoolInv
  <2> QED
    BY <1>2, <1>9, <2>1, Zenon DEF BigBuffer
<1>14. LastBlock'
  <2>1. LastBlock
    BY DEF MempoolInv
  <2>2. \A b : AtEnd(size, poolState, lastBig, saved, b) =>
                 AtEnd(size', poolState, lastBig, saved, b)
    BY <1>9, Zenon DEF AtEnd
  <2> QED
    BY <1>2, <2>1, <2>2, Zenon DEF LastBlock
<1>15. MpTypes'
  BY <1>1, <1>2, <1>5, <1>6, Zenon DEF MpTypes
<1>16. /\ ChunksOK(size, poolState, unused, lastBig)' /\ StateOK(size, home, poolState)'
       /\ LiveOK(size, home, poolState, liveBlocks)' /\ SavedInOrder(saved)'
       /\ \A w \in DOMAIN saved' : SavedOK(size', home', poolState', liveBlocks', saved'[w])
  BY <1>1, <1>2, <1>9, <1>10, <1>11, <1>12, Zenon
<1> QED
  BY <1>6, <1>13, <1>14, <1>15, <1>16, Zenon DEF MempoolInv

\* A new pool.
LEMMA MempoolInit ==
  ASSUME M!Init
  PROVE  MempoolInv
<1> DEFINE none == [c \in M!Chunks |-> 0]
           rest == IF home = 0 THEN << >> ELSE <<1>>
           f == <<IF home = 0 THEN 0 ELSE ChunkSize - StateSize, 0>>
           ch == <<rest, << >> >>
<1>1. /\ home \in {0, 1} /\ size = [c \in M!Chunks |-> IF c = home THEN ChunkSize ELSE 0]
      /\ total = (IF home = 0 THEN 0 ELSE ChunkSize)
      /\ poolState = [free |-> f, chain |-> ch]
      /\ unused = << >> /\ idx = 1 /\ lastBig = 0 /\ liveBlocks = << >> /\ saved = << >>
      /\ opened = FALSE /\ canRealloc = FALSE
  BY DEF M!Init
<1>2. /\ ChunkSize \in Nat /\ ChunkSize > 0 /\ StateSize \in 1..ChunkSize
      /\ 1 \in M!Chunks /\ 0 \notin M!Chunks
  BY MempoolAssumption DEF M!Chunks
<1>3. /\ rest \in Seq(M!Chunks) /\ (home = 0 => rest = << >>)
      /\ home # 0 => /\ home = 1 /\ rest # << >> /\ Len(rest) = 1 /\ rest[1] = 1 /\ Head(rest) = 1
                     /\ DOMAIN rest = {1}
  <2>1. CASE home = 0
    BY <2>1
  <2>2. CASE home # 0
    <3>1. rest = <<1>> /\ home = 1
      BY <1>1, <2>2
    <3> HIDE DEF rest
    <3>2. DOMAIN <<1>> = {1}
      OBVIOUS
    <3> QED
      BY <1>2, <2>2, <3>1, <3>2
  <2> QED
    BY <2>1, <2>2
<1>4. f[1] = (IF home = 0 THEN 0 ELSE ChunkSize - StateSize) /\ f[2] = 0 /\ f \in [1..2 -> Nat]
  BY <1>2
<1> HIDE DEF rest
<1>5. ch[1] = rest /\ ch[2] = << >> /\ ch \in [1..2 -> Seq(M!Chunks)]
  <2>1. << >> \in Seq(M!Chunks)
    OBVIOUS
  <2> QED
    BY <1>3, <2>1, PairFacts
<1> HIDE DEF f, ch
<1>6. /\ poolState \in MpStates /\ poolState.chain[1] = rest /\ poolState.chain[2] = << >>
      /\ poolState.free[1] = (IF home = 0 THEN 0 ELSE ChunkSize - StateSize)
      /\ poolState.free[2] = 0
  BY <1>1, <1>4, <1>5 DEF MpStates
<1>7. /\ size \in [M!Chunks -> Nat] /\ none \in [M!Chunks -> Nat]
      /\ \A c \in M!Chunks : size[c] = (IF c = home THEN ChunkSize ELSE 0) /\ none[c] = 0
  BY <1>1, <1>2
<1>8. total = TotalOf(size, M!Chunks) /\ total \in Int
  <2> HIDE DEF none
  <2>1. \A c \in M!Chunks : none[c] = IF c \in M!Chunks THEN 0 ELSE none[c]
    BY <1>7
  <2>2. /\ TotalOf(none, M!Chunks) = TotalOf(none, M!Chunks) - TotalOf(none, M!Chunks)
        /\ TotalOf(none, M!Chunks) \in Int
    BY <1>7, <2>1, TotalFreed
  <2>3. TotalOf(none, M!Chunks) = 0
    BY <2>2
  <2>4. CASE home = 0
    <3>1. size = none
      BY <1>1, <1>2, <2>4 DEF none
    <3> QED
      BY <1>1, <2>3, <2>4, <3>1
  <2>5. CASE home = 1
    <3>1. size = [none EXCEPT ![1] = ChunkSize]
      BY <1>1, <1>2, <2>5 DEF none
    <3>2. TotalOf(size, M!Chunks) = (TotalOf(none, M!Chunks) - none[1]) + ChunkSize
      <4>1. 1 \in M!Chunks /\ ChunkSize \in Nat /\ none \in [M!Chunks -> Nat]
        BY <1>2, <1>7
      <4>2. TotalOf([none EXCEPT ![1] = ChunkSize], M!Chunks)
              = (TotalOf(none, M!Chunks) - none[1]) + ChunkSize
        BY <4>1, TotalChanged, Zenon
      <4> QED
        BY <3>1, <4>2, Zenon
    <3>3. none[1] = 0
      BY <1>2, <1>7
    <3> QED
      BY <1>1, <1>2, <2>3, <2>5, <3>2, <3>3
  <2> QED
    BY <1>1, <2>4, <2>5
<1>9. Elements(rest) = (IF home = 0 THEN {} ELSE {1}) /\ NoDuplicates(rest)
  BY <1>3 DEF Elements, NoDuplicates
<1>10. ChunksOK(size, poolState, unused, lastBig)
  <2>1. Elements(unused) = {} /\ Elements(<< >>) = {} /\ NoDuplicates(unused) /\ NoDuplicates(<< >>)
    BY <1>1, EmptyFacts
  <2>2. Used(poolState) = Elements(rest)
    BY <1>6, <2>1 DEF Used
  <2>3. ASSUME NEW c \in M!Chunks
        PROVE  /\ c \in Elements(rest) => size[c] = ChunkSize
               /\ size[c] > 0 <=> c \in Elements(rest)
    <3>1. c # 0 /\ size[c] = IF c = home THEN ChunkSize ELSE 0
      BY <1>2, <1>7
    <3>2. c \in Elements(rest) <=> c = home
      BY <1>1, <1>9, <3>1
    <3> QED
      BY <1>2, <3>1, <3>2
  <2> QED
    BY <1>1, <1>6, <1>9, <2>1, <2>2, <2>3 DEF ChunksOK
<1>11. StateOK(size, home, poolState)
  <2>1. TopSize(size, poolState, 2) = 0
    BY <1>6 DEF TopSize
  <2>2. CASE home = 0
    <3>1. TopSize(size, poolState, 1) = 0
      BY <1>3, <1>6, <2>2 DEF TopSize
    <3> QED
      BY <1>6, <2>1, <2>2, <3>1 DEF StateOK
  <2>3. CASE home # 0
    <3>1. TopSize(size, poolState, 1) = ChunkSize /\ ChunkSize - StateSize <= ChunkSize
      BY <1>2, <1>3, <1>6, <1>7, <2>3 DEF TopSize
    <3>2. poolState.chain[1][Len(poolState.chain[1])] = home /\ poolState.chain[1] # << >>
      BY <1>3, <1>6, <2>3
    <3>3. poolState.free[1] = ChunkSize - StateSize /\ ChunkSize - StateSize \in Int
      BY <1>2, <1>6, <2>3
    <3> QED
      BY <1>6, <2>1, <2>3, <3>1, <3>2, <3>3 DEF StateOK
  <2> QED
    BY <2>2, <2>3
<1>12. /\ LiveOK(size, home, poolState, << >>) /\ SavedInOrder(<< >>) /\ DOMAIN << >> = {}
       /\ << >> \in Seq(MpBlocks) /\ << >> \in Seq([st : MpStates, blocks : Nat])
       /\ << >> \in Seq(M!Chunks) /\ 1 \in 1..2
  BY DEF LiveOK, SavedInOrder
<1>13. LastBlock /\ BigBuffer
  BY <1>1, Zenon DEF LastBlock, BigBuffer
<1>14. MpTypes
  BY <1>1, <1>7, <1>8, <1>12, Zenon DEF MpTypes
<1> QED
  BY <1>1, <1>8, <1>10, <1>11, <1>12, <1>13, <1>14, Zenon DEF MempoolInv

\* Every step of a pool keeps the invariant.
LEMMA MempoolNext ==
  ASSUME MempoolInv, [M!Next]_(M!mpVars)
  PROVE  MempoolInv'
<1>0. /\ Sizes \subseteq Nat /\ Sizes \cup {0} \subseteq Nat /\ ChunkSize \in Nat
      /\ \A least \in {0, ChunkSize} : least \in Nat
  BY MempoolAssumption
<1>1. CASE \E n \in Sizes, a \in BOOLEAN : M!Alloc(n, a)
  BY <1>0, <1>1, MempoolAlloc
<1>2. CASE \E n \in Sizes \cup {0}, a \in BOOLEAN : M!Start(n, a)
  BY <1>0, <1>2, MempoolStart
<1>3. CASE M!Open
  BY <1>3, MempoolOpen
<1>4. CASE \E n \in Sizes \cup {0} : M!Grow(n)
  BY <1>0, <1>4, MempoolGrow
<1>5. CASE \E k \in Sizes \cup {0} : M!End(k)
  BY <1>0, <1>5, MempoolEnd
<1>6. CASE M!Push
  BY <1>6, MempoolPush
<1>7. CASE \E k \in DOMAIN saved : M!Restore(k)
  BY <1>7, MempoolRestore
<1>8. CASE M!Flush
  BY <1>8, MempoolFlush
<1>9. CASE \E least \in {0, ChunkSize} : M!Shrink(least)
  BY <1>0, <1>9, MempoolShrink
<1>10. CASE UNCHANGED M!mpVars
  BY <1>10, MempoolStutter
<1> QED
  BY <1>1, <1>2, <1>3, <1>4, <1>5, <1>6, <1>7, <1>8, <1>9, <1>10, Zenon DEF M!Next

\* The blocks, the growing buffer and the chunks of a pool: what the invariant
\* says about them.
LEMMA MempoolImplies ==
  ASSUME MempoolInv
  PROVE  MempoolSound
<1> DEFINE st == poolState
<1>1. /\ size \in [M!Chunks -> Nat] /\ st \in MpStates /\ unused \in Seq(M!Chunks) /\ idx \in 1..2
      /\ liveBlocks \in Seq(MpBlocks) /\ total = TotalOf(size, M!Chunks)
      /\ ChunksOK(size, st, unused, lastBig) /\ LiveOK(size, home, st, liveBlocks)
  BY MempoolParts, Zenon
<1>2. st.chain[1] \in Seq(M!Chunks) /\ st.chain[2] \in Seq(M!Chunks)
  BY <1>1, StateType
<1>3. /\ NoDuplicates(st.chain[1]) /\ NoDuplicates(st.chain[2]) /\ NoDuplicates(unused)
      /\ Elements(st.chain[1]) \cap Elements(st.chain[2]) = {}
      /\ Elements(unused) \cap Used(st) = {}
      /\ \A c \in M!Chunks : size[c] > 0 <=> c \in Used(st) \cup Elements(unused)
  BY <1>1 DEF ChunksOK
<1> DEFINE both == st.chain[1] \o st.chain[2]
           all == both \o unused
<1>4. Joined(both, st.chain[1], st.chain[2])
  BY <1>2, <1>3, JoinedFacts, Zenon
<1> HIDE DEF both
<1>5. both \in Seq(M!Chunks) /\ NoDuplicates(both) /\ Elements(both) = Used(st)
  BY <1>4, Zenon DEF Joined, Used
<1>6. Elements(both) \cap Elements(unused) = {}
  BY <1>3, <1>5
<1>7. Joined(all, both, unused)
  BY <1>1, <1>3, <1>5, <1>6, JoinedFacts, Zenon
<1> HIDE DEF all
<1>8. NoDuplicates(all) /\ Elements(all) = Used(st) \cup Elements(unused)
  BY <1>5, <1>7, Zenon DEF Joined
<1>9. ASSUME NEW k \in DOMAIN liveBlocks, liveBlocks[k].chunk # 0
      PROVE  /\ liveBlocks[k].chunk \in Used(st)
             /\ liveBlocks[k].from + liveBlocks[k].len <= size[liveBlocks[k].chunk]
             /\ liveBlocks[k].chunk = home => liveBlocks[k].from >= StateSize
             /\ \A i \in 1..2 : st.chain[i] # <<>> /\ liveBlocks[k].chunk = Head(st.chain[i]) =>
                  liveBlocks[k].from + liveBlocks[k].len <= size[liveBlocks[k].chunk] - st.free[i]
  BY <1>1, <1>9, Zenon DEF LiveOK, BlockOK
<1>10. M!BlocksApart
  <2> SUFFICES ASSUME NEW k \in DOMAIN liveBlocks, liveBlocks[k].len > 0
               PROVE  /\ liveBlocks[k].chunk \in M!ToSet(st.chain[1] \o st.chain[2])
                      /\ liveBlocks[k].from + liveBlocks[k].len <= size[liveBlocks[k].chunk]
                      /\ liveBlocks[k].chunk = home => liveBlocks[k].from >= StateSize
                      /\ \A m \in 1 .. k - 1 :
                           liveBlocks[m].len > 0 /\ liveBlocks[m].chunk = liveBlocks[k].chunk =>
                             liveBlocks[m].from + liveBlocks[m].len <= liveBlocks[k].from
    BY Zenon DEF M!BlocksApart
  <2>1. liveBlocks[k].chunk # 0
    <3>1. ASSUME liveBlocks[k].chunk = 0 PROVE liveBlocks[k].len = 0
      BY <1>1, <3>1, Zenon DEF LiveOK, BlockOK
    <3> QED
      BY <3>1
  <2>2. M!ToSet(st.chain[1] \o st.chain[2]) = Used(st)
    BY <1>5 DEF M!ToSet, Elements, both
  <2>3. \A m \in 1 .. k - 1 : m \in DOMAIN liveBlocks /\ m < k
    BY <1>1
  <2>4. \A m \in 1 .. k - 1 : liveBlocks[m].chunk = liveBlocks[k].chunk =>
           liveBlocks[m].from + liveBlocks[m].len <= liveBlocks[k].from
    BY <1>1, <2>3 DEF LiveOK
  <2> QED
    BY <1>9, <2>1, <2>2, <2>4, Zenon
<1>11. M!BufferApart
  <2> SUFFICES ASSUME st.chain[idx] # <<>>, NEW k \in DOMAIN liveBlocks,
                      liveBlocks[k].chunk = Head(st.chain[idx])
               PROVE  liveBlocks[k].from + liveBlocks[k].len
                        <= size[liveBlocks[k].chunk] - st.free[idx]
    BY Zenon DEF M!BufferApart, M!Avail
  <2>1. Head(st.chain[idx]) \in M!Chunks
    BY <1>1, TopFacts
  <2>2. liveBlocks[k].chunk # 0
    BY <2>1, MempoolAssumption DEF M!Chunks
  <2> QED
    BY <1>1, <1>9, <2>2, Zenon
<1>12. M!ChunksAccounted
  <2>1. M!ToSet(st.chain[1] \o st.chain[2] \o unused) = Used(st) \cup Elements(unused)
    BY <1>8 DEF M!ToSet, Elements, all, both
  <2>2. M!IsInjective(st.chain[1] \o st.chain[2] \o unused)
    BY <1>8 DEF M!IsInjective, NoDuplicates, all, both
  <2>3. total = M!SumSizes(M!Chunks)
    BY <1>1, SumIsTotal
  <2> QED
    BY <1>3, <2>1, <2>2, <2>3, Zenon DEF M!ChunksAccounted
<1>13. M!SizeExact
  BY LastBlockFacts DEF M!SizeExact
<1> QED
  BY <1>10, <1>11, <1>12, <1>13, Zenon DEF MempoolSound, M!MempoolSound

\* The invariant of a memory pool holds in every reachable state.
THEOREM MempoolInvariance == M!Spec => []MempoolInv
<1>1. M!Init => MempoolInv
  BY MempoolInit
<1>2. MempoolInv /\ [M!Next]_(M!mpVars) => MempoolInv'
  BY MempoolNext
<1> QED
  BY <1>1, <1>2, PTL DEF M!Spec

\* Live blocks never overlap each other, the growing buffer or the pool itself,
\* and every chunk is accounted for, across growing buffers, saving, restoring,
\* flushing and shrinking (mempool.c, mempool.h).
THEOREM MempoolSoundTheorem == M!Spec => []MempoolSound
<1>1. MempoolInv => MempoolSound
  BY MempoolImplies
<1> QED
  BY <1>1, MempoolInvariance, PTL

-----------------------------------------------------------------------------
(* Transactions.  Identifiers grow, so the identifier of an open           *)
(* transaction divides everything into what is older and what was made     *)
(* since; a pool never holds younger resources than the transactions       *)
(* opened after it.                                                        *)

TransRecord == [rpool : T!Ids, prev : 0..MaxId, exc : 0..MaxId, mark : Nat]

StackTypes ==
  /\ trans \in Seq(TransRecord)
  /\ flying \in 0..MaxId /\ cur \in 0..MaxId /\ transMem \in Seq(T!Ids)

ResTypes ==
  /\ lastId \in T!Ids
  /\ list \in [T!Ids -> Seq(T!Ids)] /\ sub \in [T!Ids -> 0..MaxId]
  /\ temp \subseteq T!Ids /\ permPools \subseteq T!Ids
  /\ made \subseteq T!Ids /\ detached \subseteq T!Ids /\ freed \in Seq(T!Ids)

\* The resource r is linked in a pool
Linked(r) == \E p \in T!Ids : r \in Elements(list[p])

\* Nothing is known yet of the identifiers to come
KnownIds ==
  /\ \A r \in T!Ids : sub[r] # 0 => r <= lastId /\ 1 < sub[r] /\ sub[r] < r
  /\ \A p \in T!Ids : \A r \in Elements(list[p]) : p < r /\ r <= lastId
  /\ \A r \in made : r <= lastId

\* Nor of the memory to come
KnownStack ==
  /\ \A r \in Elements(transMem) : 1 < r /\ r <= lastId
  /\ \A i \in DOMAIN trans : trans[i].rpool <= lastId /\ trans[i].exc <= lastId
  /\ flying <= lastId

\* A resource is in one pool, a pool is the sub-pool of one resource
PoolTree ==
  /\ \A p \in T!Ids : NoDuplicates(list[p])
  /\ \A p, q \in T!Ids : p # q => Elements(list[p]) \cap Elements(list[q]) = {}
  /\ \A p \in T!Ids : \A r \in Elements(list[p]) : sub[r] # 0 => p < sub[r]
  /\ \A q, r \in T!Ids : sub[q] # 0 /\ sub[q] = sub[r] => q = r
  /\ \A r \in Elements(list[1]) : sub[r] = 0

\* The pools of open transactions are no sub-pools, and they are nested
StackOK ==
  /\ \A i \in DOMAIN trans : /\ trans[i].rpool > 1
                             /\ \A r \in T!Ids : sub[r] # trans[i].rpool
                             /\ i = 1 => trans[i].prev \in {0, 1}
                             /\ i > 1 => trans[i].prev = trans[i - 1].rpool
  /\ \A i, k \in DOMAIN trans : i < k => /\ trans[i].rpool < trans[k].rpool
                                         /\ trans[i].exc < trans[k].rpool
  /\ cur = 0 \/ cur = (IF trans = <<>> THEN 1 ELSE trans[Len(trans)].rpool)
  /\ trans # <<>> => cur # 0
  /\ flying # 0 => trans # <<>>

\* What is older than a transaction holds older resources only
Older ==
  \A i \in DOMAIN trans, p \in T!Ids :
    p < trans[i].rpool => \A r \in Elements(list[p]) : r < trans[i].rpool

\* mp_restore to the mark of the transaction t keeps exactly what is older
MarkOK(t, s) ==
  t.mark <= Len(s) /\ \A k \in DOMAIN s : k <= t.mark <=> s[k] < t.rpool

MarksOK == \A i \in DOMAIN trans : MarkOK(trans[i], transMem)

\* What is in memory refers to what is in memory
MemoryOK ==
  /\ \A i \in DOMAIN trans :
       /\ trans[i].rpool \in Elements(transMem)
       /\ trans[i].exc # 0 => trans[i].exc \in Elements(transMem)
  /\ flying # 0 => flying \in Elements(transMem)
  /\ \A p \in Elements(transMem), r \in T!Ids :
       r \in Elements(list[p]) => /\ r \in Elements(transMem)
                                  /\ sub[r] # 0 => sub[r] \in Elements(transMem)

\* Objects are freed or detached once, and linked until then
ObjectsOK ==
  /\ NoDuplicates(freed) /\ Elements(freed) \cap detached = {}
  /\ Elements(freed) \subseteq made /\ detached \subseteq made
  /\ \A r \in made : sub[r] = 0 /\ (Linked(r) <=> r \notin Elements(freed) \cup detached)
  /\ \A r \in T!Ids : Linked(r) => r \in made \/ sub[r] # 0

\* A pool which holds anything is that of the program or of a transaction, or
\* the sub-pool of a resource that is linked or was detached by a commit
Homes ==
  \A p \in T!Ids : list[p] # <<>> =>
    \/ p = 1
    \/ \E i \in DOMAIN trans : p = trans[i].rpool
    \/ \E q \in T!Ids : sub[q] = p /\ (Linked(q) \/ q \notin temp)

\* The resources of s are there from the oldest one
Ascending(s) == \A m, n \in DOMAIN s : m < n => s[m] < s[n]

\* Nothing is added to a pool between the opening of a transaction and its
\* folding into the pool, nor to the folded pool afterwards
AgeOrder ==
  /\ \A p \in T!Ids : Ascending(list[p])
  /\ \A p \in T!Ids : \A q, r \in Elements(list[p]) : q < r /\ sub[r] # 0 => q < sub[r]
  /\ \A r \in T!Ids : sub[r] # 0 => \A q \in Elements(list[sub[r]]) : q < r

ResInv == ResTypes /\ KnownIds /\ PoolTree /\ ObjectsOK /\ AgeOrder

TransInv ==
  /\ ResInv /\ StackTypes /\ KnownStack /\ StackOK /\ Older /\ MarksOK
  /\ MemoryOK /\ Homes
\* What freeing the resource r frees, when those in rs are freed
PartOf(f, r, rs) ==
  IF r \notin rs THEN <<>> ELSE IF sub[r] = 0 THEN <<r>> ELSE f[sub[r]]

\* The sequences FreedFrom goes through
FreedRun(d, f, s, rs) ==
  /\ d \in [0..Len(s) -> Seq(T!Ids)] /\ d[0] = <<>>
  /\ \A n \in 1..Len(s) : d[n] = PartOf(f, s[n], rs) \o d[n - 1]

\* What is freed with one resource is a list of identifiers.
LEMMA PartType ==
  ASSUME NEW f \in [T!Ids -> Seq(T!Ids)], NEW r \in T!Ids, NEW rs, sub \in [T!Ids -> 0..MaxId]
  PROVE  PartOf(f, r, rs) \in Seq(T!Ids)
<1>1. CASE r \notin rs
  BY <1>1 DEF PartOf
<1>2. CASE r \in rs /\ sub[r] = 0
  <2>1. PartOf(f, r, rs) = <<r>>
    BY <1>2 DEF PartOf
  <2> QED
    BY <2>1
<1>3. CASE r \in rs /\ sub[r] # 0
  <2>1. sub[r] \in T!Ids
    BY <1>3, TransAssumption DEF T!Ids
  <2>2. PartOf(f, r, rs) = f[sub[r]]
    BY <1>3 DEF PartOf
  <2> QED
    BY <2>1, <2>2
<1> QED
  BY <1>1, <1>2, <1>3

\* With every resource of s a list of identifiers is freed
PartsOK(f, s, rs) == \A k \in 1..Len(s) : PartOf(f, s[k], rs) \in Seq(T!Ids)

\* FreedFrom is the last of its sequences.
LEMMA FreedIs ==
  ASSUME NEW f, NEW s \in Seq(T!Ids), NEW rs, PartsOK(f, s, rs)
  PROVE  \E d : FreedRun(d, f, s, rs) /\ T!FreedFrom(f, s, rs) = d[Len(s)]
<1> DEFINE n == Len(s)
           Q == Seq(T!Ids)
           g == [x \in (1..n) \X Q |-> PartOf(f, s[x[1]], rs) \o x[2]]
<1>1. n \in Nat /\ \A k \in 1..n : s[k] \in T!Ids
  OBVIOUS
<1>2. \A k \in 1..n : PartOf(f, s[k], rs) \in Q
  BY DEF PartsOK
<1>3. \A a, b \in Q : a \o b \in Q
  OBVIOUS
<1>4. <<>> \in Q
  OBVIOUS
<1> HIDE DEF Q, n
<1>5. g \in [(1..n) \X Q -> Q]
  BY <1>2, <1>3
<1>6. PICK d : IsRecursion(d, Q, <<>>, n, g)
  <2> HIDE DEF g
  <2> QED
    BY <1>1, <1>4, <1>5, RecursionExists
<1>7. ASSUME NEW k \in 1..n PROVE d[k] = PartOf(f, s[k], rs) \o d[k - 1]
  <2>1. d[k - 1] \in Q /\ <<k, d[k - 1]>> \in (1..n) \X Q
    BY <1>1, <1>6 DEF IsRecursion
  <2>2. d[k] = g[<<k, d[k - 1]>>]
    BY <1>6 DEF IsRecursion
  <2> QED
    BY <2>1, <2>2
<1>8. FreedRun(d, f, s, rs)
  BY <1>6, <1>7 DEF FreedRun, IsRecursion, n, Q
<1> DEFINE Step(h) == [k \in 0..Len(s) |->
                        IF k = 0 THEN <<>>
                        ELSE (IF s[k] \notin rs THEN <<>>
                              ELSE IF sub[s[k]] = T!None THEN <<s[k]>> ELSE f[sub[s[k]]])
                               \o h[k - 1]]
           done == CHOOSE h : h = Step(h)
<1>9. \A k \in 1..Len(s) :
        PartOf(f, s[k], rs)
          = IF s[k] \notin rs THEN <<>>
            ELSE IF sub[s[k]] = T!None THEN <<s[k]>> ELSE f[sub[s[k]]]
  BY DEF PartOf, T!None
<1>10. d = Step(d)
  <2>1. \A k \in 0..Len(s) : k # 0 => k \in 1..Len(s)
    BY <1>1 DEF n
  <2>2. \A k \in 0..Len(s) : d[k] = Step(d)[k]
    BY <1>8, <1>9, <2>1 DEF FreedRun
  <2>3. d = [k \in 0..Len(s) |-> d[k]]
    BY <1>8 DEF FreedRun
  <2> HIDE DEF Step
  <2>4. Step(d) = [k \in 0..Len(s) |-> Step(d)[k]]
    BY DEF Step
  <2> QED
    BY <2>2, <2>3, <2>4
<1>11. done = Step(done)
  BY <1>10
<1>12. T!FreedFrom(f, s, rs) = done[Len(s)]
  BY DEF T!FreedFrom
<1> HIDE DEF done
<1>13. /\ done[0] = <<>>
       /\ \A k \in 1..Len(s) : done[k] = PartOf(f, s[k], rs) \o done[k - 1]
  <2> DEFINE part(k) == IF s[k] \notin rs THEN <<>>
                        ELSE IF sub[s[k]] = T!None THEN <<s[k]>> ELSE f[sub[s[k]]]
             step(h) == [k \in 0..Len(s) |-> IF k = 0 THEN <<>> ELSE part(k) \o h[k - 1]]
  <2>1. done = step(done) /\ \A k \in 1..Len(s) : part(k) = PartOf(f, s[k], rs)
    BY <1>9, <1>11, Zenon
  <2> HIDE DEF part
  <2>2. \A k \in 1..Len(s) : k \in 0..Len(s) /\ k # 0
    BY <1>1 DEF n
  <2>3. 0 \in 0..Len(s)
    BY <1>1 DEF n
  <2>4. \A k \in 0..Len(s) : done[k] = IF k = 0 THEN <<>> ELSE part(k) \o done[k - 1]
    BY <2>1
  <2> QED
    BY <2>1, <2>2, <2>3, <2>4
<1>14. done[n] = d[n]
  <2>1. d[0] = done[0]
    BY <1>8, <1>13 DEF FreedRun
  <2>2. \A k \in 1..n : d[k - 1] = done[k - 1] => d[k] = done[k]
    BY <1>8, <1>13 DEF FreedRun, n
  <2> QED
    BY <1>1, <2>1, <2>2, RecursionUnique
<1> QED
  BY <1>8, <1>12, <1>14 DEF n

\* The youngest comes first
Descending(s) == \A m, n \in DOMAIN s : m < n => s[m] > s[n]

\* The elements of two sequences put together.
LEMMA JoinedElements ==
  ASSUME NEW S, NEW a \in Seq(S), NEW b \in Seq(S)
  PROVE  Elements(a \o b) = Elements(a) \cup Elements(b)
<1> DEFINE c == a \o b
<1>1. /\ DOMAIN a = 1..Len(a) /\ DOMAIN b = 1..Len(b) /\ DOMAIN c = 1..(Len(a) + Len(b))
      /\ Len(a) \in Nat /\ Len(b) \in Nat
      /\ \A k \in 1..(Len(a) + Len(b)) : c[k] = IF k <= Len(a) THEN a[k] ELSE b[k - Len(a)]
  OBVIOUS
<1> HIDE DEF c
<1>2. \A k \in DOMAIN c : IF k <= Len(a) THEN k \in DOMAIN a ELSE k - Len(a) \in DOMAIN b
  BY <1>1
<1>3. \A k \in DOMAIN a : k \in DOMAIN c /\ c[k] = a[k]
  BY <1>1
<1>4. \A k \in DOMAIN b : k + Len(a) \in DOMAIN c /\ c[k + Len(a)] = b[k]
  BY <1>1
<1>5. Elements(c) = Elements(a) \cup Elements(b)
  BY <1>1, <1>2, <1>3, <1>4 DEF Elements
<1> QED
  BY <1>5 DEF c

\* Two descending sequences of which the first one is above the second.
LEMMA JoinedDescending ==
  ASSUME NEW a \in Seq(T!Ids), NEW b \in Seq(T!Ids), Descending(a), Descending(b),
         \A x \in Elements(a), y \in Elements(b) : x > y
  PROVE  Descending(a \o b)
<1> DEFINE c == a \o b
<1>1. /\ DOMAIN a = 1..Len(a) /\ DOMAIN b = 1..Len(b) /\ DOMAIN c = 1..(Len(a) + Len(b))
      /\ Len(a) \in Nat /\ Len(b) \in Nat
      /\ \A k \in 1..(Len(a) + Len(b)) : c[k] = IF k <= Len(a) THEN a[k] ELSE b[k - Len(a)]
  OBVIOUS
<1> HIDE DEF c
<1>2. ASSUME NEW m \in DOMAIN c, NEW n \in DOMAIN c, m < n PROVE c[m] > c[n]
  <2>0. m \in Nat /\ n \in Nat
    BY <1>1
  <2>1. CASE n <= Len(a)
    <3>1. m \in DOMAIN a /\ n \in DOMAIN a /\ c[m] = a[m] /\ c[n] = a[n]
      BY <1>1, <1>2, <2>0, <2>1
    <3> QED
      BY <1>2, <3>1 DEF Descending
  <2>2. CASE m > Len(a)
    <3>1. /\ m - Len(a) \in DOMAIN b /\ n - Len(a) \in DOMAIN b /\ m - Len(a) < n - Len(a)
          /\ c[m] = b[m - Len(a)] /\ c[n] = b[n - Len(a)]
      BY <1>1, <1>2, <2>0, <2>2
    <3> QED
      BY <3>1 DEF Descending
  <2>3. CASE m <= Len(a) /\ n > Len(a)
    <3>1. m \in DOMAIN a /\ n - Len(a) \in DOMAIN b /\ c[m] = a[m] /\ c[n] = b[n - Len(a)]
      BY <1>1, <2>0, <2>3
    <3>2. c[m] \in Elements(a) /\ c[n] \in Elements(b)
      BY <3>1 DEF Elements
    <3> QED
      BY <3>2
  <2> QED
    BY <1>1, <2>0, <2>1, <2>2, <2>3
<1>3. Descending(c)
  BY <1>2 DEF Descending
<1> QED
  BY <1>3 DEF c

\* Descending sequences have no duplicates.
LEMMA DescendingDistinct ==
  ASSUME NEW s \in Seq(T!Ids), Descending(s)
  PROVE  NoDuplicates(s)
<1>1. \A k \in DOMAIN s : k \in Int /\ s[k] \in Int
  <2>1. DOMAIN s = 1..Len(s) /\ Len(s) \in Nat /\ \A k \in 1..Len(s) : s[k] \in T!Ids
    OBVIOUS
  <2> QED
    BY <2>1, TransAssumption DEF T!Ids
<1> QED
  BY <1>1 DEF Descending, NoDuplicates

\* q is what is freed with the first m of the resources s
Gathers(q, f, s, m, rs) ==
  \A x : x \in Elements(q) <=> \E k \in 1..m : x \in Elements(PartOf(f, s[k], rs))

\* What has been freed after m turns.
LEMMA RunElements ==
  ASSUME NEW f, NEW s \in Seq(T!Ids), NEW rs, PartsOK(f, s, rs), NEW d, FreedRun(d, f, s, rs), NEW m \in 0..Len(s)
  PROVE  Gathers(d[m], f, s, m, rs)
<1> SUFFICES ASSUME NEW x
             PROVE  x \in Elements(d[m]) <=> \E k \in 1..m : x \in Elements(PartOf(f, s[k], rs))
  BY DEF Gathers
<1> DEFINE Has(k) == x \in Elements(PartOf(f, s[k], rs))
           Upto == {n \in Nat : n <= Len(s) =>
                     (x \in Elements(d[n]) <=> \E k \in 1..n : Has(k))}
<1>1. Len(s) \in Nat /\ \A k \in 1..Len(s) : s[k] \in T!Ids
  OBVIOUS
<1>2. 0 \in Upto
  <2>1. d[0] = <<>> /\ 1..0 = {}
    BY DEF FreedRun
  <2> QED
    BY <2>1, EmptyFacts
<1>3. ASSUME NEW n \in Nat, n \in Upto PROVE n + 1 \in Upto
  <2> SUFFICES ASSUME n + 1 <= Len(s)
               PROVE  x \in Elements(d[n + 1]) <=> \E k \in 1..(n + 1) : Has(k)
    OBVIOUS
  <2>0. n \in 0..Len(s) /\ n + 1 \in 1..Len(s) /\ (n + 1) - 1 = n
    BY <1>1
  <2>1. /\ d[n] \in Seq(T!Ids) /\ s[n + 1] \in T!Ids
        /\ d[n + 1] = PartOf(f, s[n + 1], rs) \o d[n]
    BY <1>1, <2>0 DEF FreedRun
  <2>2. Elements(d[n + 1]) = Elements(PartOf(f, s[n + 1], rs)) \cup Elements(d[n])
    <3>1. PartOf(f, s[n + 1], rs) \in Seq(T!Ids)
      BY <2>0 DEF PartsOK
    <3> QED
      BY <2>1, <3>1, JoinedElements
  <2>3. x \in Elements(d[n]) <=> \E k \in 1..n : Has(k)
    BY <1>1, <1>3
  <2>4. x \in Elements(d[n + 1]) <=> Has(n + 1) \/ \E k \in 1..n : Has(k)
    BY <2>2, <2>3
  <2>5. \A k \in 1..(n + 1) : k = n + 1 \/ k \in 1..n
    OBVIOUS
  <2>6. n + 1 \in 1..(n + 1) /\ \A k \in 1..n : k \in 1..(n + 1)
    OBVIOUS
  <2> HIDE DEF Has
  <2> QED
    BY <2>4, <2>5, <2>6
<1> HIDE DEF Upto
<1>4. m \in Upto
  <2>1. m \in Nat /\ Nat \subseteq Upto
    BY <1>1, <1>2, <1>3, SetInduction
  <2> QED
    BY <2>1
<1> QED
  BY <1>1, <1>4 DEF Upto

\* What FreedFrom frees.
LEMMA FreedElements ==
  ASSUME NEW f, NEW s \in Seq(T!Ids), NEW rs, PartsOK(f, s, rs)
  PROVE  /\ T!FreedFrom(f, s, rs) \in Seq(T!Ids)
         /\ \A x : x \in Elements(T!FreedFrom(f, s, rs)) <=>
                     \E r \in Elements(s) : x \in Elements(PartOf(f, r, rs))
<1>1. PICK d : FreedRun(d, f, s, rs) /\ T!FreedFrom(f, s, rs) = d[Len(s)]
  BY FreedIs
<1>2. Len(s) \in 0..Len(s) /\ DOMAIN s = 1..Len(s)
  OBVIOUS
<1>3. \A x : x \in Elements(d[Len(s)]) <=>
               \E k \in 1..Len(s) : x \in Elements(PartOf(f, s[k], rs))
  <2>1. Gathers(d[Len(s)], f, s, Len(s), rs)
    BY <1>1, <1>2, RunElements
  <2> QED
    BY <2>1, Zenon DEF Gathers
<1>4. d[Len(s)] \in Seq(T!Ids)
  BY <1>1, <1>2 DEF FreedRun
<1> QED
  <2>1. \A r : r \in Elements(s) <=> \E k \in 1..Len(s) : r = s[k]
    BY <1>2 DEF Elements
  <2> QED
    BY <1>1, <1>3, <1>4, <2>1

\* Resources freed apart are freed once.
LEMMA FreedDistinct ==
  ASSUME NEW f, NEW s \in Seq(T!Ids), NEW rs, PartsOK(f, s, rs),
         \A r \in Elements(s) : NoDuplicates(PartOf(f, r, rs)),
         \A k, n \in DOMAIN s : k # n =>
           Elements(PartOf(f, s[k], rs)) \cap Elements(PartOf(f, s[n], rs)) = {}
  PROVE  NoDuplicates(T!FreedFrom(f, s, rs))
<1>1. PICK d : FreedRun(d, f, s, rs) /\ T!FreedFrom(f, s, rs) = d[Len(s)]
  BY FreedIs
<1> DEFINE Upto == {n \in Nat : n <= Len(s) => NoDuplicates(d[n])}
<1>2. Len(s) \in Nat /\ DOMAIN s = 1..Len(s) /\ \A k \in 1..Len(s) : s[k] \in T!Ids
  OBVIOUS
<1>3. 0 \in Upto
  <2>1. d[0] = <<>>
    BY <1>1 DEF FreedRun
  <2> QED
    BY <2>1, EmptyFacts
<1>4. ASSUME NEW n \in Nat, n \in Upto PROVE n + 1 \in Upto
  <2> SUFFICES ASSUME n + 1 <= Len(s) PROVE NoDuplicates(d[n + 1])
    OBVIOUS
  <2> DEFINE part == PartOf(f, s[n + 1], rs)
  <2>1. /\ d[n] \in Seq(T!Ids) /\ s[n + 1] \in T!Ids /\ n + 1 \in 1..Len(s) /\ n \in 0..Len(s)
        /\ d[n + 1] = part \o d[n]
    <3>1. n + 1 \in 1..Len(s) /\ n \in 0..Len(s) /\ (n + 1) - 1 = n
      BY <1>2
    <3> QED
      BY <1>1, <1>2, <3>1 DEF FreedRun
  <2>2. part \in Seq(T!Ids) /\ NoDuplicates(part)
    BY <1>2, <2>1 DEF Elements, PartsOK
  <2>3. NoDuplicates(d[n])
    BY <1>2, <1>4
  <2>4. Elements(part) \cap Elements(d[n]) = {}
    <3> SUFFICES ASSUME NEW x \in Elements(part), x \in Elements(d[n]) PROVE FALSE
      OBVIOUS
    <3>0. \A z : z \in Elements(d[n]) <=> \E k \in 1..n : z \in Elements(PartOf(f, s[k], rs))
      <4>1. Gathers(d[n], f, s, n, rs)
        BY <1>1, <2>1, RunElements
      <4> QED
        BY <4>1, Zenon DEF Gathers
    <3>1. PICK k \in 1..n : x \in Elements(PartOf(f, s[k], rs))
      BY <3>0
    <3>2. k \in DOMAIN s /\ n + 1 \in DOMAIN s /\ k # n + 1
      BY <1>2, <2>1
    <3> QED
      BY <3>1, <3>2
  <2> HIDE DEF part
  <2> QED
    BY <2>1, <2>2, <2>3, <2>4, ConcatFacts
<1> HIDE DEF Upto
<1>5. Len(s) \in Upto
  BY <1>2, <1>3, <1>4, SetInduction
<1> QED
  BY <1>1, <1>2, <1>5 DEF Upto

\* Resources freed with what is above the earlier ones come in order.
LEMMA FreedDescending ==
  ASSUME NEW f, NEW s \in Seq(T!Ids), NEW rs, PartsOK(f, s, rs),
         \A r \in Elements(s) : Descending(PartOf(f, r, rs)),
         \A k, n \in DOMAIN s : k < n =>
           \A x \in Elements(PartOf(f, s[n], rs)), y \in Elements(PartOf(f, s[k], rs)) : x > y
  PROVE  Descending(T!FreedFrom(f, s, rs))
<1>1. PICK d : FreedRun(d, f, s, rs) /\ T!FreedFrom(f, s, rs) = d[Len(s)]
  BY FreedIs
<1> DEFINE Upto == {n \in Nat : n <= Len(s) => Descending(d[n])}
<1>2. Len(s) \in Nat /\ DOMAIN s = 1..Len(s) /\ \A k \in 1..Len(s) : s[k] \in T!Ids
  OBVIOUS
<1>3. 0 \in Upto
  <2>1. d[0] = <<>>
    BY <1>1 DEF FreedRun
  <2>2. DOMAIN <<>> = {}
    OBVIOUS
  <2> QED
    BY <2>1, <2>2 DEF Descending
<1>4. ASSUME NEW n \in Nat, n \in Upto PROVE n + 1 \in Upto
  <2> SUFFICES ASSUME n + 1 <= Len(s) PROVE Descending(d[n + 1])
    OBVIOUS
  <2> DEFINE part == PartOf(f, s[n + 1], rs)
  <2>1. /\ d[n] \in Seq(T!Ids) /\ s[n + 1] \in T!Ids /\ n + 1 \in 1..Len(s) /\ n \in 0..Len(s)
        /\ d[n + 1] = part \o d[n]
    <3>1. n + 1 \in 1..Len(s) /\ n \in 0..Len(s) /\ (n + 1) - 1 = n
      BY <1>2
    <3> QED
      BY <1>1, <1>2, <3>1 DEF FreedRun
  <2>2. part \in Seq(T!Ids) /\ Descending(part)
    BY <1>2, <2>1 DEF Elements, PartsOK
  <2>3. Descending(d[n])
    BY <1>2, <1>4
  <2>4. ASSUME NEW x \in Elements(part), NEW y \in Elements(d[n]) PROVE x > y
    <3>0. \A z : z \in Elements(d[n]) <=> \E k \in 1..n : z \in Elements(PartOf(f, s[k], rs))
      <4>1. Gathers(d[n], f, s, n, rs)
        BY <1>1, <2>1, RunElements
      <4> QED
        BY <4>1, Zenon DEF Gathers
    <3>1. PICK k \in 1..n : y \in Elements(PartOf(f, s[k], rs))
      BY <3>0
    <3>2. k \in DOMAIN s /\ n + 1 \in DOMAIN s /\ k < n + 1
      BY <1>2, <2>1
    <3> QED
      BY <3>1, <3>2
  <2> HIDE DEF part
  <2> QED
    BY <2>1, <2>2, <2>3, <2>4, JoinedDescending
<1> HIDE DEF Upto
<1>5. Len(s) \in Upto
  BY <1>2, <1>3, <1>4, SetInduction
<1> QED
  BY <1>1, <1>2, <1>5 DEF Upto

\* f and h agree about the sub-pools of s
AgreeOn(f, h, s) == \A r \in Elements(s) : sub[r] # 0 => f[sub[r]] = h[sub[r]]

\* FreedFrom looks only at the sub-pools it deletes.
LEMMA FreedSame ==
  ASSUME NEW f, NEW h, NEW s \in Seq(T!Ids), NEW rs, PartsOK(f, s, rs), AgreeOn(f, h, s)
  PROVE  T!FreedFrom(f, s, rs) = T!FreedFrom(h, s, rs)
<1>1. PICK d : FreedRun(d, f, s, rs) /\ T!FreedFrom(f, s, rs) = d[Len(s)]
  BY FreedIs
<1>2. Len(s) \in Nat /\ DOMAIN s = 1..Len(s)
  OBVIOUS
<1>3. ASSUME NEW k \in 1..Len(s) PROVE PartOf(f, s[k], rs) = PartOf(h, s[k], rs)
  BY <1>2 DEF PartOf, Elements, AgreeOn
<1>4. PartsOK(h, s, rs)
  BY <1>3 DEF PartsOK
<1>5. PICK e : FreedRun(e, h, s, rs) /\ T!FreedFrom(h, s, rs) = e[Len(s)]
  BY <1>4, FreedIs
<1>6. d[0] = e[0] /\ \A k \in 1..Len(s) : d[k - 1] = e[k - 1] => d[k] = e[k]
  BY <1>1, <1>3, <1>5 DEF FreedRun
<1>7. d[Len(s)] = e[Len(s)]
  BY <1>2, <1>6, RecursionUnique
<1> QED
  BY <1>1, <1>5, <1>7

\* Sub-pools are younger than the pools they are in, so that the recursion of
\* Freeing and Under ends
PoolsAbove ==
  /\ list \in [T!Ids -> Seq(T!Ids)] /\ sub \in [T!Ids -> 0..MaxId]
  /\ \A p \in T!Ids : \A r \in Elements(list[p]) : sub[r] # 0 => p < sub[r]

\* The identifiers are the numbers from 1 to MaxId.
LEMMA IdsFacts ==
  /\ T!Ids = 1..MaxId /\ MaxId \in Nat /\ MaxId > 0 /\ T!Ids \subseteq Nat
  /\ T!None = 0 /\ T!Ext = 1 /\ 1 \in T!Ids
  /\ \A x \in 0..MaxId : x # 0 => x \in T!Ids
BY TransAssumption DEF T!Ids, T!None, T!Ext

\* Lists of pools hold identifiers.
LEMMA ListType ==
  ASSUME list \in [T!Ids -> Seq(T!Ids)], NEW p \in T!Ids
  PROVE  /\ list[p] \in Seq(T!Ids) /\ Elements(list[p]) \subseteq T!Ids
         /\ (Elements(list[p]) = {} <=> list[p] = <<>>)
<1>1. list[p] \in Seq(T!Ids)
  OBVIOUS
<1> QED
  BY <1>1, ElementsType, EmptyFacts

\* The resources of a pool are freed by lists of identifiers.
LEMMA PoolParts ==
  ASSUME PoolsAbove, NEW f \in [T!Ids -> Seq(T!Ids)], NEW p \in T!Ids, NEW rs
  PROVE  list[p] \in Seq(T!Ids) /\ PartsOK(f, list[p], rs)
<1>1. list[p] \in Seq(T!Ids) /\ sub \in [T!Ids -> 0..MaxId]
  BY DEF PoolsAbove
<1>2. \A k \in 1..Len(list[p]) : list[p][k] \in T!Ids
  BY <1>1
<1>3. \A k \in 1..Len(list[p]) : PartOf(f, list[p][k], rs) \in Seq(T!Ids)
  BY <1>1, <1>2, PartType
<1> QED
  BY <1>1, <1>3 DEF PartsOK

\* Freeing is defined by its recursion.
LEMMA FreeingIs ==
  ASSUME PoolsAbove
  PROVE  /\ T!Freeing \in [T!Ids -> Seq(T!Ids)]
         /\ \A p \in T!Ids : T!Freeing[p] = T!FreedFrom(T!Freeing, list[p], T!Ids)
<1> DEFINE Q == [T!Ids -> Seq(T!Ids)]
           Of(f, p) == T!FreedFrom(f, list[p], T!Ids)
           Good(f, k) == f \in Q /\ \A p \in T!Ids : p > MaxId - k => f[p] = Of(f, p)
           Upto == {k \in Nat : k <= MaxId => \E f : Good(f, k)}
<1>1. /\ T!Ids = 1..MaxId /\ MaxId \in Nat
      /\ \A x \in 0..MaxId : x # 0 => x \in T!Ids
  BY IdsFacts
<1>2. \A f \in Q, p \in T!Ids : Of(f, p) \in Seq(T!Ids)
  <2> SUFFICES ASSUME NEW f \in Q, NEW p \in T!Ids PROVE Of(f, p) \in Seq(T!Ids)
    OBVIOUS
  <2>1. list[p] \in Seq(T!Ids) /\ PartsOK(f, list[p], T!Ids)
    BY PoolParts
  <2> QED
    BY <2>1, FreedElements
<1>3. ASSUME NEW f \in Q, NEW h, NEW p \in T!Ids, \A q \in T!Ids : q > p => f[q] = h[q]
      PROVE  Of(f, p) = Of(h, p)
  <2>1. list[p] \in Seq(T!Ids) /\ sub \in [T!Ids -> 0..MaxId] /\ PartsOK(f, list[p], T!Ids)
    BY PoolParts DEF PoolsAbove
  <2>2. ASSUME NEW r \in Elements(list[p]), sub[r] # 0 PROVE f[sub[r]] = h[sub[r]]
    <3>1. r \in T!Ids
      BY <2>1, ElementsType
    <3>2. sub[r] \in T!Ids /\ p < sub[r]
      BY <1>1, <2>1, <2>2, <3>1 DEF PoolsAbove
    <3> QED
      BY <1>1, <1>3, <3>2
  <2>3. AgreeOn(f, h, list[p])
    BY <2>2 DEF AgreeOn
  <2>4. T!FreedFrom(f, list[p], T!Ids) = T!FreedFrom(h, list[p], T!Ids)
    <3>1. list[p] \in Seq(T!Ids)
      BY <2>1
    <3>2. PartsOK(f, list[p], T!Ids)
      BY <2>1
    <3> HIDE DEF Of
    <3>3. ASSUME NEW s \in Seq(T!Ids), PartsOK(f, s, T!Ids), AgreeOn(f, h, s)
          PROVE  T!FreedFrom(f, s, T!Ids) = T!FreedFrom(h, s, T!Ids)
      BY <3>3, FreedSame, SMT
    <3> QED
      BY <2>3, <3>1, <3>2, <3>3, Zenon
  <2> QED
    BY <2>4
<1> HIDE DEF Of
<1>4. 0 \in Upto
  <2>1. Good([p \in T!Ids |-> <<>>], 0)
    BY <1>1
  <2> QED
    BY <2>1
<1>5. ASSUME NEW k \in Nat, k \in Upto PROVE k + 1 \in Upto
  <2> SUFFICES ASSUME k + 1 <= MaxId PROVE \E f : Good(f, k + 1)
    OBVIOUS
  <2>1. PICK f : Good(f, k)
    BY <1>1, <1>5
  <2> DEFINE a == MaxId - k
             h == [f EXCEPT ![a] = Of(f, a)]
  <2>2. a \in T!Ids /\ a \in Int
    BY <1>1
  <2>3. h \in Q /\ h[a] = Of(f, a) /\ \A q \in T!Ids : q # a => h[q] = f[q]
    BY <1>2, <2>1, <2>2
  <2> HIDE DEF h
  <2>4. ASSUME NEW p \in T!Ids, p > MaxId - (k + 1) PROVE h[p] = Of(h, p)
    <3>1. p >= a /\ p \in Int
      BY <1>1, <2>4
    <3>2. \A q \in T!Ids : q > p => f[q] = h[q]
      BY <1>1, <2>2, <2>3, <3>1
    <3>3. Of(f, p) = Of(h, p)
      BY <1>3, <2>1, <2>3, <3>2
    <3>4. CASE p = a
      BY <2>3, <3>3, <3>4
    <3>5. CASE p > a
      BY <2>1, <2>2, <2>3, <3>3, <3>5
    <3> QED
      BY <2>2, <3>1, <3>4, <3>5
  <2>5. Good(h, k + 1)
    BY <2>3, <2>4
  <2> QED
    BY <2>5
<1> HIDE DEF Upto
<1>6. MaxId \in Upto
  BY <1>1, <1>4, <1>5, SetInduction
<1>7. PICK f : Good(f, MaxId)
  BY <1>1, <1>6 DEF Upto
<1>8. f = [p \in T!Ids |-> Of(f, p)]
  <2>1. \A p \in T!Ids : p > MaxId - MaxId
    BY <1>1
  <2> QED
    BY <1>7, <2>1
<1> DEFINE Step(h) == [p \in T!Ids |-> T!FreedFrom(h, list[p], T!Ids)]
           g == CHOOSE h : h = Step(h)
<1>9. f = Step(f)
  BY <1>8 DEF Of
<1>10. g = Step(g)
  BY <1>9
<1>11. T!Freeing = g
  BY DEF T!Freeing
<1> HIDE DEF g
<1>12. \A p \in T!Ids : g[p] = T!FreedFrom(g, list[p], T!Ids)
  BY <1>10
<1> DEFINE Same == {k \in Nat : k <= MaxId => \A p \in T!Ids : p > MaxId - k => f[p] = g[p]}
<1>13. 0 \in Same
  BY <1>1
<1>14. ASSUME NEW k \in Nat, k \in Same PROVE k + 1 \in Same
  <2> SUFFICES ASSUME k + 1 <= MaxId, NEW p \in T!Ids, p > MaxId - (k + 1) PROVE f[p] = g[p]
    OBVIOUS
  <2>1. p \in Int /\ p >= MaxId - k /\ k <= MaxId
    BY <1>1
  <2>2. \A q \in T!Ids : q > p => f[q] = g[q]
    BY <1>1, <1>14, <2>1
  <2>3. Of(f, p) = Of(g, p)
    BY <1>3, <1>7, <2>2
  <2>4. f[p] = Of(f, p)
    BY <1>8
  <2> QED
    BY <1>12, <2>3, <2>4 DEF Of
<1> HIDE DEF Same
<1>15. MaxId \in Same
  BY <1>1, <1>13, <1>14, SetInduction
<1>16. \A p \in T!Ids : f[p] = g[p]
  <2>1. \A p \in T!Ids : p > MaxId - MaxId
    BY <1>1
  <2> QED
    BY <1>1, <1>15, <2>1 DEF Same
<1>17. g = [p \in T!Ids |-> T!FreedFrom(g, list[p], T!Ids)]
  BY <1>10
<1>18. g \in Q
  BY <1>7, <1>16, <1>17
<1> QED
  BY <1>11, <1>12, <1>18

\* The pools of p, in terms of those of its sub-pools
UnderOf(f, p) == {p} \cup UNION {f[sub[r]] : r \in {q \in Elements(list[p]) : sub[q] # 0}}

\* The pools that go with p are p and those that go with its sub-pools.
LEMMA UnderOfFacts ==
  ASSUME NEW f, NEW p
  PROVE  \A x : x \in UnderOf(f, p) <=>
                 x = p \/ \E r \in Elements(list[p]) : sub[r] # 0 /\ x \in f[sub[r]]
BY DEF UnderOf

\* Under is defined by its recursion.
LEMMA UnderIs ==
  ASSUME PoolsAbove
  PROVE  /\ T!Under \in [T!Ids -> SUBSET T!Ids]
         /\ \A p \in T!Ids : T!Under[p] = UnderOf(T!Under, p)
<1> DEFINE Q == [T!Ids -> SUBSET T!Ids]
           Good(f, k) == f \in Q /\ \A p \in T!Ids : p > MaxId - k => f[p] = UnderOf(f, p)
           Upto == {k \in Nat : k <= MaxId => \E f : Good(f, k)}
<1>1. /\ T!Ids = 1..MaxId /\ MaxId \in Nat
      /\ \A x \in 0..MaxId : x # 0 => x \in T!Ids
  BY IdsFacts
<1>0. ASSUME NEW p \in T!Ids, NEW r \in Elements(list[p]), sub[r] # 0
      PROVE  r \in T!Ids /\ sub[r] \in T!Ids /\ p < sub[r]
  <2>1. r \in T!Ids
    BY ListType DEF PoolsAbove
  <2> QED
    BY <1>0, <1>1, <2>1 DEF PoolsAbove
<1>2. \A f \in Q, p \in T!Ids : UnderOf(f, p) \in SUBSET T!Ids
  BY <1>0, UnderOfFacts
<1>3. ASSUME NEW f, NEW h, NEW p \in T!Ids, \A q \in T!Ids : q > p => f[q] = h[q]
      PROVE  UnderOf(f, p) = UnderOf(h, p)
  <2>1. ASSUME NEW r \in Elements(list[p]), sub[r] # 0 PROVE f[sub[r]] = h[sub[r]]
    BY <1>0, <1>1, <1>3, <2>1
  <2>2. \A x : x \in UnderOf(f, p) <=> x \in UnderOf(h, p)
    BY <2>1, UnderOfFacts
  <2> QED
    BY <2>2
<1>4. 0 \in Upto
  <2>1. Good([p \in T!Ids |-> {}], 0)
    BY <1>1
  <2> QED
    BY <2>1
<1>5. ASSUME NEW k \in Nat, k \in Upto PROVE k + 1 \in Upto
  <2> SUFFICES ASSUME k + 1 <= MaxId PROVE \E f : Good(f, k + 1)
    OBVIOUS
  <2>1. PICK f : Good(f, k)
    BY <1>1, <1>5
  <2> DEFINE a == MaxId - k
             h == [f EXCEPT ![a] = UnderOf(f, a)]
  <2>2. a \in T!Ids /\ a \in Int
    BY <1>1
  <2>3. h \in Q /\ h[a] = UnderOf(f, a) /\ \A q \in T!Ids : q # a => h[q] = f[q]
    BY <1>2, <2>1, <2>2
  <2> HIDE DEF h
  <2>4. ASSUME NEW p \in T!Ids, p > MaxId - (k + 1) PROVE h[p] = UnderOf(h, p)
    <3>1. p >= a /\ p \in Int
      BY <1>1, <2>4
    <3>2. \A q \in T!Ids : q > p => f[q] = h[q]
      BY <1>1, <2>2, <2>3, <3>1
    <3>3. UnderOf(f, p) = UnderOf(h, p)
      BY <1>3, <3>2
    <3>4. CASE p = a
      BY <2>3, <3>3, <3>4
    <3>5. CASE p > a
      BY <2>1, <2>2, <2>3, <3>3, <3>5
    <3> QED
      BY <2>2, <3>1, <3>4, <3>5
  <2>5. Good(h, k + 1)
    BY <2>3, <2>4
  <2> QED
    BY <2>5
<1> HIDE DEF Upto
<1>6. MaxId \in Upto
  BY <1>1, <1>4, <1>5, SetInduction
<1>7. PICK f : Good(f, MaxId)
  BY <1>1, <1>6 DEF Upto
<1>8. \A p \in T!Ids : f[p] = UnderOf(f, p)
  <2>1. \A p \in T!Ids : p > MaxId - MaxId
    BY <1>1
  <2> QED
    BY <1>7, <2>1
<1> DEFINE Step(h) == [p \in T!Ids |-> {p} \cup
                        UNION {h[sub[r]] : r \in {q \in T!ToSet(list[p]) : sub[q] # T!None}}]
           g == CHOOSE h : h = Step(h)
<1>9. ASSUME NEW h PROVE Step(h) = [p \in T!Ids |-> UnderOf(h, p)]
  BY DEF UnderOf, T!ToSet, Elements, T!None
<1>10. f = [p \in T!Ids |-> UnderOf(f, p)]
  BY <1>7, <1>8
<1>11. f = Step(f)
  BY <1>9, <1>10
<1>12. g = Step(g)
  BY <1>11
<1>13. T!Under = g
  BY DEF T!Under
<1> HIDE DEF g
<1>14. g = [p \in T!Ids |-> UnderOf(g, p)]
  BY <1>9, <1>12
<1> HIDE DEF Step
<1> DEFINE Same == {k \in Nat : k <= MaxId => \A p \in T!Ids : p > MaxId - k => f[p] = g[p]}
<1>15. 0 \in Same
  BY <1>1
<1>16. ASSUME NEW k \in Nat, k \in Same PROVE k + 1 \in Same
  <2> SUFFICES ASSUME k + 1 <= MaxId, NEW p \in T!Ids, p > MaxId - (k + 1) PROVE f[p] = g[p]
    OBVIOUS
  <2>1. p \in Int /\ p >= MaxId - k /\ k <= MaxId
    BY <1>1
  <2>2. \A q \in T!Ids : q > p => f[q] = g[q]
    BY <1>1, <1>16, <2>1
  <2>3. UnderOf(f, p) = UnderOf(g, p)
    BY <1>3, <2>2
  <2> QED
    BY <1>8, <1>14, <2>3
<1> HIDE DEF Same
<1>17. MaxId \in Same
  BY <1>1, <1>15, <1>16, SetInduction
<1>18. \A p \in T!Ids : f[p] = g[p]
  <2>1. \A p \in T!Ids : p > MaxId - MaxId
    BY <1>1
  <2> QED
    BY <1>1, <1>17, <2>1 DEF Same
<1>19. g \in Q
  BY <1>7, <1>14, <1>18
<1> QED
  BY <1>13, <1>14, <1>19


\* Induction over the pools, from the youngest one.
LEMMA DownInduction ==
  ASSUME NEW S, \A p \in T!Ids : (\A q \in T!Ids : q > p => q \in S) => p \in S
  PROVE  T!Ids \subseteq S
<1> DEFINE Upto == {k \in Nat : \A p \in T!Ids : p > MaxId - k => p \in S}
<1>1. T!Ids = 1..MaxId /\ MaxId \in Nat
  BY IdsFacts
<1>2. 0 \in Upto
  BY <1>1
<1>3. ASSUME NEW k \in Nat, k \in Upto PROVE k + 1 \in Upto
  <2> SUFFICES ASSUME NEW p \in T!Ids, p > MaxId - (k + 1) PROVE p \in S
    OBVIOUS
  <2>1. \A q \in T!Ids : q > p => q > MaxId - k
    BY <1>1
  <2>2. \A q \in T!Ids : q > p => q \in S
    BY <1>3, <2>1
  <2> QED
    BY <2>2
<1> HIDE DEF Upto
<1>4. MaxId \in Upto
  BY <1>1, <1>2, <1>3, SetInduction
<1>5. \A p \in T!Ids : p > MaxId - MaxId
  BY <1>1
<1> QED
  BY <1>4, <1>5 DEF Upto

\* Induction over the pools, from the oldest one.
LEMMA UpInduction ==
  ASSUME NEW S, \A p \in T!Ids : (\A q \in T!Ids : q < p => q \in S) => p \in S
  PROVE  T!Ids \subseteq S
<1> DEFINE Bad == {p \in T!Ids : p \notin S}
<1> SUFFICES ASSUME Bad # {} PROVE FALSE
  OBVIOUS
<1>1. T!Ids \subseteq Nat
  BY IdsFacts
<1>2. Bad \subseteq Nat
  BY <1>1
<1>3. PICK x \in Bad : \A y \in Bad : x <= y
  <2> HIDE DEF Bad
  <2> QED
    BY <1>2, LeastNatural
<1>4. \A q \in T!Ids : q < x => q \in S
  BY <1>1, <1>3
<1> QED
  BY <1>3, <1>4

\* The resource r of the pool p has the sub-pool q
Child(p, r, q) == r \in Elements(list[p]) /\ sub[r] = q

\* What TransInv says about sub-pools.
LEMMA TreeFacts ==
  ASSUME TransInv
  PROVE  /\ PoolsAbove
         /\ \A p \in T!Ids : list[p] \in Seq(T!Ids) /\ Elements(list[p]) \subseteq T!Ids
         /\ \A p, q \in T!Ids : \A r : Child(p, r, q) =>
              r \in T!Ids /\ p < q /\ q < r /\ p < r
         /\ \A p, q : \A r : p \in T!Ids /\ Child(p, r, q) /\ q # 0 => q \in T!Ids
         /\ \A p, q \in T!Ids : p # q => Elements(list[p]) \cap Elements(list[q]) = {}
<1>1. PoolsAbove
  BY DEF TransInv, ResInv, ResTypes, PoolTree, PoolsAbove
<1>2. \A p \in T!Ids : list[p] \in Seq(T!Ids) /\ Elements(list[p]) \subseteq T!Ids
  BY ListType DEF TransInv, ResInv, ResTypes
<1>3. ASSUME NEW p \in T!Ids, NEW q \in T!Ids, NEW r, Child(p, r, q)
      PROVE  r \in T!Ids /\ p < q /\ q < r /\ p < r
  <2>1. r \in T!Ids /\ r \in Elements(list[p]) /\ sub[r] = q /\ q # 0
    BY <1>2, <1>3, IdsFacts DEF Child
  <2>2. p < q
    BY <2>1 DEF TransInv, ResInv, PoolTree
  <2>3. q < r /\ p < r
    BY <2>1 DEF TransInv, ResInv, KnownIds
  <2> QED
    BY <2>1, <2>2, <2>3
<1>4. ASSUME NEW p \in T!Ids, NEW q, NEW r, Child(p, r, q), q # 0 PROVE q \in T!Ids
  <2>1. r \in T!Ids /\ sub[r] = q
    BY <1>2, <1>4 DEF Child
  <2>2. sub \in [T!Ids -> 0..MaxId]
    BY DEF TransInv, ResInv, ResTypes
  <2>3. sub[r] \in 0..MaxId
    BY <2>1, <2>2
  <2> QED
    BY <1>4, <2>1, <2>3, IdsFacts
<1>5. \A p, q \in T!Ids : p # q => Elements(list[p]) \cap Elements(list[q]) = {}
  BY DEF TransInv, ResInv, PoolTree
<1> QED
  BY <1>1, <1>2, <1>3, <1>4, <1>5

\* The pools that go with p, in terms of the resources that have them.
LEMMA UnderRec ==
  ASSUME TransInv, NEW p \in T!Ids
  PROVE  /\ T!Under[p] \subseteq T!Ids /\ p \in T!Under[p]
         /\ \A x : x \in T!Under[p] <=>
              x = p \/ \E q \in T!Ids : (\E r \in T!Ids : Child(p, r, q)) /\ x \in T!Under[q]
<1>1. /\ T!Under \in [T!Ids -> SUBSET T!Ids]
      /\ T!Under[p] = UnderOf(T!Under, p)
  BY TreeFacts, UnderIs
<1>2. \A x : x \in T!Under[p] <=>
               x = p \/ \E r \in Elements(list[p]) : sub[r] # 0 /\ x \in T!Under[sub[r]]
  BY <1>1, UnderOfFacts
<1>3. ASSUME NEW x, NEW r \in Elements(list[p]), sub[r] # 0, x \in T!Under[sub[r]]
      PROVE  \E q \in T!Ids : (\E u \in T!Ids : Child(p, u, q)) /\ x \in T!Under[q]
  <2>1. Child(p, r, sub[r])
    BY <1>3 DEF Child
  <2>2. sub[r] \in T!Ids /\ r \in T!Ids
    BY <1>3, <2>1, TreeFacts
  <2> QED
    BY <1>3, <2>1, <2>2
<1>4. ASSUME NEW x, NEW q \in T!Ids, NEW r \in T!Ids, Child(p, r, q), x \in T!Under[q]
      PROVE  \E u \in Elements(list[p]) : sub[u] # 0 /\ x \in T!Under[sub[u]]
  BY <1>4, IdsFacts DEF Child
<1>5. ASSUME NEW x
      PROVE  x \in T!Under[p] <=>
               x = p \/ \E q \in T!Ids : (\E r \in T!Ids : Child(p, r, q)) /\ x \in T!Under[q]
  BY <1>2, <1>3, <1>4
<1> QED
  BY <1>1, <1>5

\* The pools that go with p are p and the sub-pools of their resources, which
\* are younger.
LEMMA UnderFacts ==
  ASSUME TransInv, NEW p \in T!Ids
  PROVE  /\ \A q \in T!Under[p], x \in T!Ids : \A r : Child(q, r, x) => x \in T!Under[p]
         /\ \A x \in T!Under[p] : x >= p
         /\ \A x \in T!Under[p] : x = p \/ \E q \in T!Under[p], r \in T!Ids : Child(q, r, x)
<1> DEFINE Closed(a) == \A q \in T!Under[a], x \in T!Ids : \A r : Child(q, r, x) => x \in T!Under[a]
           Above(a) == \A x \in T!Under[a] : x >= a
           Made(a) == \A x \in T!Under[a] : x = a \/ \E q \in T!Under[a], r \in T!Ids : Child(q, r, x)
           S == {a \in T!Ids : Closed(a) /\ Above(a) /\ Made(a)}
<1>1. ASSUME NEW a \in T!Ids, \A b \in T!Ids : b > a => b \in S PROVE a \in S
  <2>1. Closed(a)
    <3> SUFFICES ASSUME NEW q \in T!Under[a], NEW x \in T!Ids, NEW r, Child(q, r, x)
                 PROVE  x \in T!Under[a]
      OBVIOUS
    <3>0. q \in T!Ids /\ x \in T!Under[x]
      BY UnderRec
    <3>1. CASE q = a
      <4>1. r \in T!Ids
        BY <3>1, TreeFacts
      <4> QED
        BY <3>0, <3>1, <4>1, UnderRec
    <3>2. CASE q # a
      <4>1. PICK b \in T!Ids : (\E u \in T!Ids : Child(a, u, b)) /\ q \in T!Under[b]
        BY <3>2, UnderRec
      <4>2. b > a
        BY <4>1, IdsFacts, TreeFacts
      <4>3. x \in T!Under[b]
        BY <1>1, <4>1, <4>2
      <4> QED
        BY <4>1, <4>3, UnderRec
    <3> QED
      BY <3>1, <3>2
  <2>2. Above(a)
    <3> SUFFICES ASSUME NEW x \in T!Under[a] PROVE x >= a
      OBVIOUS
    <3>1. CASE x = a
      BY <3>1, IdsFacts
    <3>2. CASE x # a
      <4>1. PICK b \in T!Ids : (\E u \in T!Ids : Child(a, u, b)) /\ x \in T!Under[b]
        BY <3>2, UnderRec
      <4>2. b > a /\ x \in T!Ids
        BY <4>1, IdsFacts, TreeFacts, UnderRec
      <4>3. x >= b
        BY <1>1, <4>1, <4>2
      <4> QED
        BY <4>2, <4>3, IdsFacts
    <3> QED
      BY <3>1, <3>2
  <2>3. Made(a)
    <3> SUFFICES ASSUME NEW x \in T!Under[a], x # a
                 PROVE  \E q \in T!Under[a], r \in T!Ids : Child(q, r, x)
      OBVIOUS
    <3>1. PICK b \in T!Ids, u \in T!Ids : Child(a, u, b) /\ x \in T!Under[b]
      BY UnderRec
    <3>2. b > a
      BY <3>1, IdsFacts, TreeFacts
    <3>3. \A q \in T!Under[b] : q \in T!Under[a]
      BY <3>1, UnderRec
    <3>4. CASE x = b
      BY <3>1, <3>4, UnderRec
    <3>5. CASE x # b
      <4>1. PICK q \in T!Under[b], r \in T!Ids : Child(q, r, x)
        BY <1>1, <3>1, <3>2, <3>5
      <4> QED
        BY <3>3, <4>1
    <3> QED
      BY <3>4, <3>5
  <2> QED
    BY <2>1, <2>2, <2>3
<1> HIDE DEF S
<1>2. p \in S
  BY <1>1, DownInduction
<1> QED
  BY <1>2 DEF S

\* No linked resource has the sub-pool p
Root(p) == \A r \in T!Ids : sub[r] = p => ~Linked(r)

\* What goes with two pools that are in no other pool is apart.
LEMMA RootsApart ==
  ASSUME TransInv, NEW a \in T!Ids, NEW b \in T!Ids, a # b, Root(a), Root(b)
  PROVE  T!Under[a] \cap T!Under[b] = {}
<1> DEFINE Both == T!Under[a] \cap T!Under[b]
<1>0. T!Under[a] \subseteq T!Ids /\ T!Under[b] \subseteq T!Ids
  BY UnderRec
<1>1. Both \subseteq T!Ids /\ Both \subseteq Nat
  BY <1>0, IdsFacts
<1> SUFFICES ASSUME Both # {} PROVE FALSE
  OBVIOUS
<1>2. PICK x \in Both : \A y \in Both : x <= y
  <2> HIDE DEF Both
  <2> QED
    BY <1>1, LeastNatural
<1>3. \A q \in T!Ids, r \in T!Ids : Child(q, r, x) => Linked(r)
  BY DEF Child, Linked
<1>4. x # a
  <2> SUFFICES ASSUME x = a PROVE FALSE
    OBVIOUS
  <2>1. PICK q \in T!Under[b], r \in T!Ids : Child(q, r, x)
    BY <1>2, UnderFacts
  <2> QED
    BY <1>0, <1>3, <2>1 DEF Root, Child
<1>5. x # b
  <2> SUFFICES ASSUME x = b PROVE FALSE
    OBVIOUS
  <2>1. PICK q \in T!Under[a], r \in T!Ids : Child(q, r, x)
    BY <1>2, UnderFacts
  <2> QED
    BY <1>0, <1>3, <2>1 DEF Root, Child
<1>6. PICK q \in T!Under[a], r \in T!Ids : Child(q, r, x)
  BY <1>2, <1>4, UnderFacts
<1>7. PICK c \in T!Under[b], u \in T!Ids : Child(c, u, x)
  BY <1>2, <1>5, UnderFacts
<1>8. r = u
  <2>1. sub[r] = x /\ sub[u] = x /\ x # 0
    BY <1>1, <1>2, <1>6, <1>7, IdsFacts DEF Child
  <2> QED
    BY <2>1 DEF TransInv, ResInv, PoolTree
<1>9. q = c
  BY <1>0, <1>6, <1>7, <1>8, TreeFacts DEF Child
<1>10. q \in Both /\ q < x
  BY <1>0, <1>1, <1>2, <1>6, <1>7, <1>9, TreeFacts
<1> QED
  BY <1>0, <1>1, <1>2, <1>10

\* The objects in the pools ps
Objects(ps) == {x \in T!Ids : sub[x] = 0 /\ \E q \in ps : x \in Elements(list[q])}

\* The objects that go with the resource r
Gone(r) == IF sub[r] = 0 THEN {r} ELSE Objects(T!Under[sub[r]])

\* What lies under a sub-pool was made between the opening of its transaction
\* and the folding.
LEMMA BelowFacts ==
  ASSUME TransInv, NEW r \in T!Ids, sub[r] # 0, NEW q \in T!Under[sub[r]],
         NEW x \in Elements(list[q])
  PROVE  q \in T!Ids /\ sub[r] < x /\ x < r
<1> DEFINE s == sub[r]
           S == {a \in T!Ids : a \in T!Under[s] => \A y \in Elements(list[a]) : y < r}
<1>1. s \in T!Ids
  <2>1. sub \in [T!Ids -> 0..MaxId]
    BY DEF TransInv, ResInv, ResTypes
  <2> QED
    BY <2>1, IdsFacts
<1>2. T!Under[s] \subseteq T!Ids
  BY <1>1, UnderRec
<1>3. sub[r] < x
  <2>1. q >= s /\ q \in T!Ids /\ x \in T!Ids
    BY <1>1, <1>2, UnderFacts, TreeFacts
  <2>2. q < x
    BY <2>1 DEF TransInv, ResInv, KnownIds
  <2> QED
    BY <1>1, <2>1, <2>2, IdsFacts
<1>4. ASSUME NEW a \in T!Ids, \A b \in T!Ids : b < a => b \in S PROVE a \in S
  <2> SUFFICES ASSUME a \in T!Under[s], NEW y \in Elements(list[a]) PROVE y < r
    OBVIOUS
  <2>1. CASE a = s
    BY <2>1 DEF TransInv, ResInv, AgeOrder
  <2>2. CASE a # s
    <3>1. PICK c \in T!Under[s], u \in T!Ids : Child(c, u, a)
      BY <1>1, <2>2, UnderFacts
    <3>2. c \in T!Ids /\ c < a /\ u \in Elements(list[c]) /\ sub[u] = a
      BY <1>2, <3>1, TreeFacts DEF Child
    <3>3. u < r
      BY <1>4, <3>1, <3>2
    <3>4. y < u
      BY <3>2, IdsFacts DEF TransInv, ResInv, AgeOrder
    <3>5. y \in T!Ids
      BY TreeFacts
    <3> QED
      BY <3>3, <3>4, <3>5, IdsFacts
  <2> QED
    BY <2>1, <2>2
<1> HIDE DEF S
<1>5. q \in S
  BY <1>2, <1>4, UpInduction
<1> QED
  BY <1>2, <1>3, <1>5 DEF S

\* The objects of younger resources of a pool are younger.
LEMMA GoneOrder ==
  ASSUME TransInv, NEW p \in T!Ids, NEW q \in Elements(list[p]), NEW r \in Elements(list[p]),
         q < r, NEW x \in Gone(r), NEW y \in Gone(q)
  PROVE  x > y
<1>1. q \in T!Ids /\ r \in T!Ids
  BY TreeFacts
<1>2. y <= q /\ y \in T!Ids
  <2>1. CASE sub[q] = 0
    BY <1>1, <2>1, IdsFacts DEF Gone
  <2>2. CASE sub[q] # 0
    <3>1. y \in T!Ids /\ \E a \in T!Under[sub[q]] : y \in Elements(list[a])
      BY <2>2 DEF Gone, Objects
    <3>2. y < q
      BY <1>1, <2>2, <3>1, BelowFacts
    <3> QED
      BY <1>1, <3>1, <3>2, IdsFacts
  <2> QED
    BY <2>1, <2>2
<1>3. q < x /\ x \in T!Ids
  <2>1. CASE sub[r] = 0
    BY <1>1, <2>1, IdsFacts DEF Gone
  <2>2. CASE sub[r] # 0
    <3>1. x \in T!Ids /\ \E a \in T!Under[sub[r]] : x \in Elements(list[a])
      BY <2>2 DEF Gone, Objects
    <3>2. sub[r] < x
      BY <1>1, <2>2, <3>1, BelowFacts
    <3>3. q < sub[r]
      BY <2>2 DEF TransInv, ResInv, AgeOrder
    <3>4. sub[r] \in Nat
      <4>1. sub \in [T!Ids -> 0..MaxId]
        BY DEF TransInv, ResInv, ResTypes
      <4> QED
        BY <1>1, <4>1, IdsFacts
    <3> QED
      BY <1>1, <3>1, <3>2, <3>3, <3>4, IdsFacts
  <2> QED
    BY <2>1, <2>2
<1> QED
  BY <1>1, <1>2, <1>3, IdsFacts

\* The objects under a pool are those of its resources.
LEMMA ObjectsUnder ==
  ASSUME TransInv, NEW p \in T!Ids
  PROVE  \A x : x \in Objects(T!Under[p]) <=> \E r \in Elements(list[p]) : x \in Gone(r)
<1>1. ASSUME NEW x \in Objects(T!Under[p]) PROVE \E r \in Elements(list[p]) : x \in Gone(r)
  <2>1. PICK q \in T!Under[p] : x \in Elements(list[q]) /\ sub[x] = 0 /\ x \in T!Ids
    BY <1>1 DEF Objects
  <2>2. CASE q = p
    BY <2>1, <2>2 DEF Gone
  <2>3. CASE q # p
    <3>1. PICK a \in T!Ids, r \in T!Ids : Child(p, r, a) /\ q \in T!Under[a]
      BY <2>1, <2>3, UnderRec
    <3>2. x \in Objects(T!Under[a])
      BY <2>1, <3>1 DEF Objects
    <3>3. sub[r] = a /\ a # 0 /\ r \in Elements(list[p])
      BY <3>1, IdsFacts DEF Child
    <3> QED
      BY <3>2, <3>3 DEF Gone
  <2> QED
    BY <2>2, <2>3
<1>2. ASSUME NEW r \in Elements(list[p]), NEW x \in Gone(r) PROVE x \in Objects(T!Under[p])
  <2>0. r \in T!Ids /\ p \in T!Under[p]
    BY TreeFacts, UnderRec
  <2>1. CASE sub[r] = 0
    BY <2>0, <2>1 DEF Gone, Objects
  <2>2. CASE sub[r] # 0
    <3>1. PICK q \in T!Under[sub[r]] : x \in Elements(list[q]) /\ sub[x] = 0 /\ x \in T!Ids
      BY <2>2 DEF Gone, Objects
    <3>2. Child(p, r, sub[r])
      BY DEF Child
    <3>3. sub[r] \in T!Ids
      BY <2>2, <3>2, TreeFacts
    <3>4. q \in T!Under[p]
      BY <2>0, <3>1, <3>2, <3>3, UnderRec
    <3> QED
      BY <3>1, <3>4 DEF Objects
  <2> QED
    BY <2>1, <2>2
<1> QED
  BY <1>1, <1>2

\* What rp_delete frees: every object in the pool and in the pools under it,
\* the youngest first.
LEMMA FreeingFacts ==
  ASSUME TransInv, NEW p \in T!Ids
  PROVE  /\ T!Freeing[p] \in Seq(T!Ids)
         /\ \A x : x \in Elements(T!Freeing[p]) <=> x \in Objects(T!Under[p])
         /\ Descending(T!Freeing[p])
<1> DEFINE S == {a \in T!Ids : /\ \A x : x \in Elements(T!Freeing[a]) <=> x \in Objects(T!Under[a])
                               /\ Descending(T!Freeing[a])}
<1>1. /\ T!Freeing \in [T!Ids -> Seq(T!Ids)]
      /\ \A a \in T!Ids : T!Freeing[a] = T!FreedFrom(T!Freeing, list[a], T!Ids)
  BY TreeFacts, FreeingIs
<1>2. ASSUME NEW a \in T!Ids, \A b \in T!Ids : b > a => b \in S PROVE a \in S
  <2> DEFINE s == list[a]
             part(r) == PartOf(T!Freeing, r, T!Ids)
  <2>1. s \in Seq(T!Ids) /\ PartsOK(T!Freeing, s, T!Ids) /\ Elements(s) \subseteq T!Ids
    BY <1>1, TreeFacts, PoolParts
  <2>2. ASSUME NEW r \in Elements(s)
        PROVE  (\A x : x \in Elements(part(r)) <=> x \in Gone(r)) /\ Descending(part(r))
    <3>1. r \in T!Ids
      BY <2>1
    <3>2. CASE sub[r] = 0
      <4>1. part(r) = <<r>>
        BY <3>1, <3>2 DEF PartOf
      <4>2. DOMAIN <<r>> = {1} /\ <<r>>[1] = r
        OBVIOUS
      <4>3. Elements(<<r>>) = {r} /\ Descending(<<r>>)
        BY <4>2 DEF Elements, Descending
      <4>4. Gone(r) = {r}
        BY <3>2 DEF Gone
      <4> QED
        BY <4>1, <4>3, <4>4
    <3>3. CASE sub[r] # 0
      <4>1. part(r) = T!Freeing[sub[r]]
        BY <3>1, <3>3 DEF PartOf
      <4>2. Child(a, r, sub[r])
        BY DEF Child
      <4>3. sub[r] \in T!Ids
        BY <3>3, <4>2, TreeFacts
      <4>4. sub[r] > a
        BY <4>2, <4>3, IdsFacts, TreeFacts
      <4>5. sub[r] \in S
        BY <1>2, <4>3, <4>4
      <4>6. Gone(r) = Objects(T!Under[sub[r]])
        BY <3>3 DEF Gone
      <4> QED
        BY <4>1, <4>5, <4>6
    <3> QED
      BY <3>2, <3>3
  <2>3. T!Freeing[a] = T!FreedFrom(T!Freeing, s, T!Ids)
    BY <1>1
  <2>4. \A x : x \in Elements(T!Freeing[a]) <=> \E r \in Elements(s) : x \in Elements(part(r))
    <3>1. \A x : x \in Elements(T!FreedFrom(T!Freeing, s, T!Ids)) <=>
                   \E r \in Elements(s) : x \in Elements(part(r))
      BY <2>1, FreedElements
    <3> QED
      BY <2>3, <3>1
  <2>5. \A x : x \in Elements(T!Freeing[a]) <=> x \in Objects(T!Under[a])
    <3>1. \A x : (\E r \in Elements(s) : x \in Elements(part(r))) <=>
                 (\E r \in Elements(s) : x \in Gone(r))
      <4> HIDE DEF part, s
      <4> QED
        BY <2>2
    <3> QED
      BY <2>4, <3>1, ObjectsUnder
  <2>6. ASSUME NEW k \in DOMAIN s, NEW n \in DOMAIN s, k < n,
               NEW x \in Elements(part(s[n])), NEW y \in Elements(part(s[k]))
        PROVE  x > y
    <3>1. s[k] \in Elements(s) /\ s[n] \in Elements(s)
      BY DEF Elements
    <3>2. s[k] < s[n]
      BY <2>6 DEF TransInv, ResInv, AgeOrder, Ascending
    <3>3. x \in Gone(s[n]) /\ y \in Gone(s[k])
      BY <2>2, <2>6, <3>1
    <3> QED
      BY <3>1, <3>2, <3>3, GoneOrder
  <2>7. Descending(T!FreedFrom(T!Freeing, s, T!Ids))
    <3>1. \A r \in Elements(s) : Descending(part(r))
      BY <2>2
    <3>2. \A k, n \in DOMAIN s : k < n =>
            \A x \in Elements(part(s[n])), y \in Elements(part(s[k])) : x > y
      BY <2>6
    <3> QED
      BY <2>1, <3>1, <3>2, FreedDescending
  <2> QED
    BY <2>3, <2>5, <2>7
<1> HIDE DEF S
<1>3. p \in S
  BY <1>2, DownInduction
<1> QED
  BY <1>1, <1>3 DEF S

\* A reversed list has the same elements, at the opposite places.
LEMMA ReverseFacts ==
  ASSUME NEW s \in Seq(T!Ids)
  PROVE  /\ T!Reverse(s) \in Seq(T!Ids) /\ Elements(T!Reverse(s)) = Elements(s)
         /\ DOMAIN T!Reverse(s) = 1..Len(s) /\ DOMAIN s = 1..Len(s) /\ Len(s) \in Nat
         /\ \A k \in 1..Len(s) : T!Reverse(s)[k] = s[(Len(s) - k) + 1]
<1> DEFINE rev == [k \in 1..Len(s) |-> s[(Len(s) - k) + 1]]
<1>1. T!Reverse(s) = rev
  BY DEF T!Reverse
<1>2. Len(s) \in Nat /\ DOMAIN s = 1..Len(s) /\ \A k \in 1..Len(s) : s[k] \in T!Ids
  OBVIOUS
<1>3. \A k \in 1..Len(s) : (Len(s) - k) + 1 \in 1..Len(s)
  BY <1>2
<1>4. rev \in Seq(T!Ids)
  <2>1. rev \in [1..Len(s) -> T!Ids]
    BY <1>2, <1>3
  <2> HIDE DEF rev
  <2> QED
    BY <1>2, <2>1
<1>5. DOMAIN rev = 1..Len(s) /\ \A k \in 1..Len(s) : rev[k] = s[(Len(s) - k) + 1]
  OBVIOUS
<1>6. \A k \in 1..Len(s) : (Len(s) - ((Len(s) - k) + 1)) + 1 = k
  BY <1>2
<1> HIDE DEF rev
<1>7. \A k \in 1..Len(s) : s[k] = rev[(Len(s) - k) + 1]
  BY <1>3, <1>5, <1>6
<1>8. Elements(rev) = Elements(s)
  BY <1>2, <1>3, <1>5, <1>7 DEF Elements
<1> QED
  BY <1>1, <1>2, <1>4, <1>5, <1>8

\* What rp_commit frees: the objects that go with the temporary resources.
LEMMA CommitFacts ==
  ASSUME TransInv, NEW p \in T!Ids
  PROVE  LET new == T!FreedFrom(T!Freeing, T!Reverse(list[p]), temp)
         IN  /\ new \in Seq(T!Ids) /\ NoDuplicates(new)
             /\ \A x : x \in Elements(new) <=>
                         \E r \in Elements(list[p]) : r \in temp /\ x \in Gone(r)
<1> DEFINE f == T!Freeing
           s == T!Reverse(list[p])
           part(r) == PartOf(f, r, temp)
           new == T!FreedFrom(f, s, temp)
<1>1. list[p] \in Seq(T!Ids) /\ Elements(list[p]) \subseteq T!Ids
  BY TreeFacts
<1>2. /\ s \in Seq(T!Ids) /\ Elements(s) = Elements(list[p]) /\ DOMAIN s = 1..Len(list[p])
      /\ \A k \in DOMAIN s : /\ (Len(list[p]) - k) + 1 \in DOMAIN list[p]
                             /\ s[k] = list[p][(Len(list[p]) - k) + 1]
      /\ Len(list[p]) \in Nat
  <2>1. /\ s \in Seq(T!Ids) /\ Elements(s) = Elements(list[p]) /\ DOMAIN s = 1..Len(list[p])
        /\ DOMAIN list[p] = 1..Len(list[p]) /\ Len(list[p]) \in Nat
        /\ \A k \in 1..Len(list[p]) : s[k] = list[p][(Len(list[p]) - k) + 1]
    BY <1>1, ReverseFacts
  <2>2. \A k \in 1..Len(list[p]) : (Len(list[p]) - k) + 1 \in 1..Len(list[p])
    BY <2>1
  <2> HIDE DEF s
  <2> QED
    BY <2>1, <2>2
<1>3. f \in [T!Ids -> Seq(T!Ids)] /\ sub \in [T!Ids -> 0..MaxId]
  BY TreeFacts, FreeingIs DEF PoolsAbove
<1> HIDE DEF f, s
<1>4. ASSUME NEW r \in Elements(s)
      PROVE  /\ r \in T!Ids /\ part(r) \in Seq(T!Ids) /\ NoDuplicates(part(r))
             /\ \A x : x \in Elements(part(r)) <=> r \in temp /\ x \in Gone(r)
  <2>1. r \in T!Ids /\ part(r) \in Seq(T!Ids)
    BY <1>1, <1>2, <1>3, PartType
  <2>2. CASE r \notin temp
    <3>1. part(r) = <<>>
      BY <2>2 DEF PartOf
    <3> QED
      BY <2>1, <2>2, <3>1, EmptyFacts
  <2>3. CASE r \in temp /\ sub[r] = 0
    <3>1. part(r) = <<r>>
      BY <2>3 DEF PartOf
    <3>2. DOMAIN <<r>> = {1} /\ <<r>>[1] = r
      OBVIOUS
    <3>3. Elements(<<r>>) = {r} /\ NoDuplicates(<<r>>)
      BY <3>2 DEF Elements, NoDuplicates
    <3>4. Gone(r) = {r}
      BY <2>3 DEF Gone
    <3> QED
      BY <2>1, <2>3, <3>1, <3>3, <3>4
  <2>4. CASE r \in temp /\ sub[r] # 0
    <3>1. part(r) = T!Freeing[sub[r]]
      BY <2>4 DEF PartOf, f
    <3>2. sub[r] \in T!Ids
      BY <1>3, <2>1, <2>4, IdsFacts
    <3>3. \A x : x \in Elements(part(r)) <=> x \in Objects(T!Under[sub[r]])
      BY <3>1, <3>2, FreeingFacts
    <3>4. NoDuplicates(part(r))
      BY <3>1, <3>2, FreeingFacts, DescendingDistinct
    <3>5. Gone(r) = Objects(T!Under[sub[r]])
      BY <2>4 DEF Gone
    <3> QED
      BY <2>1, <2>4, <3>3, <3>4, <3>5
  <2> QED
    BY <2>2, <2>3, <2>4
<1>5. PartsOK(f, s, temp)
  <2>1. \A k \in 1..Len(s) : s[k] \in Elements(s)
    BY <1>2 DEF Elements
  <2> QED
    BY <1>4, <2>1 DEF PartsOK
<1>6. new \in Seq(T!Ids) /\ \A x : x \in Elements(new) <=> \E r \in Elements(s) : x \in Elements(part(r))
  BY <1>2, <1>5, FreedElements
<1>7. ASSUME NEW k \in DOMAIN s, NEW n \in DOMAIN s, k # n
      PROVE  Elements(part(s[k])) \cap Elements(part(s[n])) = {}
  <2> SUFFICES ASSUME NEW x, x \in Elements(part(s[k])), x \in Elements(part(s[n])) PROVE FALSE
    OBVIOUS
  <2>1. s[k] \in Elements(s) /\ s[n] \in Elements(s)
    BY DEF Elements
  <2>2. x \in Gone(s[k]) /\ x \in Gone(s[n])
    BY <1>4, <2>1
  <2>3. s[k] < s[n] \/ s[n] < s[k]
    <3> DEFINE c == (Len(list[p]) - k) + 1
               d == (Len(list[p]) - n) + 1
    <3>1. c \in DOMAIN list[p] /\ d \in DOMAIN list[p] /\ s[k] = list[p][c] /\ s[n] = list[p][d]
      BY <1>2
    <3>2. c < d \/ d < c
      BY <1>2, <1>7
    <3>3. Ascending(list[p])
      BY DEF TransInv, ResInv, AgeOrder
    <3> QED
      BY <3>1, <3>2, <3>3 DEF Ascending
  <2>4. x > x /\ x \in Int
    <3>1. x \in T!Ids
      <4>1. part(s[k]) \in Seq(T!Ids)
        BY <1>4, <2>1
      <4> QED
        BY <4>1, ElementsType
    <3>2. x > x
      BY <1>2, <2>1, <2>2, <2>3, GoneOrder
    <3> QED
      BY <3>1, <3>2, IdsFacts
  <2> QED
    BY <2>4
<1>8. NoDuplicates(new)
  <2>1. \A r \in Elements(s) : NoDuplicates(part(r))
    BY <1>4
  <2>2. \A k, n \in DOMAIN s : k # n => Elements(part(s[k])) \cap Elements(part(s[n])) = {}
    BY <1>7
  <2> QED
    BY <1>2, <1>5, <2>1, <2>2, FreedDistinct
<1>9. \A x : x \in Elements(new) <=> \E r \in Elements(list[p]) : r \in temp /\ x \in Gone(r)
  <2>1. \A x : x \in Elements(new) <=> \E r \in Elements(s) : r \in temp /\ x \in Gone(r)
    <3> HIDE DEF new, part
    <3> QED
      BY <1>4, <1>6
  <2> QED
    BY <1>2, <2>1
<1> QED
  BY <1>6, <1>8, <1>9 DEF f, s

\* No pool gets a new resource
Shrinks ==
  /\ list' \in [T!Ids -> Seq(T!Ids)] /\ sub' = sub
  /\ \A p \in T!Ids : /\ Elements(list'[p]) \subseteq Elements(list[p])
                      /\ NoDuplicates(list'[p]) /\ Ascending(list'[p])

\* A pool without some of its resources is in order.
LEMMA ShrunkTree ==
  ASSUME ResInv, Shrinks, lastId' \in T!Ids, lastId <= lastId', made' = made
  PROVE  KnownIds' /\ PoolTree' /\ AgeOrder'
<1>0. /\ sub \in [T!Ids -> 0..MaxId] /\ lastId \in T!Ids /\ made \subseteq T!Ids
      /\ T!Ids \subseteq Nat /\ 1 \in T!Ids
      /\ \A x \in 0..MaxId : x # 0 => x \in T!Ids
  BY IdsFacts DEF ResInv, ResTypes
<1>1. \A p \in T!Ids : Elements(list[p]) \subseteq T!Ids
  BY ListType DEF ResInv, ResTypes
<1>2. KnownIds'
  <2>1. ASSUME NEW r \in T!Ids, sub[r] # 0 PROVE r <= lastId' /\ 1 < sub[r] /\ sub[r] < r
    BY <1>0, <2>1 DEF ResInv, KnownIds
  <2>2. ASSUME NEW p \in T!Ids, NEW r \in Elements(list'[p]) PROVE p < r /\ r <= lastId'
    <3>1. r \in Elements(list[p]) /\ r \in T!Ids
      BY <1>1, <2>2 DEF Shrinks
    <3>2. p < r /\ r <= lastId
      BY <3>1 DEF ResInv, KnownIds
    <3> QED
      BY <1>0, <3>1, <3>2
  <2>3. ASSUME NEW r \in made PROVE r <= lastId'
    BY <1>0, <2>3 DEF ResInv, KnownIds
  <2> QED
    BY <2>1, <2>2, <2>3 DEF KnownIds, Shrinks
<1>3. PoolTree'
  <2>1. \A p \in T!Ids : NoDuplicates(list'[p])
    BY DEF Shrinks
  <2>2. \A p, q \in T!Ids : p # q => Elements(list'[p]) \cap Elements(list'[q]) = {}
    BY DEF Shrinks, ResInv, PoolTree
  <2>3. \A p \in T!Ids : \A r \in Elements(list'[p]) : sub[r] # 0 => p < sub[r]
    BY DEF Shrinks, ResInv, PoolTree
  <2>4. \A q, r \in T!Ids : sub[q] # 0 /\ sub[q] = sub[r] => q = r
    BY DEF ResInv, PoolTree
  <2>5. \A r \in Elements(list'[1]) : sub[r] = 0
    BY <1>0 DEF Shrinks, ResInv, PoolTree
  <2> QED
    BY <2>1, <2>2, <2>3, <2>4, <2>5 DEF PoolTree, Shrinks
<1>4. AgeOrder'
  <2>1. \A p \in T!Ids : Ascending(list'[p])
    BY DEF Shrinks
  <2>2. \A p \in T!Ids : \A q, r \in Elements(list'[p]) : q < r /\ sub[r] # 0 => q < sub[r]
    BY DEF Shrinks, ResInv, AgeOrder
  <2>3. ASSUME NEW r \in T!Ids, sub[r] # 0, NEW q \in Elements(list'[sub[r]]) PROVE q < r
    <3>1. sub[r] \in T!Ids
      BY <1>0, <2>3
    <3>2. q \in Elements(list[sub[r]])
      BY <2>3, <3>1 DEF Shrinks
    <3> QED
      BY <2>3, <3>2 DEF ResInv, AgeOrder
  <2> QED
    BY <2>1, <2>2, <2>3 DEF AgeOrder, Shrinks, Ascending
<1> QED
  BY <1>2, <1>3, <1>4

\* The pools that T!Emptied leaves.
LEMMA EmptiedFacts ==
  ASSUME ResInv, NEW ps, list' = T!Emptied(ps), sub' = sub
  PROVE  /\ Shrinks
         /\ \A p \in T!Ids : list'[p] = IF p \in ps THEN <<>> ELSE list[p]
<1>1. list' = [p \in T!Ids |-> IF p \in ps THEN <<>> ELSE list[p]]
  BY DEF T!Emptied
<1>2. list \in [T!Ids -> Seq(T!Ids)]
  BY DEF ResInv, ResTypes
<1>3. \A p \in T!Ids : list'[p] = IF p \in ps THEN <<>> ELSE list[p]
  BY <1>1
<1>4. list' \in [T!Ids -> Seq(T!Ids)]
  BY <1>1, <1>2
<1>5. ASSUME NEW p \in T!Ids
      PROVE  /\ Elements(list'[p]) \subseteq Elements(list[p])
             /\ NoDuplicates(list'[p]) /\ Ascending(list'[p])
  <2>1. Ascending(<<>>)
    <3>1. DOMAIN <<>> = {}
      OBVIOUS
    <3> QED
      BY <3>1 DEF Ascending
  <2>2. CASE p \in ps
    BY <1>3, <2>1, <2>2, EmptyFacts
  <2>3. CASE p \notin ps
    BY <1>3, <2>3 DEF ResInv, PoolTree, AgeOrder
  <2> QED
    BY <2>2, <2>3
<1> QED
  BY <1>3, <1>4, <1>5 DEF Shrinks

\* Pools are emptied and their objects freed or detached.
LEMMA EmptyingRes ==
  ASSUME ResInv, NEW ps \in SUBSET T!Ids, NEW new \in Seq(T!Ids), NEW lost \in SUBSET T!Ids,
         list' = T!Emptied(ps), sub' = sub, temp' = temp, permPools' = permPools,
         made' = made, lastId' = lastId,
         freed' = freed \o new, detached' = detached \cup lost,
         NoDuplicates(new), Elements(new) \cap lost = {},
         \A x : x \in Elements(new) \cup lost <=> x \in Objects(ps)
  PROVE  ResInv'
<1>1. /\ Shrinks
      /\ \A p \in T!Ids : list'[p] = IF p \in ps THEN <<>> ELSE list[p]
  BY EmptiedFacts
<1>2. ResTypes
  BY DEF ResInv
<1>3. freed' \in Seq(T!Ids) /\ Elements(freed') = Elements(freed) \cup Elements(new)
  BY <1>2, JoinedElements DEF ResTypes
<1>4. ResTypes'
  BY <1>1, <1>2, <1>3 DEF ResTypes, Shrinks
<1>5. KnownIds' /\ PoolTree' /\ AgeOrder'
  <2>1. lastId <= lastId' /\ lastId' \in T!Ids
    BY <1>2, IdsFacts DEF ResTypes
  <2> QED
    BY <1>1, <2>1, ShrunkTree
<1>6. \A p \in T!Ids : Elements(list'[p]) = IF p \in ps THEN {} ELSE Elements(list[p])
  BY <1>1, EmptyFacts
<1>7. \A x \in Objects(ps) : x \in made /\ Linked(x) /\ x \notin Elements(freed) /\ x \notin detached
  <2> SUFFICES ASSUME NEW x \in Objects(ps)
               PROVE  x \in made /\ Linked(x) /\ x \notin Elements(freed) /\ x \notin detached
    OBVIOUS
  <2>1. x \in T!Ids /\ sub[x] = 0 /\ Linked(x)
    BY DEF Objects, Linked
  <2>2. x \in made
    BY <2>1 DEF ResInv, ObjectsOK
  <2> QED
    BY <2>1, <2>2 DEF ResInv, ObjectsOK
<1>8. NoDuplicates(freed')
  <2>1. Elements(freed) \cap Elements(new) = {}
    BY <1>7
  <2> QED
    BY <1>2, <2>1, ConcatFacts DEF ResTypes, ResInv, ObjectsOK
<1>9. Elements(freed') \cap detached' = {} /\ Elements(freed') \subseteq made /\ detached' \subseteq made
  BY <1>3, <1>7 DEF ResInv, ObjectsOK
<1>10. \A r \in T!Ids : Linked(r)' <=> \E p \in T!Ids : p \notin ps /\ r \in Elements(list[p])
  BY <1>6 DEF Linked
<1>11. ASSUME NEW r \in made
       PROVE  sub[r] = 0 /\ (Linked(r)' <=> r \notin Elements(freed') \cup detached')
  <2>1. r \in T!Ids /\ sub[r] = 0 /\ (Linked(r) <=> r \notin Elements(freed) \cup detached)
    BY <1>2 DEF ResTypes, ResInv, ObjectsOK
  <2>2. ASSUME Linked(r)' PROVE r \notin Elements(freed') \cup detached'
    <3>1. PICK p \in T!Ids : p \notin ps /\ r \in Elements(list[p])
      BY <1>10, <2>1, <2>2
    <3>2. \A q \in ps : r \notin Elements(list[q])
      BY <3>1 DEF ResInv, PoolTree
    <3>3. r \notin Objects(ps) /\ Linked(r)
      BY <3>1, <3>2 DEF Objects, Linked
    <3> QED
      BY <1>3, <2>1, <3>3
  <2>3. ASSUME r \notin Elements(freed') \cup detached' PROVE Linked(r)'
    <3>1. Linked(r) /\ r \notin Objects(ps)
      BY <1>3, <2>1, <2>3
    <3>2. PICK p \in T!Ids : r \in Elements(list[p])
      BY <3>1 DEF Linked
    <3>3. p \notin ps
      BY <2>1, <3>1, <3>2 DEF Objects
    <3> QED
      BY <1>10, <2>1, <3>2, <3>3
  <2> QED
    BY <2>1, <2>2, <2>3
<1>12. \A r \in T!Ids : Linked(r)' => r \in made \/ sub[r] # 0
  BY <1>10 DEF ResInv, ObjectsOK, Linked
<1>13. ObjectsOK'
  BY <1>8, <1>9, <1>11, <1>12 DEF ObjectsOK
<1> QED
  BY <1>4, <1>5, <1>13 DEF ResInv

\* A list without one of its resources is still in order.
LEMMA WithoutAscending ==
  ASSUME NEW s \in Seq(T!Ids), NEW x, Ascending(s)
  PROVE  Ascending(Without(s, x))
<1>1. CASE x \notin Elements(s)
  BY <1>1 DEF Without
<1>2. CASE x \in Elements(s)
  <2> DEFINE new == Without(s, x)
             i == IndexOf(s, x)
  <2>1. /\ DOMAIN new = 1..(Len(s) - 1)
        /\ \A k \in 1..(Len(s) - 1) : new[k] = IF k < i THEN s[k] ELSE s[k + 1]
    BY <1>2, WithoutPlaces
  <2>2. i \in DOMAIN s /\ DOMAIN s = 1..Len(s) /\ Len(s) \in Nat
    BY <1>2, IndexFacts
  <2> HIDE DEF new, i
  <2>3. \A k \in 1..Len(s) : s[k] \in Nat
    BY IdsFacts
  <2>4. ASSUME NEW m \in DOMAIN new, NEW n \in DOMAIN new, m < n PROVE new[m] < new[n]
    <3>1. m \in 1..Len(s) /\ n \in 1..Len(s) /\ m + 1 \in 1..Len(s) /\ n + 1 \in 1..Len(s)
      BY <2>1, <2>2
    <3>2. CASE n < i
      BY <2>1, <2>2, <2>4, <3>1, <3>2 DEF Ascending
    <3>3. CASE m >= i
      BY <2>1, <2>2, <2>4, <3>1, <3>3 DEF Ascending
    <3>4. CASE m < i /\ n >= i
      BY <2>1, <2>2, <2>4, <3>1, <3>4 DEF Ascending
    <3> QED
      BY <2>2, <3>1, <3>2, <3>3, <3>4
  <2>5. Ascending(new)
    BY <2>4 DEF Ascending
  <2> QED
    BY <2>5 DEF new
<1> QED
  BY <1>1, <1>2

\* A younger resource goes to the end.
LEMMA AppendAscending ==
  ASSUME NEW s \in Seq(T!Ids), NEW x \in T!Ids, Ascending(s), \A y \in Elements(s) : y < x
  PROVE  Ascending(Append(s, x))
<1> DEFINE new == Append(s, x)
<1>1. /\ DOMAIN new = 1..(Len(s) + 1) /\ DOMAIN s = 1..Len(s) /\ Len(s) \in Nat
      /\ \A k \in 1..Len(s) : new[k] = s[k]
      /\ new[Len(s) + 1] = x
  OBVIOUS
<1> HIDE DEF new
<1>2. ASSUME NEW m \in DOMAIN new, NEW n \in DOMAIN new, m < n PROVE new[m] < new[n]
  <2>1. m \in DOMAIN s /\ new[m] = s[m] /\ m \in Nat /\ n \in Nat
    BY <1>1, <1>2
  <2>2. CASE n = Len(s) + 1
    <3>1. s[m] \in Elements(s)
      BY <2>1 DEF Elements
    <3> QED
      BY <1>1, <2>1, <2>2, <3>1
  <2>3. CASE n \in DOMAIN s
    BY <1>1, <1>2, <2>1, <2>3 DEF Ascending
  <2> QED
    BY <1>1, <2>1, <2>2, <2>3
<1> QED
  BY <1>2 DEF new, Ascending

\* The pools that T!Unlinked leaves.
LEMMA UnlinkedFacts ==
  ASSUME ResInv, NEW r, list' = T!Unlinked(r), sub' = sub
  PROVE  /\ Shrinks
         /\ \A p \in T!Ids : Elements(list'[p]) = Elements(list[p]) \ {r}
<1>0. \A s, x : T!Without(s, x) = Without(s, x)
  BY DEF T!Without, Without, T!Elements, Elements, T!IndexOf, IndexOf
<1>1. list' = [p \in T!Ids |-> T!Without(list[p], r)]
  BY DEF T!Unlinked
<1>2. \A p \in T!Ids : list[p] \in Seq(T!Ids) /\ NoDuplicates(list[p]) /\ Ascending(list[p])
  BY DEF ResInv, ResTypes, PoolTree, AgeOrder
<1>3. \A p \in T!Ids : list'[p] = Without(list[p], r)
  BY <1>0, <1>1
<1>4. ASSUME NEW p \in T!Ids
      PROVE  /\ list'[p] \in Seq(T!Ids) /\ Elements(list'[p]) = Elements(list[p]) \ {r}
             /\ NoDuplicates(list'[p]) /\ Ascending(list'[p])
  <2>1. list[p] \in Seq(T!Ids) /\ NoDuplicates(list[p]) /\ Ascending(list[p])
    BY <1>2
  <2>2. /\ Without(list[p], r) \in Seq(T!Ids) /\ NoDuplicates(Without(list[p], r))
        /\ Elements(Without(list[p], r)) = Elements(list[p]) \ {r}
    BY <2>1, WithoutFacts
  <2>3. Ascending(Without(list[p], r))
    BY <2>1, WithoutAscending
  <2> QED
    BY <1>3, <2>2, <2>3
<1>5. list' \in [T!Ids -> Seq(T!Ids)]
  BY <1>1, <1>4
<1> QED
  BY <1>4, <1>5 DEF Shrinks

\* One object is unlinked, and freed or detached.
LEMMA UnlinkRes ==
  ASSUME ResInv, NEW r \in made, Linked(r),
         list' = T!Unlinked(r), sub' = sub, temp' = temp, permPools' = permPools,
         made' = made, lastId' = lastId,
         \/ freed' = Append(freed, r) /\ detached' = detached
         \/ freed' = freed /\ detached' = detached \cup {r}
  PROVE  ResInv'
<1>1. Shrinks /\ \A p \in T!Ids : Elements(list'[p]) = Elements(list[p]) \ {r}
  BY UnlinkedFacts
<1>2. ResTypes /\ r \in T!Ids
  BY DEF ResInv, ResTypes
<1>3. r \notin Elements(freed) /\ r \notin detached /\ sub[r] = 0
  BY DEF ResInv, ObjectsOK
<1>4. /\ freed' \in Seq(T!Ids) /\ NoDuplicates(freed')
      /\ \A x : x \in Elements(freed') \cup detached' <=> x \in Elements(freed) \cup detached \cup {r}
      /\ Elements(freed') \cap detached' = {}
      /\ Elements(freed') \subseteq made /\ detached' \subseteq made
  <2>1. /\ freed \in Seq(T!Ids) /\ NoDuplicates(freed) /\ Elements(freed) \cap detached = {}
        /\ Elements(freed) \subseteq made /\ detached \subseteq made
    BY DEF ResInv, ResTypes, ObjectsOK
  <2>2. CASE freed' = Append(freed, r) /\ detached' = detached
    <3>1. freed' \in Seq(T!Ids) /\ Elements(freed') = Elements(freed) \cup {r} /\ NoDuplicates(freed')
      BY <1>2, <1>3, <2>1, <2>2, AppendFacts
    <3> QED
      BY <1>3, <2>1, <2>2, <3>1
  <2>3. CASE freed' = freed /\ detached' = detached \cup {r}
    BY <1>3, <2>1, <2>3
  <2> QED
    BY <2>2, <2>3
<1>5. ResTypes'
  BY <1>1, <1>2, <1>4 DEF ResTypes, Shrinks
<1>6. KnownIds' /\ PoolTree' /\ AgeOrder'
  <2>1. lastId <= lastId' /\ lastId' \in T!Ids
    BY <1>2, IdsFacts DEF ResTypes
  <2> QED
    BY <1>1, <2>1, ShrunkTree
<1>7. \A x \in T!Ids : Linked(x)' <=> Linked(x) /\ x # r
  BY <1>1 DEF Linked
<1>8. ObjectsOK'
  <2>1. \A x \in made : x \in T!Ids /\ sub[x] = 0 /\ (Linked(x) <=> x \notin Elements(freed) \cup detached)
    BY <1>2 DEF ResInv, ResTypes, ObjectsOK
  <2>2. \A x \in made : sub[x] = 0 /\ (Linked(x)' <=> x \notin Elements(freed') \cup detached')
    BY <1>4, <1>7, <2>1
  <2>3. \A x \in T!Ids : Linked(x)' => x \in made \/ sub[x] # 0
    BY <1>7 DEF ResInv, ObjectsOK
  <2> QED
    BY <1>4, <2>2, <2>3 DEF ObjectsOK
<1> QED
  BY <1>5, <1>6, <1>8 DEF ResInv

\* Nothing happens to the resources.
LEMMA SameRes ==
  ASSUME ResInv, lastId' \in T!Ids, lastId <= lastId', permPools' \subseteq T!Ids,
         UNCHANGED <<list, sub, temp, made, freed, detached>>
  PROVE  ResInv'
<1>1. Shrinks
  BY DEF Shrinks, ResInv, ResTypes, PoolTree, AgeOrder
<1>2. KnownIds' /\ PoolTree' /\ AgeOrder'
  BY <1>1, ShrunkTree
<1>3. ResTypes'
  BY DEF ResInv, ResTypes
<1>4. ObjectsOK'
  BY DEF ResInv, ObjectsOK, Linked
<1> QED
  BY <1>2, <1>3, <1>4 DEF ResInv

\* The pool p may get a resource for the sub-pool s, or an object
MayAdd(p, s) ==
  /\ p \in T!Ids /\ p <= lastId /\ lastId < MaxId
  /\ \A r \in T!Ids : sub[r] # p
  /\ s # 0 => /\ s \in T!Ids /\ s <= lastId /\ p # 1 /\ p < s
              /\ \A r \in T!Ids : sub[r] # s
              /\ \A r \in Elements(list[p]) : r < s

\* What res_new does to the lists.
LEMMA AddedFacts ==
  ASSUME ResInv, NEW p, NEW s, MayAdd(p, s), T!ResNew(p, s)
  PROVE  /\ lastId' = lastId + 1 /\ lastId' \in T!Ids /\ sub[lastId'] = 0
         /\ list'[p] = Append(list[p], lastId')
         /\ \A q \in T!Ids : q # p => list'[q] = list[q]
         /\ \A q \in T!Ids : list'[q] \in Seq(T!Ids)
         /\ Elements(list'[p]) = Elements(list[p]) \cup {lastId'}
         /\ \A q \in T!Ids : lastId' \notin Elements(list[q])
         /\ sub'[lastId'] = s /\ \A r \in T!Ids : r # lastId' => sub'[r] = sub[r]
         /\ list' \in [T!Ids -> Seq(T!Ids)] /\ sub' \in [T!Ids -> 0..MaxId]
         /\ \A r \in T!Ids : (Linked(r)' <=> Linked(r) \/ r = lastId')
         /\ lastId' \notin made
<1>1. ResTypes /\ p \in T!Ids /\ lastId < MaxId
  BY DEF ResInv, MayAdd
<1>2. lastId' = lastId + 1 /\ lastId' \in T!Ids
  BY <1>1, IdsFacts DEF T!ResNew, T!NewId, ResTypes
<1>3. /\ list' = [list EXCEPT ![p] = Append(@, lastId')]
      /\ sub' = [sub EXCEPT ![lastId'] = s]
  BY DEF T!ResNew
<1>4. s \in 0..MaxId
  BY IdsFacts DEF MayAdd
<1>5. \A q \in T!Ids : list[q] \in Seq(T!Ids) /\ Elements(list[q]) \subseteq T!Ids
  BY <1>1, ListType DEF ResTypes
<1>6. Append(list[p], lastId') \in Seq(T!Ids) /\ Elements(Append(list[p], lastId')) = Elements(list[p]) \cup {lastId'}
  BY <1>1, <1>2, <1>5, AppendFacts
<1>7. /\ list'[p] = Append(list[p], lastId') /\ list' \in [T!Ids -> Seq(T!Ids)]
      /\ \A q \in T!Ids : q # p => list'[q] = list[q]
  BY <1>1, <1>3, <1>6 DEF ResTypes
<1>8. /\ sub'[lastId'] = s /\ \A r \in T!Ids : r # lastId' => sub'[r] = sub[r]
      /\ sub' \in [T!Ids -> 0..MaxId]
  BY <1>1, <1>2, <1>3, <1>4 DEF ResTypes
<1>9. \A r \in T!Ids : r <= lastId => r # lastId'
  BY <1>1, <1>2, IdsFacts DEF ResTypes
<1>10. \A q \in T!Ids : lastId' \notin Elements(list[q])
  BY <1>2, <1>9 DEF ResInv, KnownIds
<1>11. sub[lastId'] = 0 /\ lastId' \notin made
  BY <1>2, <1>9 DEF ResInv, KnownIds
<1>12. \A r \in T!Ids : (Linked(r)' <=> Linked(r) \/ r = lastId')
  BY <1>1, <1>6, <1>7 DEF Linked
<1> QED
  BY <1>2, <1>6, <1>7, <1>8, <1>10, <1>11, <1>12

\* The resources after res_new.
LEMMA AddRes ==
  ASSUME ResInv, NEW p, NEW s, MayAdd(p, s), T!ResNew(p, s),
         UNCHANGED <<permPools, freed, detached>>
  PROVE  ResInv'
<1> DEFINE n == lastId'
<1>1. /\ n = lastId + 1 /\ n \in T!Ids /\ sub[n] = 0 /\ n \notin made
      /\ list'[p] = Append(list[p], n) /\ Elements(list'[p]) = Elements(list[p]) \cup {n}
      /\ \A q \in T!Ids : q # p => list'[q] = list[q]
      /\ \A q \in T!Ids : n \notin Elements(list[q])
      /\ sub'[n] = s /\ \A r \in T!Ids : r # n => sub'[r] = sub[r]
      /\ list' \in [T!Ids -> Seq(T!Ids)] /\ sub' \in [T!Ids -> 0..MaxId]
      /\ \A r \in T!Ids : (Linked(r)' <=> Linked(r) \/ r = n)
  BY AddedFacts
<1>2. ResTypes /\ p \in T!Ids /\ p <= lastId /\ T!Ids \subseteq Nat /\ 1 \in T!Ids /\ lastId \in Nat
  BY IdsFacts DEF ResInv, MayAdd, ResTypes
<1>3. temp' \subseteq T!Ids /\ made' = IF s = 0 THEN made \cup {n} ELSE made
  BY <1>1, <1>2, IdsFacts DEF T!ResNew, ResTypes
<1>4. ResTypes'
  BY <1>1, <1>2, <1>3 DEF ResTypes
<1>5. \A q \in T!Ids : Elements(list[q]) \subseteq T!Ids /\ list[q] \in Seq(T!Ids)
  BY <1>2, ListType DEF ResTypes
<1>6. \A q \in T!Ids : Elements(list'[q]) = IF q = p THEN Elements(list[p]) \cup {n} ELSE Elements(list[q])
  BY <1>1
<1>s. s # 0 => /\ s \in T!Ids /\ s <= lastId /\ p # 1 /\ p < s /\ s > 1
               /\ \A r \in T!Ids : sub[r] # s
               /\ \A r \in Elements(list[p]) : r < s
  <2>1. s # 0 => s \in T!Ids /\ p < s
    BY DEF MayAdd
  <2>2. s # 0 => s > 1
    BY <1>2, <2>1, IdsFacts
  <2> QED
    BY <2>2 DEF MayAdd
<1>n. n = lastId + 1 /\ lastId \in Nat
  BY <1>1, <1>2
<1>p. \A r \in T!Ids : sub[r] # p
  BY DEF MayAdd
<1> HIDE DEF n
<1>7. KnownIds'
  <2>1. ASSUME NEW r \in T!Ids, sub'[r] # 0 PROVE r <= n /\ 1 < sub'[r] /\ sub'[r] < r
    <3>1. CASE r = n
      BY <1>1, <1>2, <1>s, <2>1, <3>1
    <3>2. CASE r # n
      BY <1>1, <1>2, <2>1, <3>2 DEF ResInv, KnownIds
    <3> QED
      BY <3>1, <3>2
  <2>2. ASSUME NEW q \in T!Ids, NEW r \in Elements(list'[q]) PROVE q < r /\ r <= n
    <3>1. CASE r = n
      <4>1. q = p
        BY <1>1, <1>6, <2>2, <3>1
      <4> QED
        BY <1>1, <1>2, <3>1, <4>1
    <3>2. CASE r # n
      <4>1. r \in Elements(list[q]) /\ r \in T!Ids
        BY <1>5, <1>6, <2>2, <3>2
      <4>2. q < r /\ r <= lastId
        BY <4>1 DEF ResInv, KnownIds
      <4> QED
        BY <1>1, <1>2, <4>1, <4>2
    <3> QED
      BY <3>1, <3>2
  <2>3. ASSUME NEW r \in made' PROVE r <= n
    <3>1. r = n \/ r \in made
      BY <1>3, <2>3
    <3>2. r \in made => r <= lastId /\ r \in T!Ids
      BY <1>2 DEF ResInv, KnownIds, ResTypes
    <3>3. r \in made => r \in Nat
      BY <1>2, <3>2
    <3> QED
      BY <1>n, <3>1, <3>2, <3>3
  <2> QED
    BY <2>1, <2>2, <2>3 DEF KnownIds, n
<1>8. PoolTree'
  <2>1. ASSUME NEW q \in T!Ids PROVE NoDuplicates(list'[q])
    <3>1. NoDuplicates(list[q])
      BY DEF ResInv, PoolTree
    <3>2. CASE q = p
      <4>1. list[p] \in Seq(T!Ids) /\ n \in T!Ids /\ n \notin Elements(list[p])
        BY <1>1, <1>2, <1>5
      <4>2. NoDuplicates(Append(list[p], n))
        BY <3>1, <3>2, <4>1, AppendFacts
      <4> QED
        BY <1>1, <3>2, <4>2
    <3>3. CASE q # p
      BY <1>1, <3>1, <3>3
    <3> QED
      BY <3>2, <3>3
  <2>2. \A q, r \in T!Ids : q # r => Elements(list'[q]) \cap Elements(list'[r]) = {}
    <3>1. \A q, r \in T!Ids : q # r => Elements(list[q]) \cap Elements(list[r]) = {}
      BY DEF ResInv, PoolTree
    <3>2. \A q \in T!Ids : n \notin Elements(list[q])
      BY <1>1
    <3> QED
      BY <1>6, <3>1, <3>2
  <2>3. ASSUME NEW q \in T!Ids, NEW r \in Elements(list'[q]), sub'[r] # 0 PROVE q < sub'[r]
    <3>1. CASE r = n
      BY <1>1, <1>6, <1>s, <2>3, <3>1
    <3>2. CASE r # n
      <4>1. r \in Elements(list[q]) /\ r \in T!Ids
        BY <1>5, <1>6, <2>3, <3>2
      <4> QED
        BY <1>1, <2>3, <3>2, <4>1 DEF ResInv, PoolTree
    <3> QED
      BY <3>1, <3>2
  <2>4. ASSUME NEW q \in T!Ids, NEW r \in T!Ids, sub'[q] # 0, sub'[q] = sub'[r] PROVE q = r
    <3>1. CASE q # n /\ r # n
      BY <1>1, <2>4, <3>1 DEF ResInv, PoolTree
    <3>2. CASE q = n /\ r # n
      BY <1>1, <1>s, <2>4, <3>2
    <3>3. CASE q # n /\ r = n
      BY <1>1, <1>s, <2>4, <3>3
    <3> QED
      BY <3>1, <3>2, <3>3
  <2>5. ASSUME NEW r \in Elements(list'[1]) PROVE sub'[r] = 0
    <3>1. CASE r = n
      BY <1>1, <1>2, <1>6, <1>s, <2>5, <3>1
    <3>2. CASE r # n
      <4>1. r \in Elements(list[1]) /\ r \in T!Ids
        BY <1>2, <1>5, <1>6, <2>5, <3>2
      <4> QED
        BY <1>1, <3>2, <4>1 DEF ResInv, PoolTree
    <3> QED
      BY <3>1, <3>2
  <2> QED
    BY <2>1, <2>2, <2>3, <2>4, <2>5 DEF PoolTree
<1>9. AgeOrder'
  <2>0. \A q \in T!Ids : \A r \in Elements(list[q]) : r < n
    <3>1. \A q \in T!Ids : \A r \in Elements(list[q]) : r <= lastId /\ r \in Nat
      BY <1>2, <1>5 DEF ResInv, KnownIds
    <3> QED
      BY <1>n, <3>1
  <2>1. ASSUME NEW q \in T!Ids PROVE Ascending(list'[q])
    <3>1. Ascending(list[q])
      BY DEF ResInv, AgeOrder
    <3>2. CASE q = p
      <4>1. list[p] \in Seq(T!Ids) /\ n \in T!Ids /\ \A y \in Elements(list[p]) : y < n
        BY <1>1, <1>2, <1>5, <2>0
      <4>2. Ascending(Append(list[p], n))
        BY <3>1, <3>2, <4>1, AppendAscending
      <4> QED
        BY <1>1, <3>2, <4>2
    <3>3. CASE q # p
      BY <1>1, <3>1, <3>3
    <3> QED
      BY <3>2, <3>3
  <2>2. ASSUME NEW a \in T!Ids, NEW q \in Elements(list'[a]), NEW r \in Elements(list'[a]),
               q < r, sub'[r] # 0
        PROVE  q < sub'[r]
    <3>1. CASE r = n
      <4>1. a = p /\ q # n
        BY <1>1, <1>2, <1>6, <2>2, <3>1
      <4> QED
        BY <1>1, <1>6, <1>s, <2>2, <3>1, <4>1
    <3>2. CASE r # n
      <4>1. r \in Elements(list[a]) /\ r \in T!Ids
        BY <1>5, <1>6, <2>2, <3>2
      <4>2. q # n
        BY <1>1, <1>2, <2>0, <2>2, <4>1
      <4>3. q \in Elements(list[a])
        BY <1>6, <2>2, <4>2
      <4> QED
        BY <1>1, <2>2, <3>2, <4>1, <4>3 DEF ResInv, AgeOrder
    <3> QED
      BY <3>1, <3>2
  <2>3. ASSUME NEW r \in T!Ids, sub'[r] # 0, NEW q \in Elements(list'[sub'[r]]) PROVE q < r
    <3>0. sub'[r] # p /\ sub'[r] \in T!Ids
      <4>1. sub'[r] \in T!Ids
        BY <1>1, <2>3, IdsFacts
      <4>2. CASE r = n
        BY <1>1, <1>2, <1>s, <2>3, <4>1, <4>2
      <4>3. CASE r # n
        BY <1>1, <1>p, <4>1, <4>3
      <4> QED
        BY <4>1, <4>2, <4>3
    <3>1. q \in Elements(list[sub'[r]])
      BY <1>6, <2>3, <3>0
    <3>2. CASE r = n
      BY <2>0, <3>0, <3>1, <3>2
    <3>3. CASE r # n
      BY <1>1, <2>3, <3>1, <3>3 DEF ResInv, AgeOrder
    <3> QED
      BY <3>2, <3>3
  <2> QED
    BY <2>1, <2>2, <2>3 DEF AgeOrder, Ascending
<1>10. ObjectsOK'
  <2>1. /\ NoDuplicates(freed') /\ Elements(freed') \cap detached' = {}
        /\ Elements(freed') \subseteq made' /\ detached' \subseteq made'
    BY <1>3 DEF ResInv, ObjectsOK
  <2>2. ASSUME NEW r \in made'
        PROVE  sub'[r] = 0 /\ (Linked(r)' <=> r \notin Elements(freed) \cup detached)
    <3>1. CASE r = n
      <4>1. s = 0 /\ n \notin Elements(freed) \cup detached
        BY <1>1, <1>3, <2>2, <3>1 DEF ResInv, ObjectsOK
      <4> QED
        BY <1>1, <3>1, <4>1
    <3>2. CASE r # n
      <4>1. r \in made /\ r \in T!Ids
        BY <1>2, <1>3, <2>2, <3>2 DEF ResTypes
      <4>2. sub[r] = 0 /\ (Linked(r) <=> r \notin Elements(freed) \cup detached)
        BY <4>1 DEF ResInv, ObjectsOK
      <4> QED
        BY <1>1, <3>2, <4>1, <4>2
    <3> QED
      BY <3>1, <3>2
  <2>3. ASSUME NEW r \in T!Ids, Linked(r)' PROVE r \in made' \/ sub'[r] # 0
    <3>1. CASE r = n
      BY <1>1, <1>3, <3>1
    <3>2. CASE r # n
      BY <1>1, <1>3, <2>3, <3>2 DEF ResInv, ObjectsOK
    <3> QED
      BY <3>1, <3>2
  <2> QED
    BY <2>1, <2>2, <2>3 DEF ObjectsOK
<1> QED
  BY <1>4, <1>7, <1>8, <1>9, <1>10 DEF ResInv

\* The stack of transactions and its top.
LEMMA StackFacts ==
  ASSUME TransInv
  PROVE  /\ DOMAIN trans = 1..Len(trans) /\ Len(trans) \in Nat
         /\ \A i \in DOMAIN trans : /\ trans[i] \in TransRecord
                                    /\ trans[i].rpool \in T!Ids /\ trans[i].prev \in 0..MaxId
                                    /\ trans[i].exc \in 0..MaxId /\ trans[i].mark \in Nat
         /\ trans # <<>> => Len(trans) \in DOMAIN trans /\ Len(trans) > 0 /\ T!Top = trans[Len(trans)]
<1>1. trans \in Seq(TransRecord)
  BY DEF TransInv, StackTypes
<1>2. /\ DOMAIN trans = 1..Len(trans) /\ Len(trans) \in Nat
      /\ \A i \in DOMAIN trans : trans[i] \in TransRecord
      /\ trans # <<>> => Len(trans) > 0
  BY <1>1
<1> QED
  BY <1>2 DEF T!Top, TransRecord

\* trans_pop takes the top off.
LEMMA PopFacts ==
  ASSUME TransInv, trans # <<>>, trans' = T!Front(trans)
  PROVE  /\ trans' \in Seq(TransRecord) /\ Len(trans') = Len(trans) - 1
         /\ DOMAIN trans' = 1..(Len(trans) - 1)
         /\ \A i \in DOMAIN trans' : /\ i \in DOMAIN trans /\ i < Len(trans) /\ i \in Nat
                                     /\ trans'[i] = trans[i]
                                     /\ trans[i].rpool < T!Top.rpool /\ trans[i].exc < T!Top.rpool
         /\ Len(trans) = 1 => trans' = <<>>
         /\ Len(trans) > 1 => trans' # <<>> /\ trans'[Len(trans')] = trans[Len(trans) - 1]
<1>0. trans \in Seq(TransRecord) /\ Len(trans) \in Nat /\ Len(trans) > 0 /\ DOMAIN trans = 1..Len(trans)
  BY StackFacts DEF TransInv, StackTypes
<1> DEFINE n == Len(trans) - 1
<1>1. trans' = SubSeq(trans, 1, n) /\ n \in 0..Len(trans)
  BY <1>0 DEF T!Front
<1>2. /\ trans' \in Seq(TransRecord) /\ Len(trans') = n
      /\ \A k \in 1..n : trans'[k] = trans[k]
  <2> HIDE DEF n
  <2> QED
    BY <1>0, <1>1, SplitFacts
<1>3. DOMAIN trans' = 1..n
  BY <1>2
<1>4. \A i \in 1..n : i \in DOMAIN trans /\ i < Len(trans) /\ i \in Nat
  BY <1>0
<1>5. \A i \in 1..n : trans[i].rpool < T!Top.rpool /\ trans[i].exc < T!Top.rpool
  <2>1. Len(trans) \in DOMAIN trans /\ T!Top = trans[Len(trans)]
    BY StackFacts
  <2> HIDE DEF n
  <2> QED
    BY <1>4, <2>1 DEF TransInv, StackOK
<1>6. Len(trans) = 1 => trans' = <<>>
  BY <1>2
<1>7. Len(trans) > 1 => n \in 1..n /\ trans' # <<>>
  BY <1>0, <1>2
<1> QED
  BY <1>2, <1>3, <1>4, <1>5, <1>6, <1>7

\* mp_restore to the mark of the top keeps what is older than it.
LEMMA DropFacts ==
  ASSUME TransInv, trans # <<>>, T!Drop
  PROVE  /\ transMem' \in Seq(T!Ids) /\ Len(transMem') = T!Top.mark /\ T!Top.mark \in 0..Len(transMem)
         /\ DOMAIN transMem' = 1..T!Top.mark /\ DOMAIN transMem = 1..Len(transMem)
         /\ \A k \in DOMAIN transMem' : k \in DOMAIN transMem /\ transMem'[k] = transMem[k]
         /\ \A x : x \in Elements(transMem') <=> x \in Elements(transMem) /\ x < T!Top.rpool
<1> DEFINE n == T!Top.mark
<1>1. transMem \in Seq(T!Ids)
  BY DEF TransInv, StackTypes
<1>2. MarkOK(T!Top, transMem) /\ n \in Nat
  BY StackFacts DEF TransInv, MarksOK
<1>3. n \in 0..Len(transMem) /\ DOMAIN transMem = 1..Len(transMem) /\ Len(transMem) \in Nat
  BY <1>1, <1>2 DEF MarkOK
<1>4. transMem' = SubSeq(transMem, 1, n)
  BY DEF T!Drop
<1> HIDE DEF n
<1>5. /\ transMem' \in Seq(T!Ids) /\ Len(transMem') = n
      /\ \A k \in 1..n : transMem'[k] = transMem[k]
  BY <1>1, <1>3, <1>4, SplitFacts
<1>6. DOMAIN transMem' = 1..n
  BY <1>5
<1>7. \A k \in 1..n : k \in DOMAIN transMem
  BY <1>3
<1>8. \A k \in DOMAIN transMem : k \in 1..n <=> transMem[k] < T!Top.rpool
  <2>1. \A k \in DOMAIN transMem : k <= n <=> transMem[k] < T!Top.rpool
    BY <1>2 DEF MarkOK, n
  <2>2. \A k \in DOMAIN transMem : k <= n <=> k \in 1..n
    BY <1>3
  <2> QED
    BY <2>1, <2>2
<1>9. \A x : x \in Elements(transMem') <=> x \in Elements(transMem) /\ x < T!Top.rpool
  BY <1>5, <1>6, <1>7, <1>8 DEF Elements
<1> QED
  BY <1>3, <1>5, <1>6, <1>7, <1>9 DEF n

\* The end of a transaction, with its memory.
LEMMA PoppedStack ==
  ASSUME TransInv, trans # <<>>, flying = 0, flying' = 0, T!Pop, T!Drop, Shrinks, lastId' = lastId
  PROVE  StackTypes' /\ KnownStack' /\ StackOK' /\ Older' /\ MarksOK' /\ MemoryOK'
<1> DEFINE top == T!Top
<1>1. /\ trans' \in Seq(TransRecord) /\ Len(trans') = Len(trans) - 1
      /\ DOMAIN trans' = 1..(Len(trans) - 1)
      /\ \A i \in DOMAIN trans' : /\ i \in DOMAIN trans /\ i < Len(trans) /\ i \in Nat
                                  /\ trans'[i] = trans[i]
                                  /\ trans[i].rpool < top.rpool /\ trans[i].exc < top.rpool
      /\ Len(trans) = 1 => trans' = <<>>
      /\ Len(trans) > 1 => trans' # <<>> /\ trans'[Len(trans')] = trans[Len(trans) - 1]
  BY PopFacts DEF T!Pop
<1>2. /\ transMem' \in Seq(T!Ids) /\ Len(transMem') = top.mark /\ top.mark \in 0..Len(transMem)
      /\ DOMAIN transMem' = 1..top.mark /\ DOMAIN transMem = 1..Len(transMem)
      /\ \A k \in DOMAIN transMem' : k \in DOMAIN transMem /\ transMem'[k] = transMem[k]
      /\ \A x : x \in Elements(transMem') <=> x \in Elements(transMem) /\ x < top.rpool
  BY DropFacts
<1>3. /\ DOMAIN trans = 1..Len(trans) /\ Len(trans) \in Nat /\ Len(trans) > 0
      /\ Len(trans) \in DOMAIN trans /\ top = trans[Len(trans)]
      /\ \A i \in DOMAIN trans : /\ trans[i].rpool \in T!Ids /\ trans[i].prev \in 0..MaxId
                                 /\ trans[i].exc \in 0..MaxId /\ trans[i].mark \in Nat
  BY StackFacts
<1>4. cur' = top.prev
  BY DEF T!Pop
<1>5. sub' = sub /\ \A p \in T!Ids : Elements(list'[p]) \subseteq Elements(list[p])
  BY DEF Shrinks
<1> HIDE DEF top
<1>6. StackTypes'
  BY <1>1, <1>2, <1>3, <1>4, IdsFacts DEF StackTypes
<1>7. KnownStack'
  <2>1. \A r \in Elements(transMem') : 1 < r /\ r <= lastId'
    BY <1>2 DEF TransInv, KnownStack
  <2>2. \A i \in DOMAIN trans' : trans'[i].rpool <= lastId' /\ trans'[i].exc <= lastId'
    BY <1>1 DEF TransInv, KnownStack
  <2>3. flying' <= lastId'
    BY DEF TransInv, KnownStack
  <2> QED
    BY <2>1, <2>2, <2>3 DEF KnownStack
<1>8. StackOK'
  <2>1. ASSUME NEW i \in DOMAIN trans'
        PROVE  /\ trans'[i].rpool > 1 /\ \A r \in T!Ids : sub[r] # trans'[i].rpool
               /\ i = 1 => trans'[i].prev \in {0, 1}
               /\ i > 1 => trans'[i].prev = trans'[i - 1].rpool
    <3>1. i \in DOMAIN trans /\ i \in Nat /\ trans'[i] = trans[i]
      BY <1>1
    <3>2. /\ trans[i].rpool > 1 /\ \A r \in T!Ids : sub[r] # trans[i].rpool
          /\ i = 1 => trans[i].prev \in {0, 1}
          /\ i > 1 => trans[i].prev = trans[i - 1].rpool
      BY <3>1 DEF TransInv, StackOK
    <3>3. i > 1 => i - 1 \in DOMAIN trans'
      BY <1>1, <1>3
    <3> QED
      BY <1>1, <3>1, <3>2, <3>3
  <2>2. \A i, k \in DOMAIN trans' : i < k => /\ trans'[i].rpool < trans'[k].rpool
                                             /\ trans'[i].exc < trans'[k].rpool
    BY <1>1 DEF TransInv, StackOK
  <2>3. CASE Len(trans) = 1
    <3>1. cur' \in {0, 1} /\ trans' = <<>>
      BY <1>1, <1>3, <1>4, <2>3 DEF TransInv, StackOK
    <3> QED
      BY <1>5, <2>1, <2>2, <3>1 DEF StackOK
  <2>4. CASE Len(trans) > 1
    <3>1. cur' = trans[Len(trans) - 1].rpool
      BY <1>3, <1>4, <2>4 DEF TransInv, StackOK
    <3>2. trans' # <<>> /\ cur' = trans'[Len(trans')].rpool
      BY <1>1, <2>4, <3>1
    <3>3. cur' # 0
      <4>1. Len(trans) - 1 \in DOMAIN trans
        BY <1>3, <2>4
      <4> QED
        BY <1>3, <3>1, <4>1, IdsFacts
    <3> QED
      BY <1>5, <2>1, <2>2, <3>2, <3>3 DEF StackOK
  <2> QED
    BY <1>3, <2>3, <2>4
<1>9. Older'
  BY <1>1, <1>5 DEF TransInv, Older
<1>10. MarksOK'
  <2> SUFFICES ASSUME NEW i \in DOMAIN trans' PROVE MarkOK(trans[i], transMem')
    BY <1>1 DEF MarksOK
  <2>1. /\ i \in DOMAIN trans /\ trans[i].mark \in Nat /\ trans[i].rpool < top.rpool
        /\ trans[i].rpool \in T!Ids /\ top.rpool \in T!Ids
    BY <1>1, <1>3
  <2>2. MarkOK(trans[i], transMem) /\ MarkOK(top, transMem)
    BY <1>3, <2>1 DEF TransInv, MarksOK
  <2>3. trans[i].mark <= Len(transMem')
    <3> SUFFICES ASSUME trans[i].mark > top.mark PROVE FALSE
      BY <1>2, <2>1
    <3> DEFINE k == trans[i].mark
    <3>1. k \in DOMAIN transMem
      BY <1>2, <2>1, <2>2 DEF MarkOK
    <3>2. transMem[k] < trans[i].rpool
      BY <2>1, <2>2, <3>1 DEF MarkOK
    <3>3. transMem[k] \in Nat
      BY <3>1, IdsFacts DEF TransInv, StackTypes
    <3>4. transMem[k] < top.rpool
      BY <2>1, <3>2, <3>3, IdsFacts
    <3>5. k <= top.mark
      BY <2>2, <3>1, <3>4 DEF MarkOK
    <3> QED
      BY <1>2, <2>1, <3>5
  <2>4. \A k \in DOMAIN transMem' : k <= trans[i].mark <=> transMem'[k] < trans[i].rpool
    BY <1>2, <2>2 DEF MarkOK
  <2> QED
    BY <2>3, <2>4 DEF MarkOK
<1>11. MemoryOK'
  <2>1. ASSUME NEW i \in DOMAIN trans'
        PROVE  /\ trans'[i].rpool \in Elements(transMem')
               /\ trans'[i].exc # 0 => trans'[i].exc \in Elements(transMem')
    <3>1. /\ i \in DOMAIN trans /\ trans'[i] = trans[i]
          /\ trans[i].rpool < top.rpool /\ trans[i].exc < top.rpool
      BY <1>1
    <3>2. /\ trans[i].rpool \in Elements(transMem)
          /\ trans[i].exc # 0 => trans[i].exc \in Elements(transMem)
      BY <3>1 DEF TransInv, MemoryOK
    <3> QED
      BY <1>2, <3>1, <3>2
  <2>2. ASSUME NEW p \in Elements(transMem'), NEW r \in T!Ids, r \in Elements(list'[p])
        PROVE  /\ r \in Elements(transMem')
               /\ sub[r] # 0 => sub[r] \in Elements(transMem')
    <3>1. p \in Elements(transMem) /\ p < top.rpool /\ p \in T!Ids
      BY <1>2, <2>2, ElementsType DEF TransInv, StackTypes
    <3>2. r \in Elements(list[p])
      BY <1>5, <2>2, <3>1
    <3>3. r < top.rpool
      BY <1>3, <3>1, <3>2 DEF TransInv, Older
    <3>4. r \in Elements(transMem) /\ (sub[r] # 0 => sub[r] \in Elements(transMem))
      BY <3>1, <3>2 DEF TransInv, MemoryOK
    <3>5. sub[r] # 0 => sub[r] < top.rpool
      <4>1. sub[r] # 0 => sub[r] < r
        BY DEF TransInv, ResInv, KnownIds
      <4>2. sub[r] \in Nat /\ top.rpool \in Nat
        <5>1. sub \in [T!Ids -> 0..MaxId] /\ MaxId \in Nat
          BY IdsFacts DEF TransInv, ResInv, ResTypes
        <5>2. sub[r] \in 0..MaxId
          BY <5>1
        <5> QED
          BY <1>3, <5>1, <5>2, IdsFacts
      <4> QED
        BY <3>3, <4>1, <4>2, IdsFacts
    <3> QED
      BY <1>2, <3>3, <3>4, <3>5
  <2> QED
    BY <1>5, <2>1, <2>2 DEF MemoryOK
<1> QED
  BY <1>6, <1>7, <1>8, <1>9, <1>10, <1>11

\* What rp_delete leaves of the resources.
LEMMA RpDeleted ==
  ASSUME TransInv, NEW p \in T!Ids, T!RpDelete(p), lastId' = lastId
  PROVE  /\ ResInv' /\ Shrinks /\ temp' = temp
         /\ \A q \in T!Ids : list'[q] = IF q \in T!Under[p] THEN <<>> ELSE list[q]
<1>1. /\ freed' = freed \o T!Freeing[p] /\ list' = T!Emptied(T!Under[p])
      /\ UNCHANGED <<sub, temp, permPools, made, detached>>
  BY DEF T!RpDelete
<1>2. /\ T!Freeing[p] \in Seq(T!Ids) /\ Descending(T!Freeing[p])
      /\ \A x : x \in Elements(T!Freeing[p]) <=> x \in Objects(T!Under[p])
  BY FreeingFacts
<1>3. NoDuplicates(T!Freeing[p])
  BY <1>2, DescendingDistinct
<1>4. T!Under[p] \in SUBSET T!Ids /\ ResInv
  BY UnderRec DEF TransInv
<1>5. detached' = detached \cup {} /\ Elements(T!Freeing[p]) \cap {} = {} /\ {} \in SUBSET T!Ids
  BY <1>1
<1>6. \A x : x \in Elements(T!Freeing[p]) \cup {} <=> x \in Objects(T!Under[p])
  BY <1>2
<1>7. ResInv'
  BY <1>1, <1>2, <1>3, <1>4, <1>5, <1>6, EmptyingRes
<1> QED
  BY <1>1, <1>4, <1>7, EmptiedFacts

\* The homes of the pools that are left after rp_delete of the pool p.
LEMMA HomesDeleted ==
  ASSUME TransInv, NEW p \in T!Ids, Shrinks, temp' = temp,
         \A q \in T!Ids : list'[q] = IF q \in T!Under[p] THEN <<>> ELSE list[q],
         \A i \in DOMAIN trans : trans[i].rpool # p =>
            \E k \in DOMAIN trans' : trans'[k].rpool = trans[i].rpool
  PROVE  Homes'
<1> SUFFICES ASSUME NEW q \in T!Ids, list'[q] # <<>>
             PROVE  \/ q = 1
                    \/ \E i \in DOMAIN trans' : q = trans'[i].rpool
                    \/ \E r \in T!Ids : sub'[r] = q /\ (Linked(r)' \/ r \notin temp')
  BY DEF Homes
<1>1. q \notin T!Under[p] /\ list[q] # <<>>
  BY EmptyFacts
<1>2. q # p
  BY <1>1, UnderRec
<1>3. \/ q = 1
      \/ \E i \in DOMAIN trans : q = trans[i].rpool
      \/ \E r \in T!Ids : sub[r] = q /\ (Linked(r) \/ r \notin temp)
  BY <1>1 DEF TransInv, Homes
<1>4. ASSUME NEW i \in DOMAIN trans, q = trans[i].rpool
      PROVE  \E k \in DOMAIN trans' : q = trans'[k].rpool
  BY <1>2, <1>4
<1>5. ASSUME NEW r \in T!Ids, sub[r] = q, Linked(r) PROVE sub'[r] = q /\ Linked(r)'
  <2>1. PICK a \in T!Ids : r \in Elements(list[a])
    BY <1>5 DEF Linked
  <2>2. Child(a, r, q)
    BY <1>5, <2>1 DEF Child
  <2>3. a \notin T!Under[p]
    BY <1>1, <2>2, UnderFacts
  <2>4. r \in Elements(list'[a])
    BY <2>1, <2>3
  <2> QED
    BY <1>5, <2>4 DEF Linked, Shrinks
<1>6. sub' = sub
  BY DEF Shrinks
<1> QED
  BY <1>3, <1>4, <1>5, <1>6

\* The top of the stack is no sub-pool.
LEMMA StackTop ==
  ASSUME TransInv, trans # <<>>
  PROVE  /\ T!Top.rpool \in T!Ids /\ T!Top.rpool > 1 /\ Root(T!Top.rpool)
         /\ T!Top.rpool <= lastId /\ T!Top.rpool \in Elements(transMem)
         /\ \A r \in T!Ids : sub[r] # T!Top.rpool
         /\ T!Top \in TransRecord /\ T!Top = trans[Len(trans)] /\ Len(trans) \in DOMAIN trans
         /\ cur = T!Top.rpool
<1>1. /\ Len(trans) \in DOMAIN trans /\ T!Top = trans[Len(trans)] /\ T!Top.rpool \in T!Ids
      /\ T!Top \in TransRecord
  BY StackFacts
<1>2. /\ T!Top.rpool > 1 /\ \A r \in T!Ids : sub[r] # T!Top.rpool
      /\ T!Top.rpool <= lastId /\ T!Top.rpool \in Elements(transMem)
      /\ cur = T!Top.rpool
  BY <1>1 DEF TransInv, StackOK, KnownStack, MemoryOK
<1> QED
  BY <1>1, <1>2 DEF Root

\* What stays of the stack when its top is popped.
LEMMA OthersStay ==
  ASSUME TransInv, trans # <<>>, T!Pop
  PROVE  \A i \in DOMAIN trans : trans[i].rpool # T!Top.rpool =>
            \E k \in DOMAIN trans' : trans'[k].rpool = trans[i].rpool
<1> SUFFICES ASSUME NEW i \in DOMAIN trans, trans[i].rpool # T!Top.rpool
             PROVE  i \in DOMAIN trans' /\ trans'[i] = trans[i]
  OBVIOUS
<1>1. i # Len(trans) /\ i \in 1..Len(trans) /\ Len(trans) \in Nat
  BY StackTop, StackFacts
<1>2. i \in 1..(Len(trans) - 1)
  BY <1>1
<1> QED
  BY <1>2, PopFacts DEF T!Pop

\* trans_rollback and trans_caught.
LEMMA RolledBack ==
  ASSUME TransInv, trans # <<>>, flying = 0, T!RollbackTop
  PROVE  TransInv'
<1>1. /\ T!RpDelete(T!Top.rpool) /\ T!Pop /\ T!Drop /\ flying' = 0 /\ lastId' = lastId
  BY DEF T!RollbackTop
<1>2. T!Top.rpool \in T!Ids
  BY StackTop
<1>3. /\ ResInv' /\ Shrinks /\ temp' = temp
      /\ \A q \in T!Ids : list'[q] = IF q \in T!Under[T!Top.rpool] THEN <<>> ELSE list[q]
  BY <1>1, <1>2, RpDeleted
<1>4. StackTypes' /\ KnownStack' /\ StackOK' /\ Older' /\ MarksOK' /\ MemoryOK'
  BY <1>1, <1>3, PoppedStack
<1>5. Homes'
  BY <1>1, <1>2, <1>3, HomesDeleted, OthersStay
<1> QED
  BY <1>3, <1>4, <1>5 DEF TransInv

\* trans_commit.
LEMMA CommitKeeps ==
  ASSUME TransInv, T!Commit
  PROVE  TransInv'
<1> DEFINE p == T!Top.rpool
           new == T!FreedFrom(T!Freeing, T!Reverse(list[p]), temp)
           lost == {r \in Elements(list[p]) : r \notin temp /\ sub[r] = 0}
           kept == {q \in Elements(list[p]) \cap temp : sub[q] # 0}
           ps == {p} \cup UNION {T!Under[sub[r]] : r \in kept}
<1>1. /\ trans # <<>> /\ flying = 0 /\ T!RpCommit(p) /\ T!Pop /\ T!Drop
      /\ flying' = 0 /\ lastId' = lastId
  BY IdsFacts DEF T!Commit, T!InBody, T!Running
<1>2. \A s : T!ToSet(s) = Elements(s)
  BY DEF T!ToSet, Elements
<1>3. /\ freed' = freed \o new /\ detached' = detached \cup lost /\ list' = T!Emptied(ps)
      /\ UNCHANGED <<sub, temp, permPools, made>>
  BY <1>1, <1>2, IdsFacts DEF T!RpCommit
<1>4. p \in T!Ids /\ Elements(list[p]) \subseteq T!Ids /\ ResInv
  BY <1>1, StackTop, TreeFacts DEF TransInv
<1>5. /\ new \in Seq(T!Ids) /\ NoDuplicates(new)
      /\ \A x : x \in Elements(new) <=> \E r \in Elements(list[p]) : r \in temp /\ x \in Gone(r)
  BY <1>4, CommitFacts
<1> HIDE DEF p, new
<1>6. \A q : q \in ps <=>
               q = p \/ \E r \in Elements(list[p]) : r \in temp /\ sub[r] # 0 /\ q \in T!Under[sub[r]]
  OBVIOUS
<1> HIDE DEF ps
<1>7. ASSUME NEW r \in Elements(list[p]), sub[r] # 0
      PROVE  r \in T!Ids /\ sub[r] \in T!Ids /\ p < sub[r]
  <2>1. Child(p, r, sub[r])
    BY DEF Child
  <2> QED
    BY <1>4, <1>7, <2>1, TreeFacts
<1>8. ps \in SUBSET T!Ids
  BY <1>4, <1>6, <1>7, UnderRec
<1>9. lost \in SUBSET T!Ids
  BY <1>4
<1>10. Elements(new) \cap lost = {}
  <2> SUFFICES ASSUME NEW x \in Elements(new), x \in lost PROVE FALSE
    OBVIOUS
  <2>1. PICK r \in Elements(list[p]) : r \in temp /\ x \in Gone(r)
    BY <1>5
  <2>2. x \in Elements(list[p]) /\ x \notin temp
    OBVIOUS
  <2>3. sub[r] # 0
    BY <2>1, <2>2 DEF Gone
  <2>4. PICK q \in T!Under[sub[r]] : x \in Elements(list[q])
    BY <2>1, <2>3 DEF Gone, Objects
  <2>5. q \in T!Ids /\ q >= sub[r]
    BY <1>7, <2>3, UnderRec, UnderFacts
  <2>6. q # p
    BY <1>4, <1>7, <2>3, <2>5, IdsFacts
  <2> QED
    BY <1>4, <2>2, <2>4, <2>5, <2>6, TreeFacts
<1>11. \A x : x \in Elements(new) \cup lost <=> x \in Objects(ps)
  <2>1. ASSUME NEW x, x \in Elements(new) \cup lost PROVE x \in Objects(ps)
    <3>1. CASE x \in lost
      BY <1>4, <1>6, <3>1 DEF Objects
    <3>2. CASE x \in Elements(new)
      <4>1. PICK r \in Elements(list[p]) : r \in temp /\ x \in Gone(r)
        BY <1>5, <3>2
      <4>2. CASE sub[r] = 0
        BY <1>4, <1>6, <4>1, <4>2 DEF Gone, Objects
      <4>3. CASE sub[r] # 0
        BY <1>6, <4>1, <4>3 DEF Gone, Objects
      <4> QED
        BY <4>2, <4>3
    <3> QED
      BY <2>1, <3>1, <3>2
  <2>2. ASSUME NEW x, x \in Objects(ps) PROVE x \in Elements(new) \cup lost
    <3>1. PICK q \in ps : x \in Elements(list[q]) /\ sub[x] = 0 /\ x \in T!Ids
      BY <2>2 DEF Objects
    <3>2. CASE q = p
      <4>1. x \in temp => x \in Elements(new)
        BY <1>5, <3>1, <3>2 DEF Gone
      <4> QED
        BY <3>1, <3>2, <4>1
    <3>3. CASE q # p
      <4>1. PICK r \in Elements(list[p]) : r \in temp /\ sub[r] # 0 /\ q \in T!Under[sub[r]]
        BY <1>6, <3>1, <3>3
      <4>2. x \in Gone(r)
        BY <3>1, <4>1 DEF Gone, Objects
      <4> QED
        BY <1>5, <4>1, <4>2
    <3> QED
      BY <3>2, <3>3
  <2> QED
    BY <2>1, <2>2
<1> HIDE DEF lost
<1>12. ResInv'
  BY <1>1, <1>3, <1>4, <1>5, <1>8, <1>9, <1>10, <1>11, EmptyingRes
<1>13. Shrinks /\ \A q \in T!Ids : list'[q] = IF q \in ps THEN <<>> ELSE list[q]
  BY <1>3, <1>4, EmptiedFacts
<1>14. StackTypes' /\ KnownStack' /\ StackOK' /\ Older' /\ MarksOK' /\ MemoryOK'
  BY <1>1, <1>13, PoppedStack
<1>15. Homes'
  <2> SUFFICES ASSUME NEW q \in T!Ids, list'[q] # <<>>
               PROVE  \/ q = 1
                      \/ \E i \in DOMAIN trans' : q = trans'[i].rpool
                      \/ \E r \in T!Ids : sub'[r] = q /\ (Linked(r)' \/ r \notin temp')
    BY DEF Homes
  <2>1. q \notin ps /\ list[q] # <<>> /\ sub' = sub /\ temp' = temp
    BY <1>3, <1>13
  <2>2. \/ q = 1
        \/ \E i \in DOMAIN trans : q = trans[i].rpool
        \/ \E r \in T!Ids : sub[r] = q /\ (Linked(r) \/ r \notin temp)
    BY <2>1 DEF TransInv, Homes
  <2>3. ASSUME NEW i \in DOMAIN trans, q = trans[i].rpool
        PROVE  \E k \in DOMAIN trans' : q = trans'[k].rpool
    <3>1. q # T!Top.rpool
      BY <1>6, <2>1 DEF p
    <3> QED
      BY <1>1, <2>3, <3>1, OthersStay
  <2>4. ASSUME NEW r \in T!Ids, sub[r] = q, Linked(r), r \in temp PROVE Linked(r)'
    <3>1. PICK a \in T!Ids : r \in Elements(list[a])
      BY <2>4 DEF Linked
    <3>2. Child(a, r, q) /\ q # 0
      BY <2>4, <3>1, IdsFacts DEF Child
    <3>3. a # p
      <4> SUFFICES ASSUME a = p PROVE FALSE
        OBVIOUS
      <4>1. q \in T!Under[q]
        BY UnderRec
      <4> QED
        BY <1>6, <2>1, <2>4, <3>1, <3>2, <4>1
    <3>4. a \notin ps
      <4> SUFFICES ASSUME a \in ps PROVE FALSE
        OBVIOUS
      <4>1. PICK u \in Elements(list[p]) : u \in temp /\ sub[u] # 0 /\ a \in T!Under[sub[u]]
        BY <1>6, <3>3
      <4>2. q \in T!Under[sub[u]]
        BY <1>7, <3>2, <4>1, UnderFacts
      <4> QED
        BY <1>6, <2>1, <4>1, <4>2
    <3> QED
      BY <1>13, <3>1, <3>4 DEF Linked
  <2> QED
    BY <2>1, <2>2, <2>3, <2>4
<1> QED
  BY <1>12, <1>14, <1>15 DEF TransInv

\* The stack stays; the active pool may change outside of transactions and an
\* exception may be thrown again.
LEMMA SteadyStack ==
  ASSUME TransInv, Shrinks, UNCHANGED <<trans, transMem>>, lastId' \in T!Ids, lastId <= lastId',
         cur' = cur \/ (trans = <<>> /\ cur' \in {0, 1}),
         flying' = flying \/ \E i \in DOMAIN trans : flying' = trans[i].exc
  PROVE  StackTypes' /\ KnownStack' /\ StackOK' /\ Older' /\ MarksOK' /\ MemoryOK'
<1>0. /\ lastId \in Nat /\ lastId' \in Nat /\ transMem \in Seq(T!Ids)
      /\ Elements(transMem) \subseteq T!Ids /\ T!Ids \subseteq Nat /\ 1 \in 0..MaxId
  BY IdsFacts, ElementsType, SMTT(30) DEF TransInv, ResInv, ResTypes, StackTypes
<1>1. \A i \in DOMAIN trans : /\ trans[i].rpool \in Nat /\ trans[i].exc \in 0..MaxId
                              /\ trans[i].exc \in Nat
  BY StackFacts, IdsFacts
<1>2. sub' = sub /\ \A p \in T!Ids : Elements(list'[p]) \subseteq Elements(list[p])
  BY DEF Shrinks
<1>3. flying' \in 0..MaxId /\ flying' \in Nat /\ (flying' # 0 => flying' \in Elements(transMem) /\ trans # <<>>)
  <2>1. CASE flying' = flying
    BY <2>1, IdsFacts DEF TransInv, StackTypes, MemoryOK, StackOK
  <2>2. CASE \E i \in DOMAIN trans : flying' = trans[i].exc
    <3>1. PICK i \in DOMAIN trans : flying' = trans[i].exc
      BY <2>2
    <3>2. trans # <<>>
      BY <3>1
    <3> QED
      BY <1>1, <3>1, <3>2 DEF TransInv, MemoryOK
  <2> QED
    BY <2>1, <2>2
<1>4. StackTypes'
  <2>1. cur' \in 0..MaxId
    BY <1>0, IdsFacts DEF TransInv, StackTypes
  <2> QED
    BY <1>3, <2>1 DEF TransInv, StackTypes
<1>5. KnownStack'
  <2>1. \A r \in Elements(transMem) : 1 < r /\ r <= lastId'
    <3>1. \A r \in Elements(transMem) : 1 < r /\ r <= lastId
      BY DEF TransInv, KnownStack
    <3>2. \A r \in Elements(transMem) : r \in Nat
      BY <1>0
    <3> QED
      BY <1>0, <3>1, <3>2
  <2>2. \A i \in DOMAIN trans : trans[i].rpool <= lastId' /\ trans[i].exc <= lastId'
    BY <1>0, <1>1 DEF TransInv, KnownStack
  <2>3. flying' <= lastId'
    <3>1. flying' # 0 => flying' <= lastId'
      BY <1>3, <2>1
    <3> QED
      BY <1>0, <3>1
  <2> QED
    BY <2>1, <2>2, <2>3 DEF KnownStack
<1>6. StackOK'
  <2>1. /\ cur' = 0 \/ cur' = (IF trans = <<>> THEN 1 ELSE trans[Len(trans)].rpool)
        /\ trans # <<>> => cur' # 0
    BY DEF TransInv, StackOK
  <2> QED
    BY <1>2, <1>3, <2>1 DEF TransInv, StackOK
<1>7. Older'
  BY <1>2 DEF TransInv, Older
<1>8. MarksOK'
  BY DEF TransInv, MarksOK
<1>9. MemoryOK'
  <2>1. \A p \in Elements(transMem), r \in T!Ids :
          r \in Elements(list'[p]) => /\ r \in Elements(transMem)
                                      /\ sub[r] # 0 => sub[r] \in Elements(transMem)
    BY <1>0, <1>2 DEF TransInv, MemoryOK
  <2>2. \A i \in DOMAIN trans :
          /\ trans[i].rpool \in Elements(transMem)
          /\ trans[i].exc # 0 => trans[i].exc \in Elements(transMem)
    BY DEF TransInv, MemoryOK
  <2> QED
    BY <1>2, <1>3, <2>1, <2>2 DEF MemoryOK
<1> QED
  BY <1>4, <1>5, <1>6, <1>7, <1>8, <1>9

\* The pools keep their homes while no sub-pool is unlinked.
LEMMA HomesKept ==
  ASSUME TransInv, Shrinks, temp' = temp, trans' = trans,
         \A r \in T!Ids : sub[r] # 0 /\ Linked(r) => Linked(r)'
  PROVE  Homes'
<1>1. sub' = sub
  BY DEF Shrinks
<1>2. ASSUME NEW p \in T!Ids, list'[p] # <<>> PROVE list[p] # <<>>
  <2>1. list'[p] \in Seq(T!Ids) /\ list[p] \in Seq(T!Ids) /\ Elements(list'[p]) \subseteq Elements(list[p])
    BY DEF Shrinks, TransInv, ResInv, ResTypes
  <2>2. Elements(list'[p]) # {}
    BY <1>2, <2>1, ElementsType
  <2> QED
    BY <2>1, <2>2, EmptyFacts
<1>3. ASSUME NEW p \in T!Ids, list'[p] # <<>>
      PROVE  \/ p = 1
             \/ \E i \in DOMAIN trans : p = trans[i].rpool
             \/ \E q \in T!Ids : sub[q] = p /\ (Linked(q)' \/ q \notin temp)
  <2>1. \/ p = 1
        \/ \E i \in DOMAIN trans : p = trans[i].rpool
        \/ \E q \in T!Ids : sub[q] = p /\ (Linked(q) \/ q \notin temp)
    BY <1>2, <1>3 DEF TransInv, Homes
  <2>2. p # 0
    BY IdsFacts
  <2> QED
    BY <2>1, <2>2
<1> QED
  BY <1>1, <1>3 DEF Homes

\* res_free and res_detach of an object.
LEMMA TouchKeeps ==
  ASSUME TransInv, NEW r \in T!Held, T!Free(r) \/ T!Detach(r) \/ T!MarkPermanent(r)
  PROVE  TransInv'
<1>0. \A s : T!ToSet(s) = Elements(s)
  BY DEF T!ToSet, Elements
<1>1. r \in made /\ Linked(r)
  BY <1>0 DEF T!Held, Linked
<1>2. UNCHANGED <<trans, flying, cur, transMem, lastId, sub, temp, permPools, made>>
  BY DEF T!Free, T!Detach, T!MarkPermanent
<1>3. ResInv /\ lastId' \in T!Ids /\ lastId <= lastId' /\ permPools' \subseteq T!Ids /\ sub[r] = 0
  <2>1. ResInv /\ lastId \in T!Ids /\ permPools \subseteq T!Ids
    BY DEF TransInv, ResInv, ResTypes
  <2>2. sub[r] = 0
    BY <1>1, <2>1 DEF ResInv, ObjectsOK
  <2> QED
    BY <1>2, <2>1, <2>2, IdsFacts
<1>4. CASE T!Free(r) \/ T!Detach(r)
  <2>1. /\ list' = T!Unlinked(r)
        /\ \/ freed' = Append(freed, r) /\ detached' = detached
           \/ freed' = freed /\ detached' = detached \cup {r}
    BY <1>4 DEF T!Free, T!Detach
  <2>2. ResInv'
    BY <1>1, <1>2, <1>3, <2>1, UnlinkRes
  <2>3. Shrinks /\ \A p \in T!Ids : Elements(list'[p]) = Elements(list[p]) \ {r}
    BY <1>2, <1>3, <2>1, UnlinkedFacts
  <2>4. StackTypes' /\ KnownStack' /\ StackOK' /\ Older' /\ MarksOK' /\ MemoryOK'
    BY <1>2, <1>3, <2>3, SteadyStack
  <2>5. \A x \in T!Ids : sub[x] # 0 /\ Linked(x) => Linked(x)'
    BY <1>3, <2>3 DEF Linked
  <2>6. Homes'
    BY <1>2, <2>3, <2>5, HomesKept
  <2> QED
    BY <2>2, <2>4, <2>6 DEF TransInv
<1>5. CASE T!MarkPermanent(r)
  <2>1. UNCHANGED <<list, freed, detached>>
    BY <1>5 DEF T!MarkPermanent
  <2>2. ResInv'
    BY <1>2, <1>3, <2>1, SameRes
  <2>3. Shrinks
    BY <1>2, <1>3, <2>1 DEF Shrinks, ResInv, ResTypes, PoolTree, AgeOrder
  <2>4. StackTypes' /\ KnownStack' /\ StackOK' /\ Older' /\ MarksOK' /\ MemoryOK'
    BY <1>2, <1>3, <2>3, SteadyStack
  <2>5. Homes'
    <3>1. \A x \in T!Ids : sub[x] # 0 /\ Linked(x) => Linked(x)'
      BY <2>1 DEF Linked
    <3> QED
      BY <1>2, <2>3, <3>1, HomesKept
  <2> QED
    BY <2>2, <2>4, <2>5 DEF TransInv
<1> QED
  BY <1>4, <1>5

\* Steps which leave the resources and the stack alone.
LEMMA QuietKeeps ==
  ASSUME TransInv, UNCHANGED <<trans, transMem, list, sub, temp, made, freed, detached>>,
         lastId' \in T!Ids, lastId <= lastId', permPools' \subseteq T!Ids,
         cur' = cur \/ (trans = <<>> /\ cur' \in {0, 1}),
         flying' = flying \/ \E i \in DOMAIN trans : flying' = trans[i].exc
  PROVE  TransInv'
<1>1. ResInv
  BY DEF TransInv
<1>2. ResInv'
  BY <1>1, SameRes
<1>3. Shrinks
  BY <1>1 DEF Shrinks, ResInv, ResTypes, PoolTree, AgeOrder
<1>4. StackTypes' /\ KnownStack' /\ StackOK' /\ Older' /\ MarksOK' /\ MemoryOK'
  BY <1>3, SteadyStack
<1>5. Homes'
  <2>1. \A x \in T!Ids : sub[x] # 0 /\ Linked(x) => Linked(x)'
    BY DEF Linked
  <2> QED
    BY <1>3, <2>1, HomesKept
<1> QED
  BY <1>2, <1>4, <1>5 DEF TransInv

\* rp_delete of the pool of the program.
LEMMA DeleteExtKeeps ==
  ASSUME TransInv, T!DeleteExt
  PROVE  TransInv'
<1>1. /\ trans = <<>> /\ T!RpDelete(1) /\ cur' = 0 /\ UNCHANGED <<trans, flying, transMem, lastId>>
  BY IdsFacts DEF T!DeleteExt
<1>2. 1 \in T!Ids /\ lastId' \in T!Ids /\ lastId <= lastId'
  BY <1>1, IdsFacts DEF TransInv, ResInv, ResTypes
<1>3. /\ ResInv' /\ Shrinks /\ temp' = temp
      /\ \A q \in T!Ids : list'[q] = IF q \in T!Under[1] THEN <<>> ELSE list[q]
  BY <1>1, <1>2, RpDeleted
<1>4. StackTypes' /\ KnownStack' /\ StackOK' /\ Older' /\ MarksOK' /\ MemoryOK'
  BY <1>1, <1>2, <1>3, SteadyStack
<1>5. Homes'
  <2>1. \A i \in DOMAIN trans : trans[i].rpool # 1 =>
          \E k \in DOMAIN trans' : trans'[k].rpool = trans[i].rpool
    BY <1>1
  <2> QED
    BY <1>2, <1>3, <2>1, HomesDeleted
<1> QED
  BY <1>3, <1>4, <1>5 DEF TransInv

\* Memory grows by the next identifier.
LEMMA MemGrows ==
  ASSUME TransInv, lastId' = lastId + 1, lastId' \in T!Ids, transMem' = Append(transMem, lastId')
  PROVE  /\ transMem' \in Seq(T!Ids) /\ Elements(transMem') = Elements(transMem) \cup {lastId'}
         /\ \A r \in Elements(transMem') : 1 < r /\ r <= lastId'
         /\ \A t \in TransRecord : MarkOK(t, transMem) /\ t.rpool <= lastId' => MarkOK(t, transMem')
         /\ \A t \in TransRecord : t.mark = Len(transMem) /\ t.rpool = lastId' => MarkOK(t, transMem')
<1> DEFINE n == lastId'
<1>1. transMem \in Seq(T!Ids) /\ lastId \in T!Ids /\ Elements(transMem) \subseteq T!Ids
  BY ElementsType DEF TransInv, StackTypes, ResInv, ResTypes
<1>2. /\ DOMAIN transMem' = 1..(Len(transMem) + 1) /\ DOMAIN transMem = 1..Len(transMem)
      /\ Len(transMem) \in Nat /\ Len(transMem') = Len(transMem) + 1
      /\ \A k \in 1..Len(transMem) : transMem'[k] = transMem[k] /\ transMem[k] \in T!Ids
      /\ transMem'[Len(transMem) + 1] = n
  BY <1>1
<1>3. transMem' \in Seq(T!Ids) /\ Elements(transMem') = Elements(transMem) \cup {n}
  BY <1>1, AppendFacts
<1>4. /\ \A r \in Elements(transMem) : 1 < r /\ r <= lastId
      /\ \A k \in 1..Len(transMem) : transMem[k] <= lastId /\ transMem[k] \in Nat
  <2>1. \A r \in Elements(transMem) : 1 < r /\ r <= lastId
    BY DEF TransInv, KnownStack
  <2>2. \A k \in 1..Len(transMem) : transMem[k] \in Elements(transMem)
    BY <1>2 DEF Elements
  <2> QED
    BY <1>2, <2>1, <2>2, IdsFacts
<1>5. n = lastId + 1 /\ lastId \in Nat /\ lastId >= 1
  BY <1>1, IdsFacts
<1>6. \A r \in Elements(transMem') : 1 < r /\ r <= n
  <2>1. \A r \in Elements(transMem) : r \in Nat
    BY <1>1, IdsFacts
  <2> QED
    BY <1>3, <1>4, <1>5, <2>1
<1> HIDE DEF n
<1>7. ASSUME NEW t \in TransRecord, MarkOK(t, transMem), t.rpool <= n PROVE MarkOK(t, transMem')
  <2>1. t.mark \in Nat /\ t.rpool \in Nat
    BY IdsFacts DEF TransRecord
  <2>2. ASSUME NEW k \in DOMAIN transMem' PROVE k <= t.mark <=> transMem'[k] < t.rpool
    <3>1. CASE k \in 1..Len(transMem)
      BY <1>2, <1>7, <3>1 DEF MarkOK
    <3>2. CASE k = Len(transMem) + 1
      BY <1>2, <1>5, <1>7, <2>1, <3>2 DEF MarkOK
    <3> QED
      BY <1>2, <3>1, <3>2
  <2> QED
    BY <1>2, <1>7, <2>1, <2>2 DEF MarkOK
<1>8. ASSUME NEW t \in TransRecord, t.mark = Len(transMem), t.rpool = n PROVE MarkOK(t, transMem')
  <2>1. ASSUME NEW k \in DOMAIN transMem' PROVE k <= t.mark <=> transMem'[k] < t.rpool
    <3>1. CASE k \in 1..Len(transMem)
      BY <1>2, <1>4, <1>5, <1>8, <3>1
    <3>2. CASE k = Len(transMem) + 1
      BY <1>2, <1>5, <1>8, <3>2
    <3> QED
      BY <1>2, <3>1, <3>2
  <2> QED
    BY <1>2, <1>8, <2>1 DEF MarkOK
<1> QED
  BY <1>3, <1>6, <1>7, <1>8 DEF n

\* A resource is added to the youngest of the pools on the stack.
LEMMA AddedStack ==
  ASSUME TransInv, NEW p, NEW s, MayAdd(p, s), T!ResNew(p, s), flying' = flying,
         p = 1 \/ p \in Elements(transMem), s # 0 => s \in Elements(transMem),
         \A i \in DOMAIN trans' : /\ i \in DOMAIN trans /\ trans'[i] = trans[i]
                                  /\ trans'[i].rpool <= p
  PROVE  transMem' \in Seq(T!Ids) /\ KnownStack' /\ Older' /\ MarksOK' /\ MemoryOK'
<1> DEFINE n == lastId'
<1>0. ResInv /\ p \in T!Ids
  BY DEF TransInv, MayAdd
<1>1. /\ n = lastId + 1 /\ n \in T!Ids /\ sub[n] = 0
      /\ Elements(list'[p]) = Elements(list[p]) \cup {n}
      /\ \A q \in T!Ids : q # p => list'[q] = list[q]
      /\ \A q \in T!Ids : n \notin Elements(list[q])
      /\ sub'[n] = s /\ \A r \in T!Ids : r # n => sub'[r] = sub[r]
  BY <1>0, AddedFacts
<1>2. transMem' = IF p = 1 THEN transMem ELSE Append(transMem, n)
  BY IdsFacts DEF T!ResNew
<1>3. n = lastId + 1 /\ lastId \in Nat
  BY <1>0, <1>1, IdsFacts DEF ResInv, ResTypes
<1>4. /\ transMem' \in Seq(T!Ids) /\ Elements(transMem) \subseteq Elements(transMem')
      /\ \A r \in Elements(transMem') : 1 < r /\ r <= n
      /\ \A i \in DOMAIN trans' : MarkOK(trans[i], transMem')
      /\ p # 1 => n \in Elements(transMem')
      /\ \A r \in Elements(transMem') : r \in Elements(transMem) \/ r = n
  <2>1. \A i \in DOMAIN trans' : /\ MarkOK(trans[i], transMem) /\ trans[i] \in TransRecord
                                 /\ trans[i].rpool <= lastId /\ trans[i].rpool \in Nat
    BY StackFacts, IdsFacts DEF TransInv, MarksOK, KnownStack
  <2>2. \A i \in DOMAIN trans' : trans[i].rpool <= n
    BY <1>3, <2>1
  <2>3. CASE p = 1
    <3>1. transMem' = transMem /\ transMem \in Seq(T!Ids)
      BY <1>2, <2>3 DEF TransInv, StackTypes
    <3>2. \A r \in Elements(transMem) : 1 < r /\ r <= lastId /\ r \in Nat
      <4>1. Elements(transMem) \subseteq Nat
        BY <3>1, ElementsType, IdsFacts
      <4> QED
        BY <4>1 DEF TransInv, KnownStack
    <3>3. \A r \in Elements(transMem) : 1 < r /\ r <= n
      BY <1>3, <3>2
    <3> QED
      BY <2>1, <2>3, <3>1, <3>3
  <2>4. CASE p # 1
    <3>1. transMem' = Append(transMem, n)
      BY <1>2, <2>4
    <3>2. /\ transMem' \in Seq(T!Ids) /\ Elements(transMem') = Elements(transMem) \cup {n}
          /\ \A r \in Elements(transMem') : 1 < r /\ r <= n
          /\ \A t \in TransRecord : MarkOK(t, transMem) /\ t.rpool <= n => MarkOK(t, transMem')
      BY <1>1, <3>1, MemGrows
    <3> QED
      BY <2>1, <2>2, <3>2
  <2> QED
    BY <2>3, <2>4
<1> HIDE DEF n
<1>5. KnownStack'
  <2>1. \A i \in DOMAIN trans' : trans'[i].rpool <= n /\ trans'[i].exc <= n
    <3>1. \A i \in DOMAIN trans' : /\ trans[i].rpool <= lastId /\ trans[i].rpool \in Nat
                                   /\ trans[i].exc <= lastId /\ trans[i].exc \in Nat
      BY StackFacts, IdsFacts DEF TransInv, KnownStack
    <3> QED
      BY <1>3, <3>1
  <2>2. flying' <= n
    <3>1. flying <= lastId /\ flying \in Nat
      BY IdsFacts DEF TransInv, KnownStack, StackTypes
    <3> QED
      BY <1>3, <3>1
  <2> QED
    BY <1>4, <2>1, <2>2 DEF KnownStack, n
<1>6. Older'
  <2> SUFFICES ASSUME NEW i \in DOMAIN trans', NEW q \in T!Ids, q < trans'[i].rpool,
                      NEW r \in Elements(list'[q])
               PROVE  r < trans'[i].rpool
    BY DEF Older
  <2>1. i \in DOMAIN trans /\ trans'[i] = trans[i] /\ trans[i].rpool <= p /\ trans[i].rpool \in T!Ids
    BY StackFacts
  <2>2. q # p
    BY <1>0, <2>1, IdsFacts
  <2>3. r \in Elements(list[q])
    BY <1>1, <2>2
  <2> QED
    BY <2>1, <2>3 DEF TransInv, Older
<1>7. MarksOK'
  BY <1>4 DEF MarksOK
<1>8. MemoryOK'
  <2>1. \A i \in DOMAIN trans' :
          /\ trans'[i].rpool \in Elements(transMem')
          /\ trans'[i].exc # 0 => trans'[i].exc \in Elements(transMem')
    BY <1>4 DEF TransInv, MemoryOK
  <2>2. flying' # 0 => flying' \in Elements(transMem')
    BY <1>4 DEF TransInv, MemoryOK
  <2>3. ASSUME NEW q \in Elements(transMem'), NEW r \in T!Ids, r \in Elements(list'[q])
        PROVE  r \in Elements(transMem') /\ (sub'[r] # 0 => sub'[r] \in Elements(transMem'))
    <3>0. q \in T!Ids /\ q # 1 /\ q \in Nat
      <4>1. q \in T!Ids
        BY <1>4, <2>3, ElementsType
      <4>2. 1 < q
        BY <1>4, <2>3
      <4> QED
        BY <4>1, <4>2, IdsFacts
    <3>1. CASE r = n
      <4>1. q = p
        BY <1>1, <2>3, <3>0, <3>1
      <4> QED
        BY <1>1, <1>4, <3>0, <3>1, <4>1
    <3>2. CASE r # n
      <4>1. r \in Elements(list[q])
        BY <1>1, <2>3, <3>0, <3>2
      <4>2. q # n
        <5> SUFFICES ASSUME q = n PROVE FALSE
          OBVIOUS
        <5>1. q < r /\ r <= lastId /\ r \in Nat
          BY <3>0, <4>1, IdsFacts DEF TransInv, ResInv, KnownIds
        <5> QED
          BY <1>3, <5>1
      <4>3. q \in Elements(transMem)
        BY <1>4, <2>3, <4>2
      <4>4. r \in Elements(transMem) /\ (sub[r] # 0 => sub[r] \in Elements(transMem))
        BY <4>1, <4>3 DEF TransInv, MemoryOK
      <4> QED
        BY <1>1, <1>4, <3>2, <4>4
    <3> QED
      BY <3>1, <3>2
  <2> QED
    BY <2>1, <2>2, <2>3 DEF MemoryOK
<1> QED
  BY <1>4, <1>5, <1>6, <1>7, <1>8

\* The homes of the pools when the pool p gets a resource.
LEMMA HomesAdded ==
  ASSUME TransInv, NEW p, NEW s, MayAdd(p, s), T!ResNew(p, s),
         p = 1 \/ \E k \in DOMAIN trans' : trans'[k].rpool = p,
         \A i \in DOMAIN trans : \/ trans[i].rpool = s
                                 \/ \E k \in DOMAIN trans' : trans'[k].rpool = trans[i].rpool
  PROVE  Homes'
<1> DEFINE n == lastId'
<1>0. ResInv /\ p \in T!Ids
  BY DEF TransInv, MayAdd
<1>1. /\ n \in T!Ids /\ sub[n] = 0
      /\ \A q \in T!Ids : q # p => list'[q] = list[q]
      /\ sub'[n] = s /\ \A r \in T!Ids : r # n => sub'[r] = sub[r]
      /\ \A r \in T!Ids : (Linked(r)' <=> Linked(r) \/ r = n)
  BY <1>0, AddedFacts
<1>2. \A r : r \in temp' => r \in temp \/ r = n
  BY DEF T!ResNew
<1> HIDE DEF n
<1> SUFFICES ASSUME NEW q \in T!Ids, list'[q] # <<>>
             PROVE  \/ q = 1
                    \/ \E i \in DOMAIN trans' : q = trans'[i].rpool
                    \/ \E r \in T!Ids : sub'[r] = q /\ (Linked(r)' \/ r \notin temp')
  BY DEF Homes
<1>3. CASE q = p
  BY <1>3
<1>4. CASE q # p
  <2>1. \/ q = 1
        \/ \E i \in DOMAIN trans : q = trans[i].rpool
        \/ \E r \in T!Ids : sub[r] = q /\ (Linked(r) \/ r \notin temp)
    BY <1>1, <1>4 DEF TransInv, Homes
  <2>2. ASSUME NEW r \in T!Ids, sub[r] = q, Linked(r) \/ r \notin temp
        PROVE  sub'[r] = q /\ (Linked(r)' \/ r \notin temp')
    <3>1. r # n
      BY <1>1, <2>2, IdsFacts
    <3> QED
      BY <1>1, <1>2, <2>2, <3>1
  <2>3. CASE q = s
    BY <1>1, <2>3
  <2>4. CASE q # s
    BY <2>1, <2>2, <2>4
  <2> QED
    BY <2>3, <2>4
<1> QED
  BY <1>3, <1>4

\* res_new in the active pool.
LEMMA CreateKeeps ==
  ASSUME TransInv, T!Create
  PROVE  TransInv'
<1>1. /\ cur # 0 /\ lastId < MaxId /\ T!ResNew(cur, 0)
      /\ UNCHANGED <<trans, flying, cur, permPools, freed, detached>>
  BY IdsFacts DEF T!Create, T!CanAlloc
<1>0. ResInv /\ lastId \in T!Ids /\ T!Ids \subseteq Nat /\ 1 \in T!Ids /\ T!Ids = 1..MaxId
  BY IdsFacts DEF TransInv, ResInv, ResTypes
<1>2. \/ trans = <<>> /\ cur = 1
      \/ trans # <<>> /\ cur = T!Top.rpool
  BY <1>1, StackTop DEF TransInv, StackOK
<1>3. \A r \in T!Ids : sub[r] # 1
  <2>1. \A r \in T!Ids : sub[r] # 0 => 1 < sub[r]
    BY <1>0 DEF ResInv, KnownIds
  <2> QED
    BY <2>1
<1>4. MayAdd(cur, 0)
  <2>1. CASE trans = <<>>
    BY <1>0, <1>1, <1>2, <1>3, <2>1 DEF MayAdd
  <2>2. CASE trans # <<>>
    BY <1>1, <1>2, <2>2, StackTop DEF MayAdd
  <2> QED
    BY <2>1, <2>2
<1>5. ResInv'
  BY <1>0, <1>1, <1>4, AddRes
<1>6. cur = 1 \/ cur \in Elements(transMem)
  BY <1>2, StackTop
<1>7. \A i \in DOMAIN trans : trans[i].rpool <= cur
  <2> SUFFICES ASSUME NEW i \in DOMAIN trans PROVE trans[i].rpool <= cur
    OBVIOUS
  <2>1. trans # <<>> /\ cur = T!Top.rpool /\ T!Top = trans[Len(trans)] /\ Len(trans) \in DOMAIN trans
    BY <1>2, StackTop
  <2>2. i \in Nat /\ Len(trans) \in Nat /\ i <= Len(trans)
    BY StackFacts
  <2>3. CASE i = Len(trans)
    BY <1>0, <2>1, <2>3, StackTop
  <2>4. CASE i < Len(trans)
    <3>1. trans[i].rpool < trans[Len(trans)].rpool
      BY <2>1, <2>4 DEF TransInv, StackOK
    <3>2. trans[i].rpool \in Nat /\ cur \in Nat
      BY <1>0, <2>1, StackFacts
    <3> QED
      BY <2>1, <3>1, <3>2
  <2> QED
    BY <2>2, <2>3, <2>4
<1>8. transMem' \in Seq(T!Ids) /\ KnownStack' /\ Older' /\ MarksOK' /\ MemoryOK'
  <2>1. \A i \in DOMAIN trans' : /\ i \in DOMAIN trans /\ trans'[i] = trans[i]
                                 /\ trans'[i].rpool <= cur
    BY <1>1, <1>7
  <2> QED
    BY <1>1, <1>4, <1>6, <2>1, AddedStack
<1>9. StackTypes'
  BY <1>1, <1>8 DEF TransInv, StackTypes
<1>10. StackOK'
  <2>1. \A r \in T!Ids : sub'[r] = sub[r]
    <3>1. /\ sub'[lastId'] = 0 /\ sub[lastId'] = 0 /\ lastId' \in T!Ids
          /\ \A r \in T!Ids : r # lastId' => sub'[r] = sub[r]
      BY <1>0, <1>1, <1>4, AddedFacts
    <3> QED
      BY <3>1
  <2>2. \A i \in DOMAIN trans : \A r \in T!Ids : sub'[r] # trans[i].rpool
    BY <2>1 DEF TransInv, StackOK
  <2> QED
    BY <1>1, <2>2 DEF TransInv, StackOK
<1>11. Homes'
  <2>1. cur = 1 \/ \E k \in DOMAIN trans' : trans'[k].rpool = cur
    BY <1>1, <1>2, StackTop
  <2>2. \A i \in DOMAIN trans : \/ trans[i].rpool = 0
                                \/ \E k \in DOMAIN trans' : trans'[k].rpool = trans[i].rpool
    BY <1>1
  <2> QED
    BY <1>1, <1>4, <2>1, <2>2, HomesAdded
<1> QED
  BY <1>5, <1>8, <1>9, <1>10, <1>11 DEF TransInv

\* trans_fold.
LEMMA FoldKeeps ==
  ASSUME TransInv, trans # <<>>, T!FoldTop, flying' = flying
  PROVE  TransInv'
<1> DEFINE p == T!Top.prev
           s == T!Top.rpool
<1>1. /\ Len(trans) > 1 /\ lastId < MaxId /\ T!Pop /\ T!ResNew(p, s)
      /\ UNCHANGED <<permPools, freed, detached>> /\ cur' = p /\ trans' = T!Front(trans)
  BY DEF T!FoldTop, T!CanAlloc, T!Pop
<1>0. ResInv /\ lastId \in T!Ids /\ T!Ids \subseteq Nat
  BY IdsFacts DEF TransInv, ResInv, ResTypes
<1>2. /\ DOMAIN trans = 1..Len(trans) /\ Len(trans) \in Nat
      /\ Len(trans) \in DOMAIN trans /\ T!Top = trans[Len(trans)]
      /\ \A i \in DOMAIN trans : trans[i].rpool \in T!Ids
  BY StackFacts
<1>3. Len(trans) - 1 \in DOMAIN trans
  BY <1>1, <1>2
<1>4. p = trans[Len(trans) - 1].rpool
  BY <1>1, <1>2 DEF TransInv, StackOK
<1>5. /\ p \in T!Ids /\ p > 1 /\ p <= lastId /\ p \in Elements(transMem) /\ p < s
      /\ \A r \in T!Ids : sub[r] # p
  <2>1. Len(trans) - 1 < Len(trans)
    BY <1>2
  <2> QED
    BY <1>2, <1>3, <1>4, <2>1 DEF TransInv, StackOK, KnownStack, MemoryOK
<1>6. /\ s \in T!Ids /\ s <= lastId /\ s \in Elements(transMem) /\ s # 0
      /\ \A r \in T!Ids : sub[r] # s
  <2>1. /\ s \in T!Ids /\ s <= lastId /\ s \in Elements(transMem)
        /\ \A r \in T!Ids : sub[r] # s
    BY StackTop
  <2> QED
    BY <2>1, IdsFacts
<1>7. \A r \in Elements(list[p]) : r < s
  BY <1>2, <1>5 DEF TransInv, Older
<1>8. MayAdd(p, s)
  <2>1. p # 1
    BY <1>0, <1>5
  <2> QED
    BY <1>1, <1>5, <1>6, <1>7, <2>1 DEF MayAdd
<1>9. /\ trans' \in Seq(TransRecord) /\ Len(trans') = Len(trans) - 1
      /\ DOMAIN trans' = 1..(Len(trans) - 1)
      /\ \A i \in DOMAIN trans' : /\ i \in DOMAIN trans /\ i < Len(trans) /\ i \in Nat
                                  /\ trans'[i] = trans[i]
                                  /\ trans[i].rpool < s /\ trans[i].exc < s
      /\ trans' # <<>> /\ trans'[Len(trans')] = trans[Len(trans) - 1]
  BY <1>1, PopFacts
<1> HIDE DEF p, s
<1>10. ResInv'
  BY <1>0, <1>1, <1>8, AddRes
<1>11. \A i \in DOMAIN trans' : trans'[i].rpool <= p
  <2> SUFFICES ASSUME NEW i \in DOMAIN trans' PROVE trans[i].rpool <= p
    BY <1>9
  <2>0. i \in DOMAIN trans /\ i \in Nat /\ i <= Len(trans) - 1
    BY <1>2, <1>9
  <2>1. trans[i].rpool \in Nat /\ p \in Nat
    BY <1>0, <1>2, <1>5, <2>0
  <2>2. CASE i = Len(trans) - 1
    BY <1>4, <2>1, <2>2
  <2>3. CASE i < Len(trans) - 1
    <3>1. trans[i].rpool < p
      BY <1>3, <1>4, <2>0, <2>3 DEF TransInv, StackOK
    <3> QED
      BY <2>1, <3>1
  <2> QED
    BY <1>2, <2>0, <2>2, <2>3
<1>12. transMem' \in Seq(T!Ids) /\ KnownStack' /\ Older' /\ MarksOK' /\ MemoryOK'
  <2>1. \A i \in DOMAIN trans' : /\ i \in DOMAIN trans /\ trans'[i] = trans[i]
                                 /\ trans'[i].rpool <= p
    BY <1>9, <1>11
  <2> QED
    BY <1>1, <1>5, <1>6, <1>8, <2>1, AddedStack
<1>13. StackTypes'
  BY <1>1, <1>5, <1>9, <1>12, IdsFacts DEF TransInv, StackTypes
<1>14. StackOK'
  <2>1. /\ sub'[lastId'] = s /\ lastId' \in T!Ids
        /\ \A r \in T!Ids : r # lastId' => sub'[r] = sub[r]
    BY <1>0, <1>1, <1>8, AddedFacts
  <2>2. ASSUME NEW i \in DOMAIN trans'
        PROVE  /\ trans'[i].rpool > 1 /\ \A r \in T!Ids : sub'[r] # trans'[i].rpool
               /\ i = 1 => trans'[i].prev \in {0, 1}
               /\ i > 1 => trans'[i].prev = trans'[i - 1].rpool
    <3>1. i \in DOMAIN trans /\ i \in Nat /\ trans'[i] = trans[i] /\ trans[i].rpool < s
      BY <1>9
    <3>2. /\ trans[i].rpool > 1 /\ \A r \in T!Ids : sub[r] # trans[i].rpool
          /\ i = 1 => trans[i].prev \in {0, 1}
          /\ i > 1 => trans[i].prev = trans[i - 1].rpool
      BY <3>1 DEF TransInv, StackOK
    <3>3. i > 1 => i - 1 \in DOMAIN trans'
      BY <1>2, <1>9
    <3>4. trans[i].rpool # s
      BY <1>0, <1>2, <1>6, <3>1
    <3> QED
      BY <1>9, <2>1, <3>1, <3>2, <3>3, <3>4
  <2>3. \A i, k \in DOMAIN trans' : i < k => /\ trans'[i].rpool < trans'[k].rpool
                                             /\ trans'[i].exc < trans'[k].rpool
    BY <1>9 DEF TransInv, StackOK
  <2>4. cur' = trans'[Len(trans')].rpool /\ cur' # 0 /\ trans' # <<>>
    BY <1>1, <1>4, <1>5, <1>9, IdsFacts
  <2> QED
    BY <2>2, <2>3, <2>4 DEF StackOK
<1>15. Homes'
  <2>1. \E k \in DOMAIN trans' : trans'[k].rpool = p
    <3>1. Len(trans) - 1 \in DOMAIN trans'
      BY <1>1, <1>2, <1>9
    <3> QED
      BY <1>4, <1>9, <3>1
  <2>2. \A i \in DOMAIN trans : \/ trans[i].rpool = s
                                \/ \E k \in DOMAIN trans' : trans'[k].rpool = trans[i].rpool
    BY <1>1, OthersStay DEF s
  <2> QED
    BY <1>1, <1>8, <2>1, <2>2, HomesAdded
<1> QED
  BY <1>10, <1>12, <1>13, <1>14, <1>15 DEF TransInv

\* A step that leaves the lists and puts one more thing into memory.
LEMMA AllocFacts ==
  ASSUME TransInv, lastId < MaxId, lastId' = lastId + 1,
         UNCHANGED <<list, sub, temp, permPools, made, freed, detached>>
  PROVE  /\ lastId' \in T!Ids /\ lastId \in Nat /\ lastId' > 1 /\ ResInv' /\ Shrinks
         /\ \A r \in T!Ids : Linked(r)' <=> Linked(r)
         /\ \A r \in T!Ids : r <= lastId => r < lastId'
<1>1. ResInv /\ lastId \in T!Ids /\ permPools \subseteq T!Ids
  BY DEF TransInv, ResInv, ResTypes
<1>2. lastId' \in T!Ids /\ lastId <= lastId' /\ lastId \in Nat /\ lastId' > 1
  BY <1>1, IdsFacts
<1>3. ResInv'
  BY <1>1, <1>2, SameRes
<1>4. Shrinks
  BY <1>1 DEF Shrinks, ResInv, ResTypes, PoolTree, AgeOrder
<1>5. \A r \in T!Ids : Linked(r)' <=> Linked(r)
  BY DEF Linked
<1>6. \A r \in T!Ids : r <= lastId => r < lastId'
  BY <1>2, IdsFacts
<1> QED
  BY <1>2, <1>3, <1>4, <1>5, <1>6

\* What is in memory still refers to what is in memory.
LEMMA MemoryGrown ==
  ASSUME TransInv, lastId' = lastId + 1, lastId' \in T!Ids,
         transMem' = Append(transMem, lastId'), UNCHANGED <<list, sub>>
  PROVE  \A p \in Elements(transMem'), r \in T!Ids :
           r \in Elements(list'[p]) => /\ r \in Elements(transMem')
                                       /\ sub'[r] # 0 => sub'[r] \in Elements(transMem')
<1>1. Elements(transMem') = Elements(transMem) \cup {lastId'}
  BY MemGrows
<1>2. lastId \in T!Ids /\ \A r \in Elements(list[lastId']) : lastId' < r /\ r <= lastId /\ r \in T!Ids
  BY ListType DEF TransInv, ResInv, ResTypes, KnownIds
<1>3. Elements(list[lastId']) = {}
  <2>1. \A r \in T!Ids : ~(lastId' < r /\ r <= lastId)
    BY <1>2, IdsFacts
  <2> QED
    BY <1>2, <2>1
<1> QED
  BY <1>1, <1>3 DEF TransInv, MemoryOK

\* trans_open.
LEMMA OpenKeeps ==
  ASSUME TransInv, T!Open
  PROVE  TransInv'
<1> DEFINE n == lastId'
           t == [rpool |-> n, prev |-> cur, exc |-> 0, mark |-> Len(transMem)]
<1>1. /\ lastId < MaxId /\ lastId' = lastId + 1 /\ flying = 0 /\ flying' = 0
      /\ trans' = Append(trans, t) /\ transMem' = Append(transMem, n) /\ cur' = n
      /\ UNCHANGED <<list, sub, temp, permPools, made, freed, detached>>
  BY IdsFacts DEF T!Open, T!CanAlloc, T!NewId, T!Running, T!resVars
<1>2. /\ n \in T!Ids /\ lastId \in Nat /\ n > 1 /\ ResInv' /\ Shrinks
      /\ \A r \in T!Ids : Linked(r)' <=> Linked(r)
      /\ \A r \in T!Ids : r <= lastId => r < n
  BY <1>1, AllocFacts
<1>3. /\ transMem' \in Seq(T!Ids) /\ Elements(transMem') = Elements(transMem) \cup {n}
      /\ \A r \in Elements(transMem') : 1 < r /\ r <= n
      /\ \A u \in TransRecord : MarkOK(u, transMem) /\ u.rpool <= n => MarkOK(u, transMem')
      /\ \A u \in TransRecord : u.mark = Len(transMem) /\ u.rpool = n => MarkOK(u, transMem')
  BY <1>1, <1>2, MemGrows
<1>4. t \in TransRecord /\ t.rpool = n /\ t.prev = cur /\ t.exc = 0 /\ t.mark = Len(transMem)
  <2>1. cur \in 0..MaxId /\ transMem \in Seq(T!Ids) /\ 0 \in 0..MaxId
    BY IdsFacts DEF TransInv, StackTypes
  <2> QED
    BY <1>2, <2>1 DEF TransRecord
<1> HIDE DEF t
<1> DEFINE k == Len(trans) + 1
<1>5. /\ trans' \in Seq(TransRecord) /\ DOMAIN trans' = 1..k /\ Len(trans') = k
      /\ \A i \in DOMAIN trans : trans'[i] = trans[i] /\ i \in DOMAIN trans' /\ i < k /\ i \in Nat
      /\ trans'[k] = t /\ trans' # <<>> /\ k \in DOMAIN trans' /\ k \in Nat
      /\ \A i \in DOMAIN trans' : i = k \/ i \in DOMAIN trans
      /\ DOMAIN trans = 1..Len(trans) /\ Len(trans) \in Nat
  <2>1. trans \in Seq(TransRecord)
    BY DEF TransInv, StackTypes
  <2> QED
    BY <1>1, <1>4, <2>1
<1> HIDE DEF n, k
<1>6. \A i \in DOMAIN trans : /\ trans[i].rpool <= lastId /\ trans[i].exc <= lastId
                              /\ trans[i].rpool \in T!Ids /\ trans[i].exc \in Nat
                              /\ trans[i].rpool < n /\ trans[i].exc < n /\ trans[i] \in TransRecord
  <2>1. \A i \in DOMAIN trans : /\ trans[i].rpool <= lastId /\ trans[i].exc <= lastId
                                /\ trans[i].rpool \in T!Ids /\ trans[i].exc \in Nat
                                /\ trans[i] \in TransRecord
    BY StackFacts, IdsFacts DEF TransInv, KnownStack
  <2>2. n = lastId + 1 /\ lastId \in Nat
    BY <1>1, <1>2 DEF n
  <2> QED
    BY <2>1, <2>2, IdsFacts
<1>7. StackTypes'
  <2>1. n \in 0..MaxId /\ 0 \in 0..MaxId
    BY <1>2, IdsFacts
  <2> QED
    BY <1>1, <1>3, <1>5, <2>1 DEF StackTypes
<1>8. KnownStack'
  <2>1. \A i \in DOMAIN trans' : trans'[i].rpool <= n /\ trans'[i].exc <= n
    <3>1. n \in Nat /\ n <= n /\ 0 <= n
      BY <1>2, IdsFacts
    <3>2. \A i \in DOMAIN trans : trans[i].rpool <= n /\ trans[i].exc <= n
      BY <1>6, <3>1, IdsFacts
    <3> QED
      BY <1>4, <1>5, <3>1, <3>2
  <2>2. 0 <= n
    BY <1>2, IdsFacts
  <2> QED
    BY <1>1, <1>3, <2>1, <2>2 DEF KnownStack, n
<1>9. StackOK'
  <2>1. \A r \in T!Ids : sub[r] # n
    <3> SUFFICES ASSUME NEW r \in T!Ids, sub[r] = n PROVE FALSE
      OBVIOUS
    <3>1. n < r /\ r <= lastId
      BY <1>2, IdsFacts DEF TransInv, ResInv, KnownIds
    <3> QED
      BY <1>2, <3>1, IdsFacts
  <2>2. ASSUME NEW i \in DOMAIN trans'
        PROVE  /\ trans'[i].rpool > 1 /\ \A r \in T!Ids : sub'[r] # trans'[i].rpool
               /\ i = 1 => trans'[i].prev \in {0, 1}
               /\ i > 1 => trans'[i].prev = trans'[i - 1].rpool
    <3>1. CASE i \in DOMAIN trans
      <4>1. trans'[i] = trans[i] /\ (i > 1 => i - 1 \in DOMAIN trans)
        BY <1>5, <3>1
      <4> QED
        BY <1>1, <1>5, <3>1, <4>1 DEF TransInv, StackOK
    <3>2. CASE i = k
      <4>1. /\ i = 1 => trans = <<>>
            /\ i > 1 => trans # <<>> /\ i - 1 = Len(trans) /\ Len(trans) \in DOMAIN trans
        BY <1>5, <3>2 DEF k, TransInv, StackTypes
      <4>2. /\ i = 1 => cur \in {0, 1}
            /\ i > 1 => cur = trans[i - 1].rpool
        BY <4>1 DEF TransInv, StackOK
      <4>3. i > 1 => trans'[i - 1] = trans[i - 1]
        BY <1>5, <4>1
      <4> QED
        BY <1>1, <1>2, <1>4, <1>5, <2>1, <3>2, <4>2, <4>3
    <3> QED
      BY <1>5, <3>1, <3>2
  <2>3. ASSUME NEW i \in DOMAIN trans', NEW w \in DOMAIN trans', i < w
        PROVE  trans'[i].rpool < trans'[w].rpool /\ trans'[i].exc < trans'[w].rpool
    <3>1. i \in DOMAIN trans
      BY <1>5, <2>3
    <3>2. CASE w \in DOMAIN trans
      BY <1>5, <2>3, <3>1, <3>2 DEF TransInv, StackOK
    <3>3. CASE w = k
      BY <1>4, <1>5, <1>6, <3>1, <3>3
    <3> QED
      BY <1>5, <3>2, <3>3
  <2>4. cur' = trans'[Len(trans')].rpool /\ cur' # 0
    BY <1>1, <1>2, <1>4, <1>5, IdsFacts DEF n
  <2> QED
    BY <1>5, <2>2, <2>3, <2>4 DEF StackOK
<1>10. Older'
  <2> SUFFICES ASSUME NEW i \in DOMAIN trans', NEW p \in T!Ids, p < trans'[i].rpool,
                      NEW r \in Elements(list[p])
               PROVE  r < trans'[i].rpool
    BY <1>1 DEF Older
  <2>1. CASE i \in DOMAIN trans
    BY <1>5, <2>1 DEF TransInv, Older
  <2>2. CASE i = k
    <3>1. r \in T!Ids /\ r <= lastId
      BY ListType DEF TransInv, ResInv, ResTypes, KnownIds
    <3> QED
      BY <1>2, <1>4, <1>5, <2>2, <3>1
  <2> QED
    BY <1>5, <2>1, <2>2
<1>11. MarksOK'
  <2>1. \A i \in DOMAIN trans : MarkOK(trans[i], transMem')
    <3>1. \A i \in DOMAIN trans : trans[i].rpool <= n
      BY <1>2, <1>6, IdsFacts
    <3> QED
      BY <1>3, <1>6, <3>1 DEF TransInv, MarksOK
  <2>2. MarkOK(t, transMem')
    BY <1>3, <1>4
  <2> QED
    BY <1>5, <2>1, <2>2 DEF MarksOK
<1>12. MemoryOK'
  <2>1. \A i \in DOMAIN trans' :
          /\ trans'[i].rpool \in Elements(transMem')
          /\ trans'[i].exc # 0 => trans'[i].exc \in Elements(transMem')
    BY <1>3, <1>4, <1>5 DEF TransInv, MemoryOK
  <2>2. \A p \in Elements(transMem'), r \in T!Ids :
          r \in Elements(list'[p]) => /\ r \in Elements(transMem')
                                      /\ sub'[r] # 0 => sub'[r] \in Elements(transMem')
    BY <1>1, <1>2, MemoryGrown DEF n
  <2> QED
    BY <1>1, <2>1, <2>2 DEF MemoryOK
<1>13. Homes'
  BY <1>1, <1>2, <1>5 DEF TransInv, Homes
<1> QED
  BY <1>2, <1>7, <1>8, <1>9, <1>10, <1>11, <1>12, <1>13 DEF TransInv

\* trans_throw.
LEMMA ThrowKeeps ==
  ASSUME TransInv, T!Throw
  PROVE  TransInv'
<1> DEFINE n == lastId'
<1>1. /\ lastId < MaxId /\ lastId' = lastId + 1 /\ flying = 0
      /\ UNCHANGED <<trans, cur, list, sub, temp, permPools, made, freed, detached>>
  BY IdsFacts DEF T!Throw, T!CanAlloc, T!NewId, T!Running, T!resVars
<1>2. /\ n \in T!Ids /\ lastId \in Nat /\ n > 1 /\ ResInv' /\ Shrinks
      /\ \A r \in T!Ids : Linked(r)' <=> Linked(r)
      /\ \A r \in T!Ids : r <= lastId => r < n
  BY <1>1, AllocFacts
<1>3. CASE trans = <<>>
  <2>1. UNCHANGED <<flying, transMem>>
    BY <1>3 DEF T!Throw
  <2>2. lastId <= lastId' /\ permPools' \subseteq T!Ids
    BY <1>1, <1>2 DEF TransInv, ResInv, ResTypes
  <2> QED
    BY <1>1, <1>2, <2>1, <2>2, QuietKeeps
<1>4. CASE trans # <<>>
  <2>1. flying' = n /\ transMem' = Append(transMem, n)
    BY <1>1, <1>4 DEF T!Throw, T!NewId
  <2>2. /\ transMem' \in Seq(T!Ids) /\ Elements(transMem') = Elements(transMem) \cup {n}
        /\ \A r \in Elements(transMem') : 1 < r /\ r <= n
        /\ \A u \in TransRecord : MarkOK(u, transMem) /\ u.rpool <= n => MarkOK(u, transMem')
    BY <1>1, <1>2, <2>1, MemGrows
  <2>3. \A p \in Elements(transMem'), r \in T!Ids :
          r \in Elements(list'[p]) => /\ r \in Elements(transMem')
                                      /\ sub'[r] # 0 => sub'[r] \in Elements(transMem')
    BY <1>1, <1>2, <2>1, MemoryGrown
  <2>4. \A i \in DOMAIN trans : /\ trans[i].rpool <= n /\ trans[i].exc <= n
                                /\ trans[i] \in TransRecord
    <3>1. \A i \in DOMAIN trans : /\ trans[i].rpool <= lastId /\ trans[i].exc <= lastId
                                  /\ trans[i].rpool \in Nat /\ trans[i].exc \in Nat
                                  /\ trans[i] \in TransRecord
      BY StackFacts, IdsFacts DEF TransInv, KnownStack
    <3>2. n = lastId + 1 /\ lastId \in Nat
      BY <1>1, <1>2
    <3> QED
      BY <3>1, <3>2
  <2> HIDE DEF n
  <2>5. StackTypes'
    BY <1>1, <1>2, <2>1, <2>2, IdsFacts DEF TransInv, StackTypes
  <2>6. KnownStack'
    <3>1. n <= n
      BY <1>2, IdsFacts
    <3>2. lastId' = n
      BY DEF n
    <3> QED
      BY <1>1, <2>1, <2>2, <2>4, <3>1, <3>2 DEF KnownStack
  <2>7. StackOK'
    BY <1>1, <1>4 DEF TransInv, StackOK
  <2>8. Older'
    BY <1>1 DEF TransInv, Older
  <2>9. MarksOK'
    BY <1>1, <2>2, <2>4 DEF TransInv, MarksOK
  <2>10. MemoryOK'
    BY <1>1, <2>1, <2>2, <2>3 DEF TransInv, MemoryOK
  <2>11. Homes'
    BY <1>1, <1>2 DEF TransInv, Homes
  <2> QED
    BY <1>2, <2>5, <2>6, <2>7, <2>8, <2>9, <2>10, <2>11 DEF TransInv
<1> QED
  BY <1>3, <1>4

\* The jump to the handler.
LEMMA ThrowJumpKeeps ==
  ASSUME TransInv, T!ThrowJump
  PROVE  TransInv'
<1> DEFINE k == Len(trans)
<1>1. /\ flying # 0 /\ flying' = 0 /\ trans' = [trans EXCEPT ![k].exc = flying]
      /\ UNCHANGED <<cur, transMem, lastId, list, sub, temp, permPools, made, freed, detached>>
  BY IdsFacts DEF T!ThrowJump, T!resVars
<1>2. trans # <<>>
  BY <1>1 DEF TransInv, StackOK
<1>3. /\ DOMAIN trans = 1..k /\ k \in Nat /\ k \in DOMAIN trans
      /\ \A i \in DOMAIN trans : trans[i] \in TransRecord /\ i <= k
  BY <1>2, StackFacts
<1>4. flying \in 0..MaxId /\ flying <= lastId /\ flying \in Elements(transMem)
  BY <1>1 DEF TransInv, StackTypes, KnownStack, MemoryOK
<1>5. /\ trans' \in Seq(TransRecord) /\ DOMAIN trans' = DOMAIN trans /\ Len(trans') = k
      /\ \A i \in DOMAIN trans : i # k => trans'[i] = trans[i]
      /\ trans'[k] = [trans[k] EXCEPT !.exc = flying]
  <2>1. [trans[k] EXCEPT !.exc = flying] \in TransRecord
    BY <1>3, <1>4 DEF TransRecord
  <2>2. trans \in Seq(TransRecord)
    BY DEF TransInv, StackTypes
  <2>3. trans' = [trans EXCEPT ![k] = [trans[k] EXCEPT !.exc = flying]]
    BY <1>1
  <2> DEFINE e == [trans[k] EXCEPT !.exc = flying]
  <2> HIDE DEF e
  <2>4. trans' = [trans EXCEPT ![k] = e] /\ e \in TransRecord
    BY <2>1, <2>3 DEF e
  <2>5. /\ trans' \in Seq(TransRecord) /\ DOMAIN trans' = DOMAIN trans /\ Len(trans') = k
        /\ \A i \in DOMAIN trans : i # k => trans'[i] = trans[i]
        /\ trans'[k] = e
    BY <1>3, <2>2, <2>4
  <2> QED
    BY <2>5 DEF e
<1>6. \A i \in DOMAIN trans :
        /\ trans'[i].rpool = trans[i].rpool /\ trans'[i].prev = trans[i].prev
        /\ trans'[i].mark = trans[i].mark
        /\ trans'[i].exc = IF i = k THEN flying ELSE trans[i].exc
  <2>1. /\ trans'[k].rpool = trans[k].rpool /\ trans'[k].prev = trans[k].prev
        /\ trans'[k].mark = trans[k].mark /\ trans'[k].exc = flying
    BY <1>3, <1>5 DEF TransRecord
  <2> QED
    BY <1>5, <2>1
<1> HIDE DEF k
<1>7. ResInv'
  <2>1. ResInv /\ lastId' \in T!Ids /\ lastId <= lastId' /\ permPools' \subseteq T!Ids
    BY <1>1, IdsFacts DEF TransInv, ResInv, ResTypes
  <2> QED
    BY <1>1, <2>1, SameRes
<1>8. StackTypes'
  BY <1>1, <1>5, IdsFacts DEF TransInv, StackTypes
<1>9. KnownStack'
  <2>1. 0 <= lastId
    BY IdsFacts DEF TransInv, ResInv, ResTypes
  <2> QED
    BY <1>1, <1>4, <1>5, <1>6, <2>1 DEF TransInv, KnownStack
<1>10. StackOK'
  <2>1. ASSUME NEW i \in DOMAIN trans
        PROVE  /\ trans'[i].rpool > 1 /\ \A r \in T!Ids : sub[r] # trans'[i].rpool
               /\ i = 1 => trans'[i].prev \in {0, 1}
               /\ i > 1 => trans'[i].prev = trans'[i - 1].rpool
    <3>1. /\ trans[i].rpool > 1 /\ \A r \in T!Ids : sub[r] # trans[i].rpool
          /\ i = 1 => trans[i].prev \in {0, 1}
          /\ i > 1 => trans[i].prev = trans[i - 1].rpool
      BY DEF TransInv, StackOK
    <3>2. i > 1 => i - 1 \in DOMAIN trans
      BY <1>3
    <3> QED
      BY <1>6, <3>1, <3>2
  <2>2. ASSUME NEW i \in DOMAIN trans, NEW w \in DOMAIN trans, i < w
        PROVE  trans'[i].rpool < trans'[w].rpool /\ trans'[i].exc < trans'[w].rpool
    <3>1. i # k
      BY <1>3, <2>2
    <3>2. trans[i].rpool < trans[w].rpool /\ trans[i].exc < trans[w].rpool
      BY <2>2 DEF TransInv, StackOK
    <3> QED
      BY <1>6, <3>1, <3>2
  <2>3. trans' # <<>> /\ trans'[Len(trans')].rpool = trans[Len(trans)].rpool
    BY <1>3, <1>5, <1>6 DEF k
  <2> QED
    BY <1>1, <1>2, <1>5, <2>1, <2>2, <2>3 DEF TransInv, StackOK
<1>11. Older'
  BY <1>1, <1>5, <1>6 DEF TransInv, Older
<1>12. MarksOK'
  BY <1>1, <1>5, <1>6 DEF TransInv, MarksOK, MarkOK
<1>13. MemoryOK'
  BY <1>1, <1>4, <1>5, <1>6 DEF TransInv, MemoryOK
<1>14. Homes'
  <2>1. \A r \in T!Ids : Linked(r)' <=> Linked(r)
    BY <1>1 DEF Linked
  <2> QED
    BY <1>1, <1>5, <1>6, <2>1 DEF TransInv, Homes
<1> QED
  BY <1>7, <1>8, <1>9, <1>10, <1>11, <1>12, <1>13, <1>14 DEF TransInv

\* The invariant at the start.
LEMMA TransInit == T!Init => TransInv
<1> SUFFICES ASSUME T!Init PROVE TransInv
  OBVIOUS
<1>1. /\ trans = <<>> /\ flying = 0 /\ cur = 1 /\ lastId = 1 /\ freed = <<>> /\ transMem = <<>>
      /\ list = [p \in T!Ids |-> <<>>] /\ sub = [r \in T!Ids |-> 0]
      /\ temp = {} /\ permPools = {} /\ made = {} /\ detached = {}
  BY IdsFacts DEF T!Init
<1>2. /\ \A p \in T!Ids : list[p] = <<>> /\ Elements(list[p]) = {} /\ NoDuplicates(list[p])
      /\ \A r \in T!Ids : sub[r] = 0
  BY <1>1, EmptyFacts
<1>3. /\ 1 \in T!Ids /\ 1 \in 0..MaxId /\ 0 \in 0..MaxId /\ Elements(<<>>) = {} /\ DOMAIN <<>> = {}
      /\ NoDuplicates(<<>>)
  BY IdsFacts, EmptyFacts
<1>4. ResTypes
  BY <1>1, <1>3 DEF ResTypes
<1>5. KnownIds /\ PoolTree
  BY <1>1, <1>2, <1>3 DEF KnownIds, PoolTree
<1>6. AgeOrder
  BY <1>1, <1>2, <1>3 DEF AgeOrder, Ascending
<1>7. ObjectsOK
  BY <1>1, <1>2, <1>3 DEF ObjectsOK, Linked
<1>8. StackTypes
  BY <1>1, <1>3 DEF StackTypes
<1>9. KnownStack /\ StackOK /\ Older /\ MarksOK /\ MemoryOK
  BY <1>1, <1>3 DEF KnownStack, StackOK, Older, MarksOK, MemoryOK
<1>10. Homes
  BY <1>2 DEF Homes
<1> QED
  BY <1>4, <1>5, <1>6, <1>7, <1>8, <1>9, <1>10 DEF TransInv, ResInv

\* The steps that throw again or do what concerns one pool only.
LEMMA SmallKeeps ==
  ASSUME TransInv,
         T!DefaultPermanent \/ T!SwitchExt \/ (\E i \in 1..Len(trans) : T!Rethrow(i))
  PROVE  TransInv'
<1>1. lastId \in T!Ids /\ lastId <= lastId /\ permPools \subseteq T!Ids
  BY IdsFacts DEF TransInv, ResInv, ResTypes
<1>2. CASE T!DefaultPermanent
  <2>1. /\ trans # <<>> /\ permPools' = {T!Top.rpool}
        /\ UNCHANGED <<trans, transMem, list, sub, temp, made, freed, detached, lastId, cur, flying>>
    BY <1>2 DEF T!DefaultPermanent, T!InBody
  <2>2. permPools' \subseteq T!Ids
    BY <2>1, StackTop
  <2> QED
    BY <1>1, <2>1, <2>2, QuietKeeps
<1>3. CASE T!SwitchExt
  <2>1. /\ trans = <<>> /\ cur' \in {0, 1}
        /\ UNCHANGED <<trans, transMem, list, sub, temp, permPools, made, freed, detached, lastId, flying>>
    BY <1>3, IdsFacts DEF T!SwitchExt
  <2> QED
    BY <1>1, <2>1, QuietKeeps
<1>4. ASSUME NEW i \in 1..Len(trans), T!Rethrow(i) PROVE TransInv'
  <2>1. /\ flying' = trans[i].exc
        /\ UNCHANGED <<trans, transMem, list, sub, temp, permPools, made, freed, detached, lastId, cur>>
    BY <1>4 DEF T!Rethrow, T!resVars
  <2>2. i \in DOMAIN trans
    BY StackFacts
  <2> QED
    BY <1>1, <2>1, <2>2, QuietKeeps
<1> QED
  BY <1>2, <1>3, <1>4

\* One turn of the loop of trans_throw_exc.
LEMMA ThrowFoldKeeps ==
  ASSUME TransInv, T!ThrowFold
  PROVE  TransInv'
<1>1. flying # 0 /\ trans # <<>>
  BY IdsFacts DEF T!ThrowFold, TransInv, StackOK
<1>2. CASE Len(trans) = 1
  <2>1. UNCHANGED <<trans, transMem, list, sub, temp, permPools, made, freed, detached, lastId, cur, flying>>
    BY <1>2 DEF T!ThrowFold, T!resVars
  <2>2. lastId \in T!Ids /\ lastId <= lastId /\ permPools \subseteq T!Ids
    BY IdsFacts DEF TransInv, ResInv, ResTypes
  <2> QED
    BY <2>1, <2>2, QuietKeeps
<1>3. CASE Len(trans) # 1
  <2>1. T!FoldTop /\ flying' = flying
    BY <1>3 DEF T!ThrowFold
  <2> QED
    BY <1>1, <2>1, FoldKeeps
<1> QED
  BY <1>2, <1>3

\* Every step keeps the invariant.
LEMMA TransNext == TransInv /\ [T!Next]_(T!transVars) => TransInv'
<1> SUFFICES ASSUME TransInv, [T!Next]_(T!transVars) PROVE TransInv'
  OBVIOUS
<1>1. CASE T!Create
  BY <1>1, CreateKeeps
<1>2. ASSUME NEW r \in T!Held, T!Free(r) \/ T!Detach(r) \/ T!MarkPermanent(r) PROVE TransInv'
  BY <1>2, TouchKeeps
<1>3. CASE T!DefaultPermanent \/ T!SwitchExt \/ (\E i \in 1..Len(trans) : T!Rethrow(i))
  BY <1>3, SmallKeeps
<1>4. CASE T!DeleteExt
  BY <1>4, DeleteExtKeeps
<1>5. CASE T!Open
  BY <1>5, OpenKeeps
<1>6. CASE T!Commit
  BY <1>6, CommitKeeps
<1>7. CASE T!Rollback
  <2>1. trans # <<>> /\ flying = 0 /\ T!RollbackTop
    BY <1>7, IdsFacts DEF T!Rollback, T!InBody, T!Running
  <2> QED
    BY <2>1, RolledBack
<1>8. CASE T!Caught
  <2>1. trans # <<>> /\ flying = 0 /\ T!RollbackTop
    BY <1>8, IdsFacts DEF T!Caught, T!Running
  <2> QED
    BY <2>1, RolledBack
<1>9. CASE T!Fold
  <2>1. trans # <<>> /\ T!FoldTop /\ flying' = flying
    BY <1>9 DEF T!Fold, T!InBody
  <2> QED
    BY <2>1, FoldKeeps
<1>10. CASE T!Throw
  BY <1>10, ThrowKeeps
<1>11. CASE T!ThrowFold
  BY <1>11, ThrowFoldKeeps
<1>12. CASE T!ThrowJump
  BY <1>12, ThrowJumpKeeps
<1>13. CASE UNCHANGED T!transVars
  <2>1. UNCHANGED <<trans, transMem, list, sub, temp, permPools, made, freed, detached, lastId, cur, flying>>
    BY <1>13 DEF T!transVars
  <2>2. lastId \in T!Ids /\ lastId <= lastId /\ permPools \subseteq T!Ids
    BY IdsFacts DEF TransInv, ResInv, ResTypes
  <2> QED
    BY <2>1, <2>2, QuietKeeps
<1> QED
  BY <1>1, <1>2, <1>3, <1>4, <1>5, <1>6, <1>7, <1>8, <1>9, <1>10, <1>11, <1>12, <1>13 DEF T!Next

\* What goes with a pool of the stack is in memory.
LEMMA TrackedInMemory ==
  ASSUME TransInv, NEW i \in DOMAIN trans
  PROVE  T!Under[trans[i].rpool] \subseteq Elements(transMem)
<1> DEFINE p == trans[i].rpool
           S == {q \in T!Ids : q \in T!Under[p] => q \in Elements(transMem)}
<1>1. p \in T!Ids /\ p \in Elements(transMem)
  BY StackFacts DEF TransInv, MemoryOK
<1>2. T!Under[p] \subseteq T!Ids
  BY <1>1, UnderRec
<1> HIDE DEF p
<1>3. ASSUME NEW q \in T!Ids, \A a \in T!Ids : a < q => a \in S PROVE q \in S
  <2> SUFFICES ASSUME q \in T!Under[p], q # p PROVE q \in Elements(transMem)
    BY <1>1
  <2>1. PICK a \in T!Under[p], r \in T!Ids : Child(a, r, q)
    BY <1>1, UnderFacts
  <2>2. a \in T!Ids /\ a < q
    BY <1>2, <2>1, TreeFacts
  <2>3. a \in Elements(transMem)
    BY <1>3, <2>1, <2>2
  <2> QED
    BY <2>1, <2>3, IdsFacts DEF Child, TransInv, MemoryOK
<1> HIDE DEF S
<1>4. T!Ids \subseteq S
  BY <1>3, UpInduction
<1> QED
  BY <1>2, <1>4 DEF S, p

\* The pools that rp_commit left to nobody.
LEMMA AbandonedFacts ==
  ASSUME TransInv
  PROVE  \A x : x \in T!Abandoned <=>
           \E q \in T!Ids : sub[q] # 0 /\ q \notin temp /\ ~Linked(q) /\ x \in T!Under[sub[q]]
<1>1. \A s : T!ToSet(s) = Elements(s)
  BY DEF T!ToSet, Elements
<1> QED
  BY <1>1, IdsFacts DEF T!Abandoned, Linked

\* The pools of the stack with what goes with them.
LEMMA TrackedFacts ==
  ASSUME TransInv
  PROVE  \A x : x \in T!Tracked <=> \E i \in DOMAIN trans : x \in T!Under[trans[i].rpool]
BY StackFacts DEF T!Tracked

\* A pool that holds anything is the program's, goes with a transaction, or was
\* left by a commit.
LEMMA EveryPool ==
  ASSUME TransInv, NEW p \in T!Ids, list[p] # <<>>
  PROVE  p \in T!Tracked \cup {1} \cup T!Abandoned
<1> DEFINE All == T!Tracked \cup {1} \cup T!Abandoned
           S == {q \in T!Ids : list[q] # <<>> => q \in All}
<1>1. ASSUME NEW q \in T!Ids, \A a \in T!Ids : a < q => a \in S PROVE q \in S
  <2> SUFFICES ASSUME list[q] # <<>>, q # 1 PROVE q \in All
    OBVIOUS
  <2>0. q \in T!Under[q]
    BY UnderRec
  <2>1. \/ \E i \in DOMAIN trans : q = trans[i].rpool
        \/ \E r \in T!Ids : sub[r] = q /\ (Linked(r) \/ r \notin temp)
    BY DEF TransInv, Homes
  <2>2. ASSUME NEW i \in DOMAIN trans, q = trans[i].rpool PROVE q \in All
    BY <2>0, <2>2, TrackedFacts
  <2>3. ASSUME NEW r \in T!Ids, sub[r] = q, ~Linked(r), r \notin temp PROVE q \in All
    BY <2>0, <2>3, AbandonedFacts, IdsFacts
  <2>4. ASSUME NEW r \in T!Ids, sub[r] = q, Linked(r) PROVE q \in All
    <3>1. PICK a \in T!Ids : r \in Elements(list[a])
      BY <2>4 DEF Linked
    <3>2. Child(a, r, q)
      BY <2>4, <3>1 DEF Child
    <3>3. a < q
      BY <3>2, TreeFacts
    <3>4. list[a] # <<>>
      BY <3>1, EmptyFacts
    <3>5. a \in All
      BY <1>1, <3>3, <3>4
    <3>6. a # 1
      BY <2>4, <3>1, IdsFacts DEF TransInv, ResInv, PoolTree
    <3>7. ASSUME NEW i \in DOMAIN trans, a \in T!Under[trans[i].rpool] PROVE q \in All
      <4>1. trans[i].rpool \in T!Ids
        BY StackFacts
      <4>2. q \in T!Under[trans[i].rpool]
        BY <3>2, <3>7, <4>1, UnderFacts
      <4> QED
        BY <4>2, TrackedFacts
    <3>8. ASSUME NEW u \in T!Ids, sub[u] # 0, u \notin temp, ~Linked(u), a \in T!Under[sub[u]]
          PROVE  q \in All
      <4>1. sub[u] \in T!Ids
        BY <3>8, IdsFacts DEF TransInv, ResInv, ResTypes
      <4>2. q \in T!Under[sub[u]]
        BY <3>2, <3>8, <4>1, UnderFacts
      <4> QED
        BY <3>8, <4>2, AbandonedFacts
    <3> QED
      BY <3>5, <3>6, <3>7, <3>8, TrackedFacts, AbandonedFacts
  <2> QED
    BY <2>1, <2>2, <2>3, <2>4
<1> HIDE DEF S
<1>2. p \in S
  BY <1>1, UpInduction
<1> QED
  BY <1>2 DEF S

\* The invariant says what transactions promise.
LEMMA TransImplies == TransInv => TransSound
<1> SUFFICES ASSUME TransInv PROVE TransSound
  OBVIOUS
<1>0. \A s : T!ToSet(s) = Elements(s)
  BY DEF T!ToSet, Elements
<1>1. T!TransMemoryLive
  <2>1. T!Tracked \subseteq Elements(transMem)
    BY TrackedFacts, TrackedInMemory
  <2>2. ASSUME NEW p \in T!Tracked PROVE Elements(list[p]) \subseteq Elements(transMem)
    <3>1. p \in Elements(transMem) /\ p \in T!Ids
      BY <2>1, <2>2, ElementsType DEF TransInv, StackTypes
    <3>2. Elements(list[p]) \subseteq T!Ids
      BY <3>1, TreeFacts
    <3> QED
      BY <3>1, <3>2 DEF TransInv, MemoryOK
  <2>3. /\ \A i \in 1..Len(trans) : trans[i].exc # 0 => trans[i].exc \in Elements(transMem)
        /\ flying # 0 => flying \in Elements(transMem)
    BY StackFacts DEF TransInv, MemoryOK
  <2>4. cur \in {0, 1} \cup T!Tracked
    <3>1. CASE trans = <<>>
      BY <3>1 DEF TransInv, StackOK
    <3>2. CASE trans # <<>>
      <4>1. T!Top.rpool \in T!Under[T!Top.rpool]
        BY <3>2, StackTop, UnderRec
      <4>2. T!Top.rpool \in T!Tracked
        BY <3>2, <4>1, StackTop, TrackedFacts
      <4> QED
        BY <3>2, <4>2, StackTop
    <3> QED
      BY <3>1, <3>2
  <2> QED
    BY <1>0, <2>1, <2>2, <2>3, <2>4, IdsFacts DEF T!TransMemoryLive
<1>2. T!ResourcesAccounted
  <2>1. T!IsInjective(freed)
    BY DEF T!IsInjective, NoDuplicates, TransInv, ResInv, ObjectsOK
  <2>2. Elements(freed) \cap detached = {}
    BY DEF TransInv, ResInv, ObjectsOK
  <2>3. ASSUME NEW r \in made
        PROVE  LET homes == {p \in T!Ids : r \in Elements(list[p])}
               IN  IF r \in Elements(freed) \cup detached THEN homes = {}
                   ELSE \E p \in T!Tracked \cup {1} \cup T!Abandoned : homes = {p}
    <3> DEFINE homes == {p \in T!Ids : r \in Elements(list[p])}
    <3>1. Linked(r) <=> r \notin Elements(freed) \cup detached
      BY DEF TransInv, ResInv, ObjectsOK
    <3>2. CASE r \in Elements(freed) \cup detached
      BY <3>1, <3>2 DEF Linked
    <3>3. CASE r \notin Elements(freed) \cup detached
      <4>1. PICK p \in T!Ids : r \in Elements(list[p])
        BY <3>1, <3>3 DEF Linked
      <4>2. homes = {p}
        BY <4>1, TreeFacts
      <4>3. list[p] # <<>>
        BY <4>1, EmptyFacts
      <4>4. p \in T!Tracked \cup {1} \cup T!Abandoned
        BY <4>3, EveryPool
      <4> QED
        BY <3>3, <4>2, <4>4
    <3> QED
      BY <3>2, <3>3
  <2> QED
    BY <1>0, <2>1, <2>2, <2>3, IdsFacts DEF T!ResourcesAccounted
<1> QED
  BY <1>1, <1>2 DEF TransSound

\* What goes with the older transactions is older than the top.
LEMMA OlderUnder ==
  ASSUME TransInv, NEW i \in DOMAIN trans, i # Len(trans), NEW q \in T!Under[trans[i].rpool],
         NEW r \in Elements(list[q])
  PROVE  r < T!Top.rpool
<1> DEFINE p == trans[i].rpool
           top == T!Top.rpool
           S == {a \in T!Ids : a \in T!Under[p] => a < top}
<1>1. /\ trans # <<>> /\ i \in 1..Len(trans) /\ Len(trans) \in Nat /\ p \in T!Ids
  BY StackFacts
<1>2. top \in T!Ids /\ T!Top = trans[Len(trans)] /\ Len(trans) \in DOMAIN trans
  BY <1>1, StackTop
<1>3. p < top
  <2>1. i < Len(trans)
    BY <1>1
  <2> QED
    BY <1>2, <2>1 DEF TransInv, StackOK
<1>4. \A a \in T!Ids : a < top => \A u \in Elements(list[a]) : u < top
  BY <1>2 DEF TransInv, Older
<1> HIDE DEF p, top
<1>5. ASSUME NEW a \in T!Ids, \A b \in T!Ids : b < a => b \in S PROVE a \in S
  <2> SUFFICES ASSUME a \in T!Under[p], a # p PROVE a < top
    BY <1>3
  <2>1. PICK b \in T!Under[p], u \in T!Ids : Child(b, u, a)
    BY <1>1, UnderFacts
  <2>2. b \in T!Ids /\ b < a /\ a < u /\ u \in Elements(list[b])
    BY <1>1, <2>1, TreeFacts, UnderRec DEF Child
  <2>3. b < top
    BY <1>5, <2>1, <2>2
  <2>4. u < top
    BY <1>4, <2>2, <2>3
  <2> QED
    BY <1>2, <2>2, <2>4, IdsFacts
<1> HIDE DEF S
<1>6. q \in T!Ids /\ q \in T!Under[p]
  BY <1>1, UnderRec DEF p
<1>7. q < top
  BY <1>5, <1>6, UpInduction DEF S
<1> QED
  BY <1>4, <1>6, <1>7 DEF top

\* What is under the top of the stack: the objects made since it was opened
\* that are still held, unless a commit left them to nobody.
LEMMA TopObjects ==
  ASSUME TransInv, trans # <<>>, NEW x
  PROVE  x \in Objects(T!Under[T!Top.rpool]) <=>
           /\ x \in made /\ x > T!Top.rpool
           /\ x \notin Elements(freed) \cup detached
           /\ \A p \in T!Abandoned : x \notin Elements(list[p])
<1> DEFINE top == T!Top.rpool
<1>1. top \in T!Ids /\ top > 1 /\ Root(top) /\ T!Top = trans[Len(trans)] /\ Len(trans) \in DOMAIN trans
  BY StackTop
<1>2. T!Under[top] \subseteq T!Ids
  BY <1>1, UnderRec
<1>3. ASSUME NEW p \in T!Abandoned, p \in T!Under[top] PROVE FALSE
  <2>1. PICK q \in T!Ids : sub[q] # 0 /\ ~Linked(q) /\ p \in T!Under[sub[q]]
    BY <1>3, AbandonedFacts
  <2>2. sub[q] \in T!Ids
    BY <2>1, IdsFacts DEF TransInv, ResInv, ResTypes
  <2>3. Root(sub[q])
    BY <2>1 DEF Root, TransInv, ResInv, PoolTree
  <2>4. sub[q] # top
    BY StackTop
  <2>5. T!Under[top] \cap T!Under[sub[q]] = {}
    BY <1>1, <2>2, <2>3, <2>4, RootsApart
  <2> QED
    BY <1>3, <2>1, <2>5
<1> HIDE DEF top
<1>4. ASSUME x \in Objects(T!Under[top])
      PROVE  /\ x \in made /\ x > top
             /\ x \notin Elements(freed) \cup detached
             /\ \A p \in T!Abandoned : x \notin Elements(list[p])
  <2>1. PICK q \in T!Under[top] : x \in Elements(list[q]) /\ sub[x] = 0 /\ x \in T!Ids
    BY <1>4 DEF Objects
  <2>2. q \in T!Ids /\ q >= top
    BY <1>1, <1>2, UnderFacts
  <2>3. Linked(x)
    BY <2>1, <2>2 DEF Linked
  <2>4. x \in made
    BY <2>1, <2>3 DEF TransInv, ResInv, ObjectsOK
  <2>5. x \notin Elements(freed) \cup detached
    BY <2>3, <2>4 DEF TransInv, ResInv, ObjectsOK
  <2>6. q < x
    BY <2>1, <2>2 DEF TransInv, ResInv, KnownIds
  <2>7. x > top
    BY <1>1, <2>1, <2>2, <2>6, IdsFacts
  <2>8. ASSUME NEW p \in T!Abandoned, x \in Elements(list[p]) PROVE FALSE
    <3>1. p \in T!Ids
      <4>1. PICK u \in T!Ids : sub[u] # 0 /\ p \in T!Under[sub[u]]
        BY <2>8, AbandonedFacts
      <4>2. sub[u] \in T!Ids
        BY <4>1, IdsFacts DEF TransInv, ResInv, ResTypes
      <4> QED
        BY <4>1, <4>2, UnderRec
    <3>2. p = q
      BY <2>1, <2>2, <2>8, <3>1, TreeFacts
    <3> QED
      BY <1>3, <2>8, <3>2
  <2> QED
    BY <2>4, <2>5, <2>7, <2>8
<1>5. ASSUME x \in made, x > top, x \notin Elements(freed) \cup detached,
             \A p \in T!Abandoned : x \notin Elements(list[p])
      PROVE  x \in Objects(T!Under[top])
  <2>1. sub[x] = 0 /\ Linked(x) /\ x \in T!Ids
    BY <1>5 DEF TransInv, ResInv, ResTypes, ObjectsOK
  <2>2. PICK p \in T!Ids : x \in Elements(list[p])
    BY <2>1 DEF Linked
  <2>3. list[p] # <<>>
    BY <2>2, EmptyFacts
  <2>4. p \in T!Tracked \cup {1}
    BY <1>5, <2>2, <2>3, EveryPool
  <2>5. p # 1
    <3> SUFFICES ASSUME p = 1 PROVE FALSE
      OBVIOUS
    <3>1. 1 < top
      BY <1>1, IdsFacts
    <3>2. x < top
      BY <1>1, <2>2, <3>1 DEF TransInv, Older, top
    <3> QED
      BY <1>1, <1>5, <2>1, <3>2, IdsFacts
  <2>6. PICK i \in DOMAIN trans : p \in T!Under[trans[i].rpool]
    BY <2>4, <2>5, TrackedFacts
  <2>7. i = Len(trans)
    <3> SUFFICES ASSUME i # Len(trans) PROVE FALSE
      OBVIOUS
    <3>1. x < top
      BY <2>2, <2>6, OlderUnder DEF top
    <3> QED
      BY <1>1, <1>5, <2>1, <3>1, IdsFacts
  <2>8. p \in T!Under[top]
    BY <1>1, <2>6, <2>7 DEF top
  <2> QED
    BY <2>1, <2>2, <2>8 DEF Objects
<1> QED
  BY <1>4, <1>5 DEF top

\* The end of two sequences put together.
LEMMA JoinedRest ==
  ASSUME NEW a \in Seq(T!Ids), NEW b \in Seq(T!Ids)
  PROVE  SubSeq(a \o b, Len(a) + 1, Len(a \o b)) = b
<1> DEFINE c == a \o b
<1>1. /\ c \in Seq(T!Ids) /\ Len(c) = Len(a) + Len(b) /\ Len(a) \in Nat /\ Len(b) \in Nat
      /\ \A k \in 1..(Len(a) + Len(b)) : c[k] = IF k <= Len(a) THEN a[k] ELSE b[k - Len(a)]
  OBVIOUS
<1> HIDE DEF c
<1>2. Len(a) \in 0..Len(c)
  BY <1>1
<1> DEFINE e == SubSeq(c, Len(a) + 1, Len(c))
<1>3. /\ e \in Seq(T!Ids) /\ Len(e) = Len(c) - Len(a)
      /\ \A k \in 1..(Len(c) - Len(a)) : e[k] = c[k + Len(a)]
  BY <1>1, <1>2, SplitFacts
<1> HIDE DEF e
<1>4. \A k \in 1..Len(b) : e[k] = b[k]
  <2> SUFFICES ASSUME NEW k \in 1..Len(b) PROVE e[k] = b[k]
    OBVIOUS
  <2>1. /\ k \in 1..(Len(c) - Len(a)) /\ k + Len(a) \in 1..(Len(a) + Len(b))
        /\ ~(k + Len(a) <= Len(a)) /\ (k + Len(a)) - Len(a) = k
    BY <1>1
  <2> QED
    BY <1>1, <1>3, <2>1
<1>5. Len(e) = Len(b)
  BY <1>1, <1>3
<1>6. e = b
  BY <1>3, <1>4, <1>5
<1> QED
  BY <1>6 DEF e, c

\* A rollback undoes what was done since the transaction was opened.
LEMMA RollbackStep ==
  ASSUME TransInv, T!Rollback \/ T!Caught
  PROVE  LET born == {r \in made : /\ r > T!Top.rpool
                                   /\ r \notin T!ToSet(freed) \cup detached
                                   /\ \A p \in T!Abandoned : r \notin T!ToSet(list[p])}
             undone == SubSeq(freed', Len(freed) + 1, Len(freed'))
         IN  /\ freed' = freed \o undone /\ T!ToSet(undone) = born
             /\ \A m, n \in DOMAIN undone : m < n => undone[m] > undone[n]
<1> DEFINE born == {r \in made : /\ r > T!Top.rpool
                                 /\ r \notin T!ToSet(freed) \cup detached
                                 /\ \A p \in T!Abandoned : r \notin T!ToSet(list[p])}
           undone == SubSeq(freed', Len(freed) + 1, Len(freed'))
           new == T!Freeing[T!Top.rpool]
<1>0. \A s : T!ToSet(s) = Elements(s)
  BY DEF T!ToSet, Elements
<1>1. trans # <<>> /\ freed' = freed \o new
  BY DEF T!Rollback, T!InBody, T!Caught, T!RollbackTop, T!RpDelete
<1>2. T!Top.rpool \in T!Ids
  BY <1>1, StackTop
<1>3. /\ new \in Seq(T!Ids) /\ Descending(new)
      /\ \A x : x \in Elements(new) <=> x \in Objects(T!Under[T!Top.rpool])
  BY <1>2, FreeingFacts
<1>4. freed \in Seq(T!Ids)
  BY DEF TransInv, ResInv, ResTypes
<1> HIDE DEF new
<1>5. undone = new
  BY <1>1, <1>3, <1>4, JoinedRest
<1>6. \A x : x \in Elements(new) <=> x \in born
  BY <1>0, <1>1, <1>3, TopObjects
<1>7. T!ToSet(undone) = born
  BY <1>0, <1>5, <1>6
<1>8. \A m, n \in DOMAIN undone : m < n => undone[m] > undone[n]
  BY <1>3, <1>5 DEF Descending
<1> QED
  BY <1>1, <1>5, <1>7, <1>8

\* The invariant of transactions and resource pools holds in every reachable
\* state.
THEOREM TransInvariance == T!Spec => []TransInv
<1>1. T!Init => TransInv
  BY TransInit
<1>2. TransInv /\ [T!Next]_(T!transVars) => TransInv'
  BY TransNext
<1> QED
  BY <1>1, <1>2, PTL DEF T!Spec

\* Whatever is on the stack of transactions, folded into it or on its way to a
\* handler is in memory, and every resource is freed once, detached once, or
\* held in exactly one pool (trans.c, resource.c).
THEOREM TransSoundTheorem == T!Spec => []TransSound
<1>1. TransInv => TransSound
  BY TransImplies
<1> QED
  BY <1>1, TransInvariance, PTL

\* trans_rollback and trans_caught free exactly what was created since the
\* transaction was opened and is still held, the youngest first.
THEOREM RollbackUndoesTheorem == T!Spec => RollbackUndoes
<1> DEFINE Undone ==
      T!Rollback \/ T!Caught =>
        LET born == {r \in made : /\ r > T!Top.rpool
                                  /\ r \notin T!ToSet(freed) \cup detached
                                  /\ \A p \in T!Abandoned : r \notin T!ToSet(list[p])}
            undone == SubSeq(freed', Len(freed) + 1, Len(freed'))
        IN  /\ freed' = freed \o undone /\ T!ToSet(undone) = born
            /\ \A m, n \in DOMAIN undone : m < n => undone[m] > undone[n]
<1>1. TransInv /\ [T!Next]_(T!transVars) => [Undone]_(T!transVars)
  <2> SUFFICES ASSUME TransInv PROVE Undone
    OBVIOUS
  <2> QED
    BY RollbackStep
<1>2. T!RollbackUndoes <=> [][Undone]_(T!transVars)
  BY DEF T!RollbackUndoes
<1> HIDE DEF Undone
<1> QED
  BY <1>1, <1>2, TransInvariance, PTL DEF T!Spec, RollbackUndoes

=============================================================================
