-------------------------------- MODULE Heap --------------------------------
(***************************************************************************)
(* The binary heap of ucw/heap.h under its most demanding user, the timer  *)
(* table of ucw/mainloop.c, which tracks the position of every element by  *)
(* its swap callback (MAIN_TIMER_SWAP) and finds a timer to be moved or    *)
(* deleted by that position alone.                                         *)
(*                                                                         *)
(* The entry part of each macro is one action and each turn of the loops   *)
(* HEAP_BUBBLE_UP_J and HEAP_BUBBLE_DOWN_J is one action, so that the loop *)
(* invariants are state invariants; nothing else runs in between.  Init is *)
(* the entry of HEAP_INIT on an arbitrary array, whose loop variable _i is *)
(* lo: the children of the positions below lo are not in order yet.        *)
(***************************************************************************)
EXTENDS Integers, FiniteSets

CONSTANTS
  Timers,     \* the elements (struct main_timer)
  Size,       \* how many of them the array is allowed to hold
  MaxExpires, \* the largest key
  Null

ASSUME HeapAssumption ==
  /\ Size \in Nat \ {0}
  /\ MaxExpires \in Nat \ {0}
  /\ Null \notin Timers

VARIABLES
  heap,     \* timer_table[1..num]; Null outside the array
  num,      \* its number of elements
  expires,  \* tm->expires, 0 when the timer is not set
  index,    \* tm->index, 0 when the timer is not set
  pc,       \* "idle", or the loop being run
  j,        \* _j, the position the loop is at
  lo,       \* _i of HEAP_INIT, 1 in the other macros
  gone      \* the timer HEAP_DELETE(_MIN) put behind the heap, or Null

vars == <<heap, num, expires, index, pc, j, lo, gone>>

Parent(k) == k \div 2

Key(k) == expires[heap[k]]

\* less(heap[a], heap[b])
Less(a, b) == Key(a) < Key(b)

-----------------------------------------------------------------------------

\* Mutant: the index of only one of the two elements is updated
SwapForgets(a, b) ==
  /\ heap' = [heap EXCEPT ![a] = heap[b], ![b] = heap[a]]
  /\ index' = [index EXCEPT ![heap[b]] = a]

\* MAIN_TIMER_SWAP
Swap(a, b) ==
  /\ heap' = [heap EXCEPT ![a] = heap[b], ![b] = heap[a]]
  /\ index' = [index EXCEPT ![heap[a]] = b, ![heap[b]] = a]

-----------------------------------------------------------------------------

\* The epilogue of a deletion: timer_add forgets the timer and pops the array
Finish ==
  /\ pc' = "idle"
  /\ IF gone = Null
     THEN UNCHANGED <<heap, expires, index, gone>>
     ELSE /\ heap' = [heap EXCEPT ![num + 1] = Null]
          /\ expires' = [expires EXCEPT ![gone] = 0]
          /\ index' = [index EXCEPT ![gone] = 0]
          /\ gone' = Null
  /\ UNCHANGED <<num, j, lo>>

BubbleUpStep ==
  /\ pc = "up"
  /\ j > 1
  /\ ~Less(Parent(j), j)
  /\ Swap(Parent(j), j)
  /\ j' = Parent(j)
  /\ UNCHANGED <<num, expires, pc, lo, gone>>

BubbleUpDone ==
  /\ pc = "up"
  /\ j > 1 => Less(Parent(j), j)
  /\ Finish

\* The loop stops at a leaf or above its children
StopsDown ==
  2 * j <= num => /\ Less(j, 2 * j)
                  /\ 2 * j # num => Less(j, 2 * j + 1)

\* Mutant: the right child is not looked at
LeftChild ==
  2 * j

\* The smaller child, the left one of equals
LowerChild ==
  IF 2 * j # num /\ Less(2 * j + 1, 2 * j) THEN 2 * j + 1 ELSE 2 * j

BubbleDownStep ==
  /\ pc = "down"
  /\ ~StopsDown
  /\ Swap(j, LowerChild)
  /\ j' = LowerChild
  /\ UNCHANGED <<num, expires, pc, lo, gone>>

\* At the end of the loop HEAP_INIT goes on with the preceding position
BubbleDownDone ==
  /\ pc = "down"
  /\ StopsDown
  /\ IF lo > 1
     THEN /\ lo' = lo - 1
          /\ j' = lo - 1
          /\ UNCHANGED <<heap, num, expires, index, pc, gone>>
     ELSE Finish

-----------------------------------------------------------------------------

\* timer_add of a timer which is not set: HEAP_INSERT
Insert(t, e) ==
  /\ pc = "idle"
  /\ expires[t] = 0 /\ e > 0
  /\ num < Size
  /\ num' = num + 1
  /\ heap' = [heap EXCEPT ![num + 1] = t]
  /\ expires' = [expires EXCEPT ![t] = e]
  /\ index' = [index EXCEPT ![t] = num + 1]
  /\ j' = num + 1
  /\ pc' = "up"
  /\ UNCHANGED <<lo, gone>>

\* The timer at position p gets another time, then the named loop is run
Rekey(p, t, e, loop) ==
  /\ heap' = [heap EXCEPT ![p] = t]
  /\ expires' = [expires EXCEPT ![t] = e]
  /\ j' = p
  /\ pc' = loop
  /\ UNCHANGED <<num, index, lo, gone>>

\* timer_add to a later time: HEAP_INCREASE
Increase(t, e) ==
  /\ pc = "idle"
  /\ expires[t] > 0 /\ expires[t] < e
  /\ Rekey(index[t], t, e, "down")

\* timer_add to an earlier time: HEAP_DECREASE
Decrease(t, e) ==
  /\ pc = "idle"
  /\ e > 0 /\ expires[t] > e
  /\ Rekey(index[t], t, e, "up")

\* HEAP_REPLACE, which takes the way of HEAP_DECREASE for an equal key, too
Replace(t, e) ==
  /\ pc = "idle"
  /\ expires[t] > 0 /\ e > 0
  /\ Rekey(index[t], t, e, IF expires[t] < e THEN "down" ELSE "up")

\* HEAP_REPLACE_MIN
ReplaceMin(e) ==
  /\ pc = "idle"
  /\ num > 0
  /\ e >= Key(1)
  /\ Rekey(1, heap[1], e, "down")

\* HEAP_DELETE_MIN; its user takes the element behind the heap
DeleteMin ==
  /\ pc = "idle"
  /\ num > 0
  /\ Swap(1, num)
  /\ gone' = heap[1]
  /\ num' = num - 1
  /\ j' = 1
  /\ pc' = "down"
  /\ UNCHANGED <<expires, lo>>

\* Mutant: the element moved to the hole is always pushed down
DeleteDown(t) ==
  /\ pc = "idle"
  /\ expires[t] > 0
  /\ Swap(index[t], num)
  /\ gone' = t
  /\ num' = num - 1
  /\ j' = index[t]
  /\ pc' = "down"
  /\ UNCHANGED <<expires, lo>>

\* timer_del: HEAP_DELETE; the last element, moved to the hole, is compared
\* with the deleted one to find which way it has to go
Delete(t) ==
  /\ pc = "idle"
  /\ expires[t] > 0
  /\ Swap(index[t], num)
  /\ gone' = t
  /\ num' = num - 1
  /\ j' = index[t]
  /\ pc' = IF Less(num, index[t]) THEN "up" ELSE "down"
  /\ UNCHANGED <<expires, lo>>

-----------------------------------------------------------------------------

\* HEAP_INIT of any array of distinct timers, their positions already set
Init ==
  /\ \E n \in 0..Size : \E f \in [1..n -> Timers] :
       /\ \A a, b \in 1..n : f[a] = f[b] => a = b
       /\ num = n
       /\ heap = [k \in 1..Size |-> IF k <= n THEN f[k] ELSE Null]
       /\ index = [t \in Timers |-> IF \E k \in 1..n : f[k] = t
                                   THEN CHOOSE k \in 1..n : f[k] = t ELSE 0]
       /\ \E g \in [1..n -> 1..MaxExpires] :
            expires = [t \in Timers |-> IF index[t] = 0 THEN 0 ELSE g[index[t]]]
       /\ pc = IF n = 0 THEN "idle" ELSE "down"
       /\ j = n
       /\ lo = IF n = 0 THEN 1 ELSE n
  /\ gone = Null

Next ==
  \/ BubbleUpStep
  \/ BubbleUpDone
  \/ BubbleDownStep
  \/ BubbleDownDone
  \/ \E t \in Timers, e \in 1..MaxExpires :
       Insert(t, e) \/ Increase(t, e) \/ Decrease(t, e) \/ Replace(t, e)
  \/ \E e \in 1..MaxExpires : ReplaceMin(e)
  \/ DeleteMin
  \/ \E t \in Timers : Delete(t)

Spec == Init /\ [][Next]_vars

-----------------------------------------------------------------------------

\* The variables keep to their domains, the positions to the array and the
\* loops to the part of the array the macro was called for (heap.h).
TypeOK ==
  /\ num \in 0..Size
  /\ heap \in [1..Size -> Timers \cup {Null}]
  /\ expires \in [Timers -> 0..MaxExpires]
  /\ index \in [Timers -> 0..Size]
  /\ pc \in {"idle", "up", "down"}
  /\ j \in 0..Size
  /\ lo \in 1..Size
  /\ gone \in Timers \cup {Null}
  /\ gone # Null => num < Size
  /\ pc # "idle" => j >= 1

\* How much of the array is occupied: a timer being deleted is still behind
\* the heap
Occupied == IF gone = Null THEN num ELSE num + 1

\* Every timer is where its index says and a timer is in the array exactly
\* when it is set, at every moment of every macro: the next timer_add or
\* timer_del addresses the timer by its index only (mainloop.c, timer_add).
PositionsExact ==
  /\ \A k \in 1..Size :
       IF k <= Occupied THEN heap[k] # Null /\ index[heap[k]] = k
                        ELSE heap[k] = Null
  /\ \A t \in Timers :
       /\ index[t] # 0 => index[t] <= Occupied /\ heap[index[t]] = t
       /\ expires[t] = 0 <=> index[t] = 0
  /\ gone # Null => heap[num + 1] = gone

InOrder(k) == Key(Parent(k)) <= Key(k)

\* "heap[i] >= heap[i / 2] for each i in [2, num]" (heap.h), whenever no macro
\* is running.
HeapOrder ==
  pc = "idle" => \A k \in 2..num : InOrder(k)

\* "The first element heap[1] is always lower or equal to all other elements"
\* (heap.h): what makes the main loop sleep until the right timer and the
\* queue serve the right request.
MinimumOnTop ==
  pc = "idle" => \A k \in 1..num : Key(1) <= Key(k)

\* The invariant of the loops: the order may be broken only at j -- between j
\* and its parent going up, between j and its children going down -- and the
\* children of j are not below its parent.
LoopOrder ==
  /\ pc = "up" =>
       /\ \A k \in 2..num : k # j => InOrder(k)
       /\ \A k \in 2..num :
            Parent(k) = j /\ j > 1 => Key(Parent(j)) <= Key(k)
  /\ pc = "down" =>
       /\ \A k \in 2..num : Parent(k) # j /\ Parent(k) >= lo => InOrder(k)
       /\ \A k \in 2..num :
            Parent(k) = j /\ Parent(j) >= lo => Key(Parent(j)) <= Key(k)

\* What the entry parts of the macros establish for the loops and the loops
\* for the next macro
Control ==
  /\ pc = "idle" => gone = Null
  /\ pc = "up" => j <= num
  /\ pc = "down" => lo <= j
  /\ pc # "down" => lo = 1
  /\ gone # Null => lo = 1

=============================================================================
