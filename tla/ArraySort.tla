------------------------------ MODULE ArraySort ------------------------------
(***************************************************************************)
(* The array sorter: ucw/sorter/array.c and the routines generated by      *)
(* array.h, with its parallel quicksort and radix-sort on a work queue.    *)
(*                                                                         *)
(* The elements are their keys; `mem' holds the array "a" and the buffer   *)
(* "b".  The sequential quicksort and radix-sort are modelled turn by turn *)
(* when the whole array is sorted by them.  A work submitted to the queue  *)
(* is executed in one step, at any time and in any order, and the          *)
(* sequential algorithm it runs is taken for what it has been shown to do: *)
(* the module WorkQueue is about the queue itself, and WorksApart below is *)
(* what makes such steps sound.                                            *)
(***************************************************************************)
EXTENDS Integers, TLC, SequencesExt, FiniteSetsExt

CONSTANTS
  Elements,         \* keys, which are their own hashes
  MaxElts,          \* the longest array
  Threshold,        \* ASORT_THRESHOLD
  HashBits,         \* significant bits of the hash
  ASortBits,        \* radix_bits
  RadixThreshold, ThreadThreshold, ThreadChunk,
  SorterThreads     \* sorter_threads

MinShift == 2       \* ASORT_MIN_SHIFT
Buckets == 0..(2^ASortBits - 1)
Other(x) == IF x = "a" THEN "b" ELSE "a"

VARIABLES
  elts,      \* the array to be sorted
  how,       \* [radix, threads]: with a hash, with threads
  mem,       \* the array and the buffer
  main,      \* the stack of rs_radix, or of threaded_quicksort; << >> at the end
  works,     \* submitted works not executed yet
  returned,  \* executed works not collected by work_wait yet
  quick,     \* local variables of quicksort
  barrier    \* the insertion sort has always stopped inside of its slice

arrayVars == <<elts, how, mem, main, works, returned, quick, barrier>>

-----------------------------------------------------------------------------
(* Quicksort of the whole array "a" *)

Swapped(s, i, j) == [s EXCEPT ![i] = s[j], ![j] = s[i]]

Middle(l, r) == l + (r - l) \div 2

\* The median of three goes to the middle
Median(s, l, r) ==
  LET m == Middle(l, r)
      s1 == IF s[m] < s[l] THEN Swapped(s, l, m) ELSE s
      s2 == IF s1[r] < s1[m] THEN Swapped(s1, m, r) ELSE s1
  IN  IF s1[r] < s1[m] /\ s2[m] < s2[l] THEN Swapped(s2, l, m) ELSE s2

\* One turn of the do-while loop which partitions a slice of q.s
PartitionStep(q, pivot) ==
  LET l == Min({k \in q.l..Len(q.s) : q.s[k] >= pivot})
      r == Max({k \in 1..q.r : q.s[k] <= pivot})
  IN  IF q.l > q.r THEN q
      ELSE IF l < r THEN [s |-> Swapped(q.s, l, r), l |-> l + 1, r |-> r - 1]
      ELSE IF l = r THEN [s |-> q.s, l |-> l + 1, r |-> r - 1]
      ELSE [s |-> q.s, l |-> l, r |-> r]

\* quicksplit, also the partitioning part of quicksort: elements left..r of the
\* result are not above the pivot and elements l..right not below it
Quicksplit(s, left, right) ==
  LET s1 == Median(s, left, right)
      pivot == s1[Middle(left, right)]
  IN  FoldLeft(LAMBDA q, k : PartitionStep(q, pivot), [s |-> s1, l |-> left, r |-> right], s)

At(place) == main # << >> /\ Head(main).at = place

\* One turn of the outer loop: a partition with more than Threshold elements is
\* continued with, the larger of two such ones is stacked
QuicksortTurn ==
  LET p == Quicksplit(mem["a"], quick.left, quick.right)
      lefts == p.r - quick.left
      rights == quick.right - p.l
      To(left, right, stk) == [left |-> left, right |-> right, stk |-> stk]
      Goes == main' = main
  IN
  /\ At("quick") /\ Len(elts) > 1
  /\ mem' = [mem EXCEPT !["a"] = p.s]
  /\ \/ /\ lefts >= Threshold /\ rights >= Threshold /\ Goes
        /\ quick' = IF lefts > rights THEN To(p.l, quick.right, <<<<quick.left, p.r>>>> \o quick.stk)
                                      ELSE To(quick.left, p.r, <<<<p.l, quick.right>>>> \o quick.stk)
     \/ lefts >= Threshold /\ rights < Threshold /\ Goes /\ quick' = To(quick.left, p.r, quick.stk)
     \/ lefts < Threshold /\ rights >= Threshold /\ Goes /\ quick' = To(p.l, quick.right, quick.stk)
     \/ /\ lefts < Threshold /\ rights < Threshold /\ quick.stk # << >> /\ Goes
        /\ quick' = To(Head(quick.stk)[1], Head(quick.stk)[2], Tail(quick.stk))
     \/ /\ lefts < Threshold /\ rights < Threshold /\ quick.stk = << >>
        /\ main' = <<[Head(main) EXCEPT !.at = "barrier"]>>
        /\ UNCHANGED quick
  /\ UNCHANGED <<elts, how, works, returned, barrier>>

\* Where the first of the smallest among the first n elements is
SmallestOf(s, n) == Min({k \in 1..n : \A i \in 1..n : s[k] <= s[i]})

\* The smallest element goes to the front, where it stops the insertion sort
Barrier(s) == Swapped(s, 1, SmallestOf(s, Min({Len(s), Threshold})))

SetBarrier ==
  /\ At("barrier")
  /\ mem' = [mem EXCEPT !["a"] = Barrier(@)]
  /\ main' = <<[Head(main) EXCEPT !.at = "insert", !.i = 2]>>
  /\ UNCHANGED <<elts, how, works, returned, quick, barrier>>

\* Element m is inserted behind the last of the previous ones not above it.
\* There must be such one: nothing else keeps the search inside of the array.
InsertElement ==
  LET s == mem["a"]
      m == Head(main).i
      notAbove == {k \in 1..(m - 1) : s[k] <= s[m]}
      l == IF notAbove = {} THEN 1 ELSE Max(notAbove) + 1
  IN
  /\ At("insert") /\ m <= Len(s)
  /\ mem' = [mem EXCEPT !["a"] = [k \in DOMAIN s |-> IF k = l THEN s[m]
                                     ELSE IF k > l /\ k <= m THEN s[k - 1] ELSE s[k]]]
  /\ barrier' = (barrier /\ notAbove # {})
  /\ main' = <<[Head(main) EXCEPT !.i = m + 1]>>
  /\ UNCHANGED <<elts, how, works, returned, quick>>

QuicksortReturn ==
  /\ \/ At("quick") /\ Len(elts) <= 1
     \/ At("insert") /\ Head(main).i > Len(elts)
  /\ main' = << >>
  /\ UNCHANGED <<elts, how, mem, works, returned, quick, barrier>>

-----------------------------------------------------------------------------
(* Radix sort *)

Slice(s, lo, n) == SubSeq(s, lo, lo + n - 1)

Replaced(s, lo, part) ==
  [k \in DOMAIN s |-> IF k >= lo /\ k < lo + Len(part) THEN part[k - lo + 1] ELSE s[k]]

Shift(bits) == IF bits > ASortBits THEN bits - ASortBits ELSE 0

BucketOf(e, shift) == (e \div 2^shift) % 2^ASortBits

\* radix_count
Count(part, shift) ==
  [j \in Buckets |-> Cardinality({k \in DOMAIN part : BucketOf(part[k], shift) = j})]

\* Offsets of the buckets with the given sizes
Starts(cnt) == [j \in Buckets |-> MapThenSumSet(LAMBDA i : cnt[i], {i \in Buckets : i < j})]

\* radix_split: ptrs are where the next element of each bucket goes, relative to lo
RadixSplit(part, dest, lo, ptrs, shift) ==
  FoldLeft(LAMBDA q, e : [d |-> [q.d EXCEPT ![lo + q.p[BucketOf(e, shift)]] = e],
                          p |-> [q.p EXCEPT ![BucketOf(e, shift)] = @ + 1]],
           [d |-> dest, p |-> ptrs], part).d

\* predict_swap starts with the radix bits, not with those of the hash
RECURSIVE PredictSwap(_, _, _)
PredictSwap(n, bits, swap) ==
  IF n >= RadixThreshold /\ bits >= MinShift
  THEN PredictSwap(n \div 2^ASortBits, Max({bits, ASortBits}) - ASortBits, ~swap)
  ELSE swap

SwapsOutput == PredictSwap(Len(elts), ASortBits, FALSE)

-----------------------------------------------------------------------------
(* Works.  A work is [go, x, lo, n, shift, swap, ptrs, prio]. *)

Work(go, x, lo, n, shift, swap, ptrs) ==
  [go |-> go, x |-> x, lo |-> lo, n |-> n, shift |-> shift, swap |-> swap, ptrs |-> ptrs]

NoPtrs == [j \in Buckets |-> 0]

\* What quicksort does to the n elements from lo on
SortSlice(s, lo, n) == Replaced(s, lo, SortSeq(Slice(s, lo, n), <))

\* rs_finish of the work w, by quicksort or by asort_radix: the elements are
\* sorted, in the other array if swap is set
Finished(w) ==
  LET s == SortSlice(mem[w.x], w.lo, w.n)
      out == IF w.swap THEN Other(w.x) ELSE w.x
  IN  [mem EXCEPT ![out] = Replaced(@, w.lo, Slice(s, w.lo, w.n))]

\* A worker thread runs w->go: qs_handle_work, rs_count, rs_split, rs_finish.
\* ptrs of a returned work are the ends of a split or the counts.
Execute(w) ==
  LET p == Quicksplit(mem[w.x], w.lo, w.lo + w.n - 1)
      Back(res) == returned' = returned \cup {res}
  IN
  /\ w \in works
  /\ works' = works \ {w}
  /\ \/ /\ w.go = "qs" /\ w.n < ThreadThreshold
        /\ mem' = [mem EXCEPT ![w.x] = SortSlice(@, w.lo, w.n)]
        /\ Back(w)
     \/ /\ w.go = "qs" /\ w.n >= ThreadThreshold
        /\ mem' = [mem EXCEPT ![w.x] = p.s]
        /\ Back([w EXCEPT !.go = "halves", !.ptrs = <<p.l, p.r>>])
     \/ /\ w.go = "count"
        /\ Back([w EXCEPT !.ptrs = Count(Slice(mem[w.x], w.lo, w.n), w.shift)])
        /\ UNCHANGED mem
     \/ /\ w.go = "split"
        /\ mem' = [mem EXCEPT ![Other(w.x)] =
                     RadixSplit(Slice(mem[w.x], w.lo, w.n), @, Head(main).lo, w.ptrs, w.shift)]
        /\ Back(w)
     \/ w.go = "finish" /\ mem' = Finished(w) /\ Back(w)
  /\ UNCHANGED <<elts, how, main, quick, barrier>>

-----------------------------------------------------------------------------
(* The thread which sorts *)

\* allow_threads of asort_run
Threaded == how.threads /\ Len(elts) >= ThreadThreshold

Frame(x, lo, n, bits, swap) ==
  [x |-> x, lo |-> lo, n |-> n, bits |-> bits, swap |-> swap,
   at |-> IF Threaded THEN "entry" ELSE "alone", i |-> 0,
   cnt |-> NoPtrs]

\* work_wait returns NULL
NothingLeft == works = {} /\ returned = {}

\* threaded_quicksort collects a work and submits both of its halves
QuicksortCollect(v) ==
  /\ At("qs")
  /\ v \in returned
  /\ returned' = returned \ {v}
  /\ works' = works \cup
       (IF v.go # "halves" THEN {}
        ELSE LET l == v.ptrs[1]
                 r == v.ptrs[2]
                 last == v.lo + v.n - 1
             IN  (IF r > v.lo THEN {Work("qs", v.x, v.lo, r - v.lo + 1, 0, FALSE, NoPtrs)} ELSE {})
                 \cup (IF l < last THEN {Work("qs", v.x, l, last - l + 1, 0, FALSE, NoPtrs)} ELSE {}))
  /\ UNCHANGED <<elts, how, mem, main, quick, barrier>>

QuicksortEnd ==
  /\ At("qs") /\ NothingLeft
  /\ main' = << >>
  /\ UNCHANGED <<elts, how, mem, works, returned, quick, barrier>>

\* The block of elements thread i counts and splits; the last one takes the rest
BlockOf(f, i) ==
  LET size == f.n \div SorterThreads
  IN  [lo |-> f.lo + i * size,
       n |-> IF i = SorterThreads - 1 THEN size + (f.n % SorterThreads) ELSE size]

Submit(f, go, ptrs) ==
  {Work(go, f.x, BlockOf(f, i).lo, BlockOf(f, i).n, Shift(f.bits), FALSE, ptrs[i]) :
     i \in 0..(SorterThreads - 1)}

\* Mutant: rs_radix does not wait for the small chunks in progress
RadixEntryEager ==
  LET f == Head(main) IN
  /\ At("entry")
  /\ works' = works \cup Submit(f, "count", [i \in 0..(SorterThreads - 1) |-> NoPtrs])
  /\ main' = <<[f EXCEPT !.at = "counting"]>> \o Tail(main)
  /\ UNCHANGED <<elts, how, mem, returned, quick, barrier>>

\* The entry of rs_radix: rs_wait_small, then the counting is submitted
RadixEntry ==
  LET f == Head(main) IN
  /\ At("entry") /\ works = {}
  /\ returned' = {}
  /\ works' = Submit(f, "count", [i \in 0..(SorterThreads - 1) |-> NoPtrs])
  /\ main' = <<[f EXCEPT !.at = "counting"]>> \o Tail(main)
  /\ UNCHANGED <<elts, how, mem, quick, barrier>>

\* As many works as there are threads have been collected, whichever they are:
\* every thread gets its places in every bucket
RadixCounted ==
  LET f == Head(main)
      threads == 0..(SorterThreads - 1)
      counts == [i \in threads |->
                   (CHOOSE w \in returned \cup works :
                      w.go = "count" /\ w.lo = BlockOf(f, i).lo /\ w.n = BlockOf(f, i).n).ptrs]
  IN
  /\ At("counting")
  /\ \E R \in kSubset(SorterThreads, returned) :
       LET total == [j \in Buckets |-> MapThenSumSet(LAMBDA w : w.ptrs[j], R)]
           ptrs == [i \in threads |-> [j \in Buckets |->
                      Starts(total)[j] + MapThenSumSet(LAMBDA k : counts[k][j], 0..(i - 1))]]
       IN  /\ returned' = returned \ R
           /\ works' = works \cup Submit(f, "split", ptrs)
           /\ main' = <<[f EXCEPT !.at = "splitting", !.cnt = total]>> \o Tail(main)
  /\ UNCHANGED <<elts, how, mem, quick, barrier>>

\* The splits have been waited for
RadixSplitDone ==
  LET f == Head(main) IN
  /\ At("splitting") /\ works = {}
  /\ returned' = {}
  /\ main' = <<[f EXCEPT !.at = "buckets"]>> \o Tail(main)
  /\ UNCHANGED <<elts, how, mem, works, quick, barrier>>

\* asort_radix counts and splits at once
RadixEntryAlone ==
  LET f == Head(main)
      part == Slice(mem[f.x], f.lo, f.n)
      cnt == Count(part, Shift(f.bits))
  IN
  /\ At("alone")
  /\ mem' = [mem EXCEPT ![Other(f.x)] = RadixSplit(part, @, f.lo, Starts(cnt), Shift(f.bits))]
  /\ main' = <<[f EXCEPT !.at = "buckets", !.cnt = cnt]>> \o Tail(main)
  /\ UNCHANGED <<elts, how, works, returned, quick, barrier>>

\* One turn of the loop over buckets of rs_radix and asort_radix: a small one is
\* finished inline or as a work, a big one by recursion on the arrays swapped
RadixBucket ==
  LET f == Head(main)
      n == f.cnt[f.i]
      shift == Shift(f.bits)
      from == f.lo + Starts(f.cnt)[f.i]
      w == Work("finish", Other(f.x), from, n, shift, ~f.swap, NoPtrs)
      next == <<[f EXCEPT !.i = @ + 1]>> \o Tail(main)
      small == shift < MinShift \/ n < (IF Threaded THEN ThreadThreshold ELSE RadixThreshold)
      inline == ~Threaded \/ n < ThreadChunk
  IN
  /\ At("buckets") /\ f.i \in Buckets
  /\ \/ n = 0 /\ main' = next /\ UNCHANGED <<mem, works>>
     \/ n # 0 /\ small /\ inline /\ mem' = Finished(w) /\ main' = next /\ UNCHANGED works
     \/ n # 0 /\ small /\ ~inline /\ works' = works \cup {w} /\ main' = next /\ UNCHANGED mem
     \/ /\ n # 0 /\ ~small
        /\ main' = <<Frame(Other(f.x), from, n, shift, ~f.swap)>> \o next
        /\ UNCHANGED <<mem, works>>
  /\ UNCHANGED <<elts, how, returned, quick, barrier>>

\* Return from rs_radix; at the end the small chunks are waited for
RadixReturn ==
  /\ At("buckets") /\ Head(main).i \notin Buckets
  /\ Len(main) = 1 => works = {}
  /\ returned' = IF Len(main) = 1 THEN {} ELSE returned
  /\ main' = Tail(main)
  /\ UNCHANGED <<elts, how, mem, works, quick, barrier>>

UsesRadix == how.radix /\ Len(elts) >= RadixThreshold /\ HashBits > MinShift

\* asort_run chooses the algorithm
Run ==
  LET n == Len(elts) IN
  /\ At("run")
  /\ \/ /\ UsesRadix
        /\ main' = <<Frame("a", 1, n, HashBits, SwapsOutput)>>
        /\ UNCHANGED works
     \/ /\ ~UsesRadix /\ Threaded
        /\ main' = <<[Head(main) EXCEPT !.at = "qs"]>>
        /\ works' = {Work("qs", "a", 1, n, 0, FALSE, NoPtrs)}
     \/ /\ ~UsesRadix /\ ~Threaded
        /\ main' = <<[Head(main) EXCEPT !.at = "quick"]>>
        /\ UNCHANGED works
  /\ UNCHANGED <<elts, how, mem, returned, quick, barrier>>

-----------------------------------------------------------------------------

Init ==
  /\ elts \in UNION {[1..n -> Elements] : n \in 0..MaxElts}
  /\ how \in [radix : BOOLEAN, threads : BOOLEAN]
  /\ mem = [x \in {"a", "b"} |-> IF x = "a" THEN elts ELSE [k \in DOMAIN elts |-> 0]]
  /\ main = <<[Frame("a", 1, Len(elts), 0, FALSE) EXCEPT !.at = "run"]>>
  /\ works = {} /\ returned = {} /\ barrier = TRUE
  /\ quick = [left |-> 1, right |-> Len(elts), stk |-> << >>]

Next ==
  \/ Run \/ QuicksortTurn \/ SetBarrier \/ InsertElement \/ QuicksortReturn
  \/ QuicksortEnd \/ RadixEntry \/ RadixEntryAlone \/ RadixCounted \/ RadixSplitDone \/ RadixBucket \/ RadixReturn
  \/ \E w \in works : Execute(w)
  \/ \E v \in returned : QuicksortCollect(v)

Spec == Init /\ [][Next]_arrayVars

-----------------------------------------------------------------------------

\* What a work writes and what it accesses at all, as <<array, index>>
Accesses(w) ==
  {w.x} \X (w.lo..(w.lo + w.n - 1))
    \cup (IF w.go = "finish" THEN {Other(w.x)} \X (w.lo..(w.lo + w.n - 1)) ELSE {})

Writes(w) ==
  CASE w.go = "count" -> {}
    [] w.go = "split" ->
         LET c == Count(Slice(mem[w.x], w.lo, w.n), w.shift)
         IN  {Other(w.x)} \X UNION {{Head(main).lo + w.ptrs[j] + k : k \in 0..(c[j] - 1)} : j \in Buckets}
    [] OTHER -> Accesses(w)

\* Works which may run at the same time never touch what another one writes
WorksApart ==
  \A v, w \in works : v # w => Writes(v) \cap (Accesses(w) \cup Writes(w)) = {}

\* The assertions of rs_radix on the bucket sizes
CountsComplete ==
  \A k \in DOMAIN main :
    main[k].at \in {"splitting", "buckets"} =>
      MapThenSumSet(LAMBDA j : main[k].cnt[j], Buckets) = main[k].n

Result == IF UsesRadix /\ SwapsOutput THEN mem["b"] ELSE mem["a"]

\* The array returned is the sorted input, the insertion sort never leaves the
\* slice it sorts, concurrent works are disjoint, and the counts collected are
\* those of the split in progress
ArraySorts ==
  /\ main = << >> => Result = SortSeq(elts, <)
  /\ barrier
  /\ WorksApart /\ CountsComplete

=============================================================================
