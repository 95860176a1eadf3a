------------------------------- MODULE Sorter -------------------------------
(***************************************************************************)
(* The universal sorter: ucw/sorter/govern.c with the generated routines   *)
(* of s-fixint.h, s-internal.h, s-twoway.h, s-multiway.h and s-radix.h.    *)
(*                                                                         *)
(* A record is <<key, weight>>; the weights start at 1 and are added up    *)
(* when SORT_UNIFY merges records.  A bucket is the sequence of its        *)
(* records, the number of runs it is believed to consist of and the        *)
(* remaining bits of the hash.  One call of sorter_presort, one merging    *)
(* pass and one radix split is one action; the bucket in work is `source', *)
(* unlinked from the list where it is always the second one.               *)
(*                                                                         *)
(* A configuration (sc) is what the preprocessor and the debug switches    *)
(* select: the internal sorter, unification, the width of the hash (0: no  *)
(* radix splits), multi-way merging, joining, whether the size of the      *)
(* input is known, and what the output fastbuf contains beforehand.        *)
(***************************************************************************)
EXTENDS Integers, TLC, SequencesExt

CONSTANTS
  Keys,        \* {0, ..., k}
  MaxLen,      \* the longest input
  Configs,     \* the configurations tried
  Giants,      \* keys with data which do not fit in the sorting buffer
  MaxKeys,     \* how many records fit in the sorting buffer
  KeySize,     \* bytes per record
  MinRadix, MaxRadix, AddRadix, MinMultiway, MaxMultiway  \* sorter_*_bits

VARIABLES
  sc,          \* the configuration
  input,       \* the records to be sorted
  buckets,     \* bucket_list, the final bucket first
  phase,       \* what sorter_run is doing
  source,      \* the bucket being sorted
  ins,         \* ins[0] and ins[1] of sorter_twoway
  turn,        \* the one the next presorted run goes to
  parts,       \* parts of sorter_multiway
  bigBuf       \* big_buf as the last internal sort left it, << >> if fresh

sorterVars == <<sc, input, buckets, phase, source, ins, turn, parts, bigBuf>>

UintMod == 1024      \* the range of uint, scaled down
ShiftMod == 32       \* the shift instruction looks at 5 bits of the count
UnknownSize == 2^20  \* ~(u64)0 as the size of a pipe

KeyOf(r) == r[1]

\* sbuck_new
Bucket(data, runs, bits) ==
  [data |-> data, runs |-> runs, bits |-> bits, src |-> FALSE, file |-> data # << >>]

EmptyBucket == Bucket(<< >>, 0, 0)

\* sbuck_size, in bytes
SbuckSize(b) == IF b.src /\ ~sc.known THEN UnknownSize ELSE KeySize * Len(b.data)

\* SORT_PREFIX(compare) LESS 0
LessKey(a, b) == IF sc.unify THEN a < b ELSE a <= b

\* The monotone hash of sc.bits bits
Hash(k) == (k * (2^sc.bits - 1)) \div Max(Keys)

\* h >> n as the processor does it; hashes have fewer than 16 bits here
ShiftRight(h, n) == IF n % ShiftMod >= 16 THEN 0 ELSE h \div 2^(n % ShiftMod)

SortRecords(s) == SortSeq(s, LAMBDA a, b : KeyOf(a) < KeyOf(b))

KeysOf(s) == {KeyOf(s[i]) : i \in DOMAIN s}

Weight(s, k) == MapThenSumSet(LAMBDA i : IF KeyOf(s[i]) = k THEN s[i][2] ELSE 0, DOMAIN s)

\* write_merged or copy_merged on every group of equal keys of a sorted sequence
Merged(s) ==
  LET ks == SortSeq(SetToSeq(KeysOf(s)), <)
  IN  [i \in DOMAIN ks |-> <<ks[i], Weight(s, ks[i])>>]

-----------------------------------------------------------------------------
(* Internal sorting: the records written, where to (bout, bout_only or     *)
(* nowhere), the return value, and what is left in the source.             *)

Piece(recs, dest, more, n, buf) ==
  [recs |-> recs, dest |-> dest, more |-> more,
   rest |-> SubSeq(source.data, n + 1, Len(source.data)), buf |-> buf]

\* The unification of s-fixint.h: the loop which collects the records of the
\* last group is not bounded by the number of records, so it goes on through
\* what the previous batch left in the buffer
FixintUnified(s, stale) ==
  LET n == Len(s)
      k == KeyOf(Last(s))
      beyond == SelectInSeq(stale, LAMBDA r : KeyOf(r) # k)
      extra == IF beyond = 0 THEN stale ELSE SubSeq(stale, 1, beyond - 1)
  IN  IF n > 1 /\ KeyOf(s[n - 1]) = k THEN Merged(s \o extra) ELSE Merged(s)

\* internal() of s-fixint.h
FixintSort ==
  LET n == IF Len(source.data) < MaxKeys THEN Len(source.data) ELSE MaxKeys
      s == SortRecords(SubSeq(source.data, 1, n))
      stale == SubSeq(bigBuf, n + 1, Len(bigBuf))
  IN  IF n = 0
      THEN Piece(<< >>, "none", FALSE, 0, bigBuf)
      ELSE Piece(IF sc.unify THEN FixintUnified(s, stale) ELSE s,
                 IF n < MaxKeys THEN "only" ELSE "out", n = MaxKeys, n, s \o stale)

\* internal() of s-internal.h, which looks one key ahead; a giant record
\* makes a run of its own
GeneralSort ==
  LET d == source.data
      fits == {n \in 0..Len(d) : /\ n <= MaxKeys
                                 /\ \A i \in 1..n : KeyOf(d[i]) \notin Giants}
      n == Max(fits)
      s == SortRecords(SubSeq(d, 1, n))
      more == n < Len(d)
  IN  IF d = << >> THEN Piece(<< >>, "none", FALSE, 0, bigBuf)
      ELSE IF n = 0 THEN Piece(<<d[1]>>, "out", TRUE, 1, bigBuf)
      ELSE Piece(IF sc.unify THEN Merged(s) ELSE s,
                 IF more THEN "out" ELSE "only", more, n, bigBuf)

\* A custom presorter: it writes a sorted batch and tells of the end of its
\* data when it could not fill the buffer
CustomSort ==
  LET n == IF Len(source.data) < MaxKeys THEN Len(source.data) ELSE MaxKeys
  IN  Piece(SortRecords(SubSeq(source.data, 1, n)), "out", n = MaxKeys, n, bigBuf)

\* sorter_presort; only the source is read by the custom presorter
Presorted ==
  CASE sc.kind = "custom" /\ source.src -> CustomSort
    [] sc.kind = "general"              -> GeneralSort
    [] OTHER                            -> FixintSort

\* The piece p is appended to the bucket b as a new run
WithRun(b, p) == [b EXCEPT !.data = @ \o p.recs, !.runs = @ + 1, !.file = TRUE]

-----------------------------------------------------------------------------
(* twoway_merge.  The runs of both inputs are recognized by their keys; a  *)
(* new output run starts, in the other output, whenever the order breaks.  *)

\* One turn of the loop: m.i and m.j are the next records of a and b, m.runA
\* and m.runB tell whether they continue the runs being merged
MergeStep(a, b, two, m) ==
  LET nextA == m.i <= Len(a)
      nextB == m.j <= Len(b)
      comp == CASE ~m.runA -> 1
                [] ~m.runB -> -1
                [] KeyOf(a[m.i]) < KeyOf(b[m.j]) -> -1
                [] KeyOf(a[m.i]) = KeyOf(b[m.j]) -> 0
                [] OTHER -> 1
      rec == IF comp <= 0 THEN a[m.i] ELSE b[m.j]
      starts == m.out[1] = << >> \/ ~LessKey(m.last, KeyOf(rec))
      cnt == IF starts THEN m.cnt + 1 ELSE m.cnt
      dest == IF two /\ cnt % 2 = 0 THEN 2 ELSE 1
      both == comp = 0 /\ sc.unify
      fromA == comp <= 0
      fromB == both \/ comp > 0
      i == IF fromA THEN m.i + 1 ELSE m.i
      j == IF fromB THEN m.j + 1 ELSE m.j
      runA == IF fromA THEN i <= Len(a) /\ LessKey(KeyOf(a[i - 1]), KeyOf(a[i])) ELSE m.runA
      runB == IF fromB THEN j <= Len(b) /\ LessKey(KeyOf(b[j - 1]), KeyOf(b[j])) ELSE m.runB
      written == IF both THEN <<KeyOf(rec), a[m.i][2] + b[m.j][2]>> ELSE rec
  IN  IF ~nextA /\ ~nextB THEN m
      ELSE [i |-> i, j |-> j, cnt |-> cnt, last |-> KeyOf(rec),
            runA |-> IF runA \/ runB THEN runA ELSE i <= Len(a),
            runB |-> IF runA \/ runB THEN runB ELSE j <= Len(b),
            out |-> [m.out EXCEPT ![dest] = Append(@, written)]]

\* The two outputs and the number of runs written
TwowayMerge(a, b, two) ==
  FoldLeft(LAMBDA m, x : MergeStep(a, b, two, m),
           [i |-> 1, j |-> 1, cnt |-> 0, last |-> 0, runA |-> a # << >>, runB |-> b # << >>,
            out |-> <<(<< >>), (<< >>)>>],
           a \o b)

-----------------------------------------------------------------------------
(* multiway_merge: a tournament tree over the inputs s; a node remembers   *)
(* the input with the lowest key in its subtree, or 0, and whether it met  *)
(* an equal key on its way to the node.                                    *)

\* The smallest power of two not below the number of inputs
Leaves(s) == CHOOSE p \in {1, 2, 4, 8} :
               p >= Len(s) /\ \A q \in {1, 2, 4, 8} : q >= Len(s) => p <= q

Nobody == [i |-> 0, eq |-> FALSE]

\* The node above the nodes l and r
Winner(s, pos, l, r) ==
  IF l.i = 0 THEN r
  ELSE IF r.i = 0 THEN l
  ELSE LET a == KeyOf(s[l.i][pos[l.i]])
           b == KeyOf(s[r.i][pos[r.i]])
           w == IF a <= b THEN l ELSE r
       IN  [w EXCEPT !.eq = @ \/ a = b]

\* Mutant: the update stops at a node which keeps its winner
UpdateTreeShort(s, pos, tree, k) ==
  LET up == <<k \div 2, k \div 4, k \div 8>>
      Step(t, i) ==
        IF i = 0 \/ t.stop THEN t
        ELSE LET w == Winner(s, pos, t.tree[2*i], t.tree[2*i + 1])
             IN  [tree |-> [t.tree EXCEPT ![i] = w], stop |-> w = t.tree[i]]
  IN  FoldLeft(Step, [tree |-> tree, stop |-> FALSE], up).tree

\* update_tree: every node from the leaf k to the root is decided again
UpdateTree(s, pos, tree, k) ==
  LET up == <<k \div 2, k \div 4, k \div 8>>
      Step(t, i) ==
        IF i = 0 THEN t ELSE [t EXCEPT ![i] = Winner(s, pos, t[2*i], t[2*i + 1])]
  IN  FoldLeft(Step, tree, up)

\* set_tree
SetTree(s, pos, tree, i, val) ==
  LET leaf == Leaves(s) - 1 + i
  IN  UpdateTree(s, pos, [tree EXCEPT ![leaf].i = val], leaf)

\* The next key of input i is read, and i competes again if there is one
ReadKey(s, pos, tree, i) == SetTree(s, pos, tree, i, IF pos[i] <= Len(s[i]) THEN i ELSE 0)

\* The do-while loop: the inputs with the same key as the winner leave the
\* tree one after another
EqualKeys(s, pos, tree) ==
  LET key == KeyOf(s[tree[1].i][pos[tree[1].i]])
      Step(h, x) ==
        LET w == h.tree[1].i
        IN  IF w = 0 THEN h
            ELSE IF KeyOf(s[w][pos[w]]) # key THEN h
            ELSE [hits |-> Append(h.hits, w), tree |-> SetTree(s, pos, h.tree, w, 0)]
  IN  FoldLeft(Step, [hits |-> << >>, tree |-> tree], s)

\* One turn of the main loop: the smallest record, or with SORT_UNIFY, when the
\* tree has met an equal key, all records equal to it, which leave the tree
\* before the next keys are read
MultiwayStep(s, m) ==
  LET w == m.tree[1]
      equal == IF sc.unify /\ w.eq THEN EqualKeys(s, m.pos, m.tree)
               ELSE [hits |-> <<w.i>>, tree |-> m.tree]
      heads == [n \in DOMAIN equal.hits |-> s[equal.hits[n]][m.pos[equal.hits[n]]]]
      key == KeyOf(heads[1])
      pos == [i \in DOMAIN s |-> IF i \in ToSet(equal.hits) THEN m.pos[i] + 1 ELSE m.pos[i]]
  IN  IF w.i = 0 THEN m
      ELSE [pos |-> pos,
            tree |-> FoldLeft(LAMBDA t, i : ReadKey(s, pos, t, i), equal.tree, equal.hits),
            out |-> Append(m.out, <<key, Weight(heads, key)>>)]

MultiwayMerge(s) ==
  LET pos == [i \in DOMAIN s |-> 1]
      tree == FoldLeft(LAMBDA t, i : ReadKey(s, pos, t, i),
                       [k \in 1..(2 * Leaves(s) - 1) |-> Nobody], [i \in DOMAIN s |-> i])
  IN  FoldLeft(LAMBDA m, x : MultiwayStep(s, m),
               [pos |-> pos, tree |-> tree, out |-> << >>], FlattenSeq(s)).out

-----------------------------------------------------------------------------
(* sorter_decide *)

Final == Head(buckets)

\* sbuck_join_to: the bucket before the source is the final one
CanJoin == sc.join

\* internal_estimate, times 0.8
Memory == ((IF sc.kind = "general" THEN KeySize * MaxKeys ELSE KeySize * MaxKeys - 1) * 4) \div 5

\* How many times the size of b has to be halved to fit in memory
BitsToReduce(b) == Min({n \in 0..20 : SbuckSize(b) \div 2^n <= Memory})

RadixBits(b) ==
  LET bits == Min({BitsToReduce(b), b.bits, MaxRadix})
  IN  IF sc.bits = 0 \/ (sc.kind = "custom" /\ b.src) \/ bits < MinRadix THEN 0 ELSE bits

MultiwayBits(b) ==
  LET bits == Min({BitsToReduce(b), MaxMultiway})
  IN  IF ~sc.multi \/ bits < MinMultiway THEN 0 ELSE bits

\* The strategy for an unsorted bucket
Strategy(b) ==
  CASE BitsToReduce(b) = 0                -> "twoway"
    [] RadixBits(b) = BitsToReduce(b)     -> "radix"
    [] MultiwayBits(b) = BitsToReduce(b)  -> "multiway"
    [] RadixBits(b) > 0                   -> "radix"
    [] MultiwayBits(b) > 0                -> "multiway"
    [] OTHER                              -> "twoway"

Deciding == phase = "decide" /\ Len(buckets) > 1

Idle == source' = EmptyBucket /\ ins' = <<EmptyBucket, EmptyBucket>> /\ turn' = 1 /\ parts' = << >>

DropEmpty ==
  /\ Deciding /\ SbuckSize(buckets[2]) = 0
  /\ buckets' = RemoveAt(buckets, 2)
  /\ UNCHANGED <<sc, input, phase, source, ins, turn, parts, bigBuf>>

\* sorter_join: a sorted bucket replaces a final one without a file, or is
\* copied to its end
Join ==
  LET b == buckets[2] IN
  /\ Deciding /\ SbuckSize(b) # 0 /\ b.runs > 0
  /\ buckets' = <<IF Final.file THEN [Final EXCEPT !.data = @ \o b.data] ELSE b>>
                  \o SubSeq(buckets, 3, Len(buckets))
  /\ UNCHANGED <<sc, input, phase, source, ins, turn, parts, bigBuf>>

\* The entry of sorter_twoway and sorter_multiway
Start(strategy) ==
  LET b == buckets[2] IN
  /\ Deciding /\ SbuckSize(b) # 0 /\ b.runs = 0 /\ Strategy(b) = strategy
  /\ phase' = strategy
  /\ source' = b
  /\ buckets' = RemoveAt(buckets, 2)
  /\ ins' = <<EmptyBucket, EmptyBucket>> /\ turn' = 1 /\ parts' = << >>
  /\ UNCHANGED <<sc, input, bigBuf>>

\* sorter_radix with radix_split.  The width may exceed the bits left: the
\* difference then wraps around and so does the shift by it
Radix ==
  LET b == buckets[2]
      bits == Min({RadixBits(b) + AddRadix, MaxRadix})
      rest == (b.bits - bits + UintMod) % UintMod
      Index(r) == ShiftRight(Hash(KeyOf(r)), rest) % 2^bits
      out == [i \in 1..2^bits |-> Bucket(SelectSeq(b.data, LAMBDA r : Index(r) = i - 1), 0, rest)]
  IN
  /\ Deciding /\ SbuckSize(b) # 0 /\ b.runs = 0 /\ Strategy(b) = "radix"
  /\ buckets' = <<Final>> \o out \o SubSeq(buckets, 3, Len(buckets))
  /\ bigBuf' = << >>
  /\ UNCHANGED <<sc, input, phase, source, ins, turn, parts>>

-----------------------------------------------------------------------------
(* sorter_twoway and sorter_multiway *)

\* sbuck_ins_or_join: the run already written to the end of the final bucket
\* is accounted for, or the bucket b is put behind the final one
InsOrJoin(final, b, rest) ==
  IF final.runs >= 2 THEN <<[final EXCEPT !.runs = @ - 1]>> \o rest
                     ELSE <<final, b>> \o rest

\* The presorted piece p, appended to the bucket b unless it went elsewhere
PutUnless(elsewhere, b, p) == IF elsewhere \/ p.dest = "none" THEN b ELSE WithRun(b, p)

Others == Tail(buckets)

SourceLeft(p) == [source EXCEPT !.data = p.rest]

\* The first run goes to ins[0], or to the final bucket when it is the only one
PresortFirst ==
  LET p == Presorted
      joins == p.dest = "only" /\ CanJoin
      final == PutUnless(~joins, Final, p)
      b == PutUnless(joins, EmptyBucket, p)
  IN
  /\ phase = "twoway"
  /\ bigBuf' = p.buf
  /\ IF p.more
     THEN /\ phase' = "presort" /\ turn' = 2
          /\ ins' = <<b, EmptyBucket>>
          /\ source' = SourceLeft(p)
          /\ UNCHANGED <<buckets, parts>>
     ELSE /\ phase' = "decide" /\ Idle
          /\ buckets' = InsOrJoin(final, b, Others)
  /\ UNCHANGED <<sc, input>>

\* The other runs are distributed between ins[0] and ins[1]
PresortNext ==
  LET p == Presorted IN
  /\ phase = "presort"
  /\ bigBuf' = p.buf
  /\ ins' = [ins EXCEPT ![turn] = PutUnless(FALSE, @, p)]
  /\ turn' = IF p.more THEN 3 - turn ELSE turn
  /\ phase' = IF p.more THEN "presort" ELSE "merge"
  /\ source' = IF p.more THEN SourceLeft(p) ELSE EmptyBucket
  /\ UNCHANGED <<sc, input, buckets, parts>>

SingleRuns == ins[1].runs <= 1 /\ ins[2].runs <= 1

\* The last pass of sorter_twoway goes directly to the final bucket
MergeToFinal ==
  LET m == TwowayMerge(ins[1].data, ins[2].data, FALSE)
      final == [Final EXCEPT !.data = @ \o m.out[1], !.runs = @ + (m.cnt + 1) \div 2 - 1,
                             !.file = TRUE]
  IN
  /\ phase = "merge" /\ SingleRuns /\ CanJoin
  /\ buckets' = <<final>> \o Others
  /\ phase' = "decide" /\ Idle
  /\ UNCHANGED <<sc, input, bigBuf>>

MergePass ==
  LET m == TwowayMerge(ins[1].data, ins[2].data, TRUE)
      out == <<Bucket(m.out[1], (m.cnt + 1) \div 2, 0), Bucket(m.out[2], m.cnt \div 2, 0)>>
  IN
  /\ phase = "merge" /\ ~(SingleRuns /\ CanJoin)
  /\ IF m.out[2] # << >>
     THEN ins' = out /\ UNCHANGED <<buckets, phase, source, turn, parts>>
     ELSE /\ buckets' = <<Final, out[1]>> \o Others
          /\ phase' = "decide" /\ Idle
  /\ UNCHANGED <<sc, input, bigBuf>>

\* One turn of the presorting loop of sorter_multiway
PresortParts ==
  LET p == Presorted
      joins == p.dest = "only" /\ CanJoin /\ parts = << >>
      final == PutUnless(~joins, Final, p)
      b == PutUnless(joins, EmptyBucket, p)
      all == IF b.data = << >> THEN parts ELSE Append(parts, b)
  IN
  /\ phase = "multiway"
  /\ IF p.more
     THEN /\ parts' = all /\ source' = SourceLeft(p) /\ bigBuf' = p.buf
          /\ UNCHANGED <<buckets, phase, ins, turn>>
     ELSE /\ bigBuf' = << >>
          /\ IF Len(all) <= 1
             THEN /\ buckets' = IF all = << >> THEN <<[final EXCEPT !.runs = 1]>> \o Others
                                              ELSE <<final, all[1]>> \o Others
                  /\ phase' = "decide" /\ Idle
             ELSE /\ parts' = all /\ phase' = "ways" /\ source' = EmptyBucket
                  /\ UNCHANGED <<buckets, ins, turn>>
  /\ UNCHANGED <<sc, input>>

\* One merge of sorter_multiway; the last one goes to the final bucket
MergeWays ==
  LET n == Min({2^MaxMultiway, Len(parts)})
      rest == SubSeq(parts, n + 1, Len(parts))
      out == MultiwayMerge([i \in 1..n |-> parts[i].data])
  IN
  /\ phase = "ways"
  /\ IF rest # << >>
     THEN parts' = Append(rest, Bucket(out, 1, 0)) /\ UNCHANGED <<buckets, phase, source, ins, turn>>
     ELSE /\ buckets' = IF CanJoin
                        THEN <<[Final EXCEPT !.data = @ \o out, !.file = TRUE]>> \o Others
                        ELSE <<Final, Bucket(out, 1, 0)>> \o Others
          /\ phase' = "decide" /\ Idle
  /\ UNCHANGED <<sc, input, bigBuf>>

-----------------------------------------------------------------------------

\* SORT_OUTPUT_THIS_FB: the output may already contain something
Before == IF sc.out THEN <<<<Max(Keys), 1>>>> ELSE << >>

Init ==
  /\ sc \in Configs
  /\ input \in UNION {[1..n -> Keys \X {1}] : n \in 0..MaxLen}
  /\ buckets = <<[Bucket(Before, 1, 0) EXCEPT !.file = sc.out],
                 [Bucket(input, 0, sc.bits) EXCEPT !.src = TRUE]>>
  /\ phase = "decide"
  /\ source = EmptyBucket /\ ins = <<EmptyBucket, EmptyBucket>> /\ turn = 1
  /\ parts = << >> /\ bigBuf = << >>

\* The end of sorter_run
Finish ==
  /\ phase = "decide" /\ Len(buckets) = 1
  /\ phase' = "done"
  /\ buckets' = [buckets EXCEPT ![1].file = TRUE]
  /\ bigBuf' = << >>
  /\ UNCHANGED <<sc, input, source, ins, turn, parts>>

Next ==
  \/ DropEmpty \/ Join \/ Radix \/ Start("twoway") \/ Start("multiway")
  \/ PresortFirst \/ PresortNext \/ MergeToFinal \/ MergePass
  \/ PresortParts \/ MergeWays \/ Finish

Spec == Init /\ [][Next]_sorterVars

-----------------------------------------------------------------------------

\* What the sorter should produce
Expected ==
  LET s == SortRecords(input) IN Before \o (IF sc.unify THEN Merged(s) ELSE s)

SortedData(s) == \A i \in 1..(Len(s) - 1) : LessKey(KeyOf(s[i]), KeyOf(s[i + 1]))

Produced == SubSeq(Final.data, Len(Before) + 1, Len(Final.data))

Pending == FlattenSeq([i \in DOMAIN Others |-> Others[i].data])
           \o source.data \o ins[1].data \o ins[2].data
           \o FlattenSeq([i \in DOMAIN parts |-> parts[i].data])

\* No record is lost, duplicated or invented by presorting, merging, splitting
\* and joining, what has reached the output is sorted and not above anything
\* that waits, and a bucket said to be one run is one
SorterSorts ==
  /\ \A k \in Keys : Weight(Produced, k) + Weight(Pending, k) = Weight(input, k)
  /\ SortedData(Produced)
  /\ Produced # << >> =>
       \A i \in DOMAIN Pending : LessKey(KeyOf(Last(Produced)), KeyOf(Pending[i]))
  /\ \A i \in 2..Len(buckets) : buckets[i].runs > 0 => SortedData(buckets[i].data)
  /\ \A i \in DOMAIN parts : SortedData(parts[i].data)
  /\ Final.runs = 1
  /\ phase = "done" => Final.data = Expected

\* SORT_UNIFY: the output is the unification of the input, whichever of the
\* internal sorters the parameters select (s-fixint.h takes records from
\* beyond the end of the batch)
UnifiedExactly == phase = "done" => Final.data = Expected

\* A bucket never has more bits of the hash left than its source had: the width
\* of a split, widened at govern.c:288, must not exceed what b->hash_bits has.
\* When the difference wraps around, buckets of equal keys are split for ever.
RemainingBits == \A i \in DOMAIN buckets : buckets[i].bits <= sc.bits

=============================================================================
