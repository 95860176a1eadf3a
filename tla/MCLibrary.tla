------------------------------ MODULE MCLibrary ------------------------------
(***************************************************************************)
(* The components of the library that do not run together, each on its own *)
(* instance: a behaviour chooses one of them, and the others stay where    *)
(* they are.                                                               *)
(***************************************************************************)
EXTENDS Heap, Components, Pools

CONSTANT MaxHeapOps

VARIABLES
  part,     \* the component of this behaviour
  heapOps,  \* operations on the heap so far
  \* RedBlack
  tree, count, height, stack, depth, step, conserve, inOrder,
  \* Fastbuf
  fastbuf, mode, out, writes,
  \* Sorter
  sc, input, buckets, phase, source, ins, turn, parts, bigBuf,
  \* ArraySort
  elts, how, arrays, main, works, returned, quick, barrier

dVars == <<
  guard, ctlPc, ctlOp, ctlStatus, pid, ctlRun, shlock, pidContents, filePid,
  launcher, daemon, starts, loose, term, owner, graceful,
  foreign>>
tVars == <<
  trans, flying, cur, list, sub, temp, permPools, made, freed, detached, marked,
  transMem, lastId, touched, dead>>
cVars == <<
  cells, journal, pool, pools, livePools, lastPool, entries, dirty, committed,
  postpone, loaded, confOp, unremembered>>
rVars == <<
  tree, count, height, stack, depth, step, conserve, inOrder>>
aVars == <<
  recordLen, useCount, fd, atomicFile, buf, cap, slack, left, sent, writerState,
  reg, halted>>
fVars == <<
  fastbuf, mode, out, writes>>
mVars == <<
  size, total, poolState, unused, idx, lastBig, home, liveBlocks, saved, opened,
  canRealloc>>
sVars == <<
  sc, input, buckets, phase, source, ins, turn, parts, bigBuf>>
qVars == <<
  elts, how, arrays, main, works, returned, quick, barrier>>
bVars == <<
  linked, handler, pos, len, timer, running, calling, arrived, eof, moved, done,
  cancelled, open, requests>>

Parts == {"heap", "daemon", "trans", "conf", "tree", "atomic", "fastbuf",
          "mempool", "sorter", "array", "block"}

\* Records of a fixed and of a variable size
LibraryRecordLens == {3, -2}

\* Configuration files: blocks of items of a section, with values to be set, and
\* whether they are strings and parse well
ConfLine(first, vals, string, ok) == [first |-> first, vals |-> vals, string |-> string, ok |-> ok]
LibraryConfFiles == {<<ConfLine(1, <<1, 1>>, TRUE, TRUE), ConfLine(1, <<2>>, FALSE, TRUE)>>,
                     <<ConfLine(2, <<2>>, TRUE, TRUE), ConfLine(1, <<3, 3>>, TRUE, FALSE)>>}
LibraryConfStrings == {<<ConfLine(2, <<3>>, TRUE, TRUE)>>, <<ConfLine(1, <<9>>, TRUE, TRUE)>>}

\* Configurations of the sorter.  Left out are unification by s-fixint.h and a
\* hash whose bits are no multiple of the width of a split, see README.
SortConfig(kind, unify, bits, multi, join, known, named) ==
  [kind |-> kind, unify |-> unify, bits |-> bits, multi |-> multi, join |-> join,
   known |-> known, out |-> named]
SortConfigs ==
  {SortConfig("fixint", FALSE, 0, FALSE, TRUE, TRUE, FALSE),
   SortConfig("fixint", FALSE, 4, FALSE, TRUE, TRUE, TRUE),
   SortConfig("fixint", FALSE, 2, TRUE, FALSE, TRUE, FALSE),
   SortConfig("general", TRUE, 0, TRUE, TRUE, TRUE, FALSE),
   SortConfig("general", TRUE, 2, FALSE, TRUE, FALSE, TRUE),
   SortConfig("general", TRUE, 0, FALSE, FALSE, TRUE, FALSE),
   SortConfig("custom", FALSE, 2, TRUE, TRUE, FALSE, FALSE),
   SortConfig("custom", FALSE, 0, FALSE, FALSE, FALSE, TRUE)}

R == INSTANCE RedBlack WITH
       Keys <- {1, 2, 3}, Copies <- 2

F == INSTANCE Fastbuf WITH
       f <- fastbuf,
       Backends <- {"file", "mmap", "grow", "buf", "limfd"}, Cap <- 4, Page <- 2,
       Window <- 4, Extend <- 2, FileLen <- 18, Targets <- {0, 7, 18}, StreamLen <- 2, Limit <- 1,
       MaxBlock <- 2, MaxWrites <- 2, Careful <- TRUE

S == INSTANCE Sorter WITH
       Keys <- {0, 1, 2}, MaxLen <- 5, Configs <- SortConfigs, Giants <- {2}, MaxKeys <- 2,
       KeySize <- 4, MinRadix <- 1, MaxRadix <- 2, AddRadix <- 1, MinMultiway <- 1, MaxMultiway <- 2

Q == INSTANCE ArraySort WITH
       mem <- arrays,
       Elements <- {0, 3, 21}, MaxElts <- 6, Threshold <- 2, HashBits <- 6, ASortBits <- 2,
       RadixThreshold <- 3, ThreadThreshold <- 4, ThreadChunk <- 2, SorterThreads <- 2

-----------------------------------------------------------------------------

\* Timers are numbers here.  Starting from every array, named by the positions,
\* a few operations take each heap through each of the macros.
HeapOperation ==
  /\ pc = "idle" => heapOps < MaxHeapOps
  /\ Next
  /\ heapOps' = IF pc = "idle" THEN heapOps + 1 ELSE heapOps

\* A component which was not chosen rests in one of its initial states
LibraryInit ==
  /\ part \in Parts
  /\ heapOps = 0
  /\ heap \in {[k \in 1..Size |-> IF k <= n THEN k ELSE Null] :
                n \in IF part = "heap" THEN 0..Size ELSE {0}}
  /\ Init
  /\ D!Init
  /\ T!Init
  /\ C!Init
  /\ (part # "tree" => conserve = FALSE)
  /\ R!Init
  /\ (part # "atomic" => recordLen = 3)
  /\ A!Init
  /\ (part # "fastbuf" => fastbuf = F!Opened("grow", << >>))
  /\ F!Init
  /\ (part # "mempool" => home = 1)
  /\ M!Init
  /\ (part # "sorter" => input = << >> /\ sc = CHOOSE c \in SortConfigs : TRUE)
  /\ S!Init
  /\ (part # "array" => elts = << >> /\ how = [radix |-> FALSE, threads |-> FALSE])
  /\ Q!Init
  /\ B!Init

LibraryNext ==
  \/ part = "heap" /\ HeapOperation /\ UNCHANGED <<part,
       dVars, tVars, cVars, rVars, aVars, fVars, mVars, sVars, qVars, bVars>>
  \/ part = "daemon" /\ D!Next /\ UNCHANGED <<part, heapOps, vars,
       tVars, cVars, rVars, aVars, fVars, mVars, sVars, qVars, bVars>>
  \/ part = "trans" /\ T!Next /\ UNCHANGED <<part, heapOps, vars,
       dVars, cVars, rVars, aVars, fVars, mVars, sVars, qVars, bVars>>
  \/ part = "conf" /\ C!Next /\ UNCHANGED <<part, heapOps, vars,
       dVars, tVars, rVars, aVars, fVars, mVars, sVars, qVars, bVars>>
  \/ part = "tree" /\ R!Next /\ UNCHANGED <<part, heapOps, vars,
       dVars, tVars, cVars, aVars, fVars, mVars, sVars, qVars, bVars>>
  \/ part = "atomic" /\ A!Next /\ UNCHANGED <<part, heapOps, vars,
       dVars, tVars, cVars, rVars, fVars, mVars, sVars, qVars, bVars>>
  \/ part = "fastbuf" /\ F!Next /\ UNCHANGED <<part, heapOps, vars,
       dVars, tVars, cVars, rVars, aVars, mVars, sVars, qVars, bVars>>
  \/ part = "mempool" /\ M!Next /\ UNCHANGED <<part, heapOps, vars,
       dVars, tVars, cVars, rVars, aVars, fVars, sVars, qVars, bVars>>
  \/ part = "sorter" /\ S!Next /\ UNCHANGED <<part, heapOps, vars,
       dVars, tVars, cVars, rVars, aVars, fVars, mVars, qVars, bVars>>
  \/ part = "array" /\ Q!Next /\ UNCHANGED <<part, heapOps, vars,
       dVars, tVars, cVars, rVars, aVars, fVars, mVars, sVars, bVars>>
  \/ part = "block" /\ B!Next /\ UNCHANGED <<part, heapOps, vars,
       dVars, tVars, cVars, rVars, aVars, fVars, mVars, sVars, qVars>>

LibrarySpec == LibraryInit /\ [][LibraryNext]_<<part, heapOps, vars,
       dVars, tVars, cVars, rVars, aVars, fVars, mVars, sVars, qVars, bVars>>

-----------------------------------------------------------------------------

\* Between two operations a red-black tree is an ordered and balanced tree
\* of the keys inserted and not removed, and all ways of searching it agree
\* (redblack.h).
TreeSound == part = "tree" => R!TreeSound /\ R!SearchesAgree

\* A fastbuf behaves as a file of bytes, whatever the backend and the buffering
\* (fastbuf.c and its backends).
FastbufIsFile == F!FastbufIsFile

\* The external sorter returns the records sorted and unified, whichever
\* strategy it takes for each bucket (sorter/govern.c).
SorterSorts == part = "sorter" => S!SorterSorts

\* The in-memory sorter returns the array sorted, and its threads keep to
\* disjoint parts of it (sorter/array.c, sorter/array.h).
ArraySorts == part = "array" => Q!ArraySorts

=============================================================================
