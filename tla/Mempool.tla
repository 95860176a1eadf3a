------------------------------ MODULE Mempool -------------------------------
(***************************************************************************)
(* Memory pools of ucw/mempool.c and ucw/mempool.h: blocks cut from the    *)
(* ends of equal chunks, big blocks with a chunk of their own, one growing *)
(* buffer at a time, and saved states the pool can return to.              *)
(*                                                                         *)
(* A chunk is a number, a block is a part of a chunk.  Free space is at    *)
(* the end of the last chunk of each chain, so that a pointer into it is   *)
(* an offset from its start.                                               *)
(***************************************************************************)
EXTENDS Integers, Sequences, SequencesExt, FiniteSets, FiniteSetsExt

CONSTANTS
  ChunkSize,   \* chunk_size, aligned
  Align,       \* CPU_STRUCT_ALIGN
  StateSize,   \* sizeof(struct mempool_state), and of the pool kept in its first chunk
  Sizes,       \* the sizes of the blocks asked for
  MaxChunks,   \* bound on the chunks that exist at once
  MaxBlocks,   \* bound on the live blocks
  MaxSaved     \* bound on the saved states

VARIABLES
  size,       \* the size of each chunk, 0 when it does not exist
  total,      \* total_size, without the tails of the chunks
  st,         \* pool->state: the chains (last chunk first) and their free space
  unused,     \* pool->unused
  idx,        \* the chain of the growing buffer
  lastBig,    \* the chunk last_big points to, or 0
  home,       \* the chunk with the pool itself, or 0 (mp_init)
  live,       \* the blocks in use, in the order of their allocation
  saved,      \* the saved states, each with the number of blocks it keeps
  opened,     \* there is a growing buffer
  canRealloc  \* the last block may be reopened

mpVars == <<size, total, st, unused, idx, lastBig, home, live, saved, opened, canRealloc>>

Chunks == 1 .. MaxChunks

Aligned(n) == n + ((-n) % Align)

\* free & ~(CPU_STRUCT_ALIGN - 1)
Down(n) == n - (n % Align)

\* Used for the memory at which a chain has the given free space
Block(i, sizes, s, free, len) ==
  [chunk |-> IF s.chain[i] = << >> THEN 0 ELSE Head(s.chain[i]),
   from |-> IF s.chain[i] = << >> THEN 0 ELSE sizes[Head(s.chain[i])] - free,
   len |-> len]

\* mp_init, or mp_new, which puts the pool to its first chunk
Init ==
  /\ home \in {0, 1}
  /\ size = [c \in Chunks |-> IF c = home THEN ChunkSize ELSE 0]
  /\ total = IF home = 0 THEN 0 ELSE ChunkSize
  /\ st = [free |-> <<IF home = 0 THEN 0 ELSE ChunkSize - StateSize, 0>>,
           chain |-> <<IF home = 0 THEN << >> ELSE <<1>>, << >> >>]
  /\ unused = << >>
  /\ idx = 1
  /\ lastBig = 0
  /\ live = << >>
  /\ saved = << >>
  /\ opened = FALSE
  /\ canRealloc = FALSE

-----------------------------------------------------------------------------

NewChunk == Min({c \in Chunks : size[c] = 0})

HasNewChunk == \E c \in Chunks : size[c] = 0

\* mp_alloc_internal of n bytes, of which keep are taken from the free space
AllocInternal(n, keep) ==
  IF n <= ChunkSize \div 2
  THEN /\ unused # << >> \/ HasNewChunk
       /\ idx' = 1
       /\ LET c == IF unused # << >> THEN Head(unused) ELSE NewChunk IN
            /\ st' = [free |-> [st.free EXCEPT ![1] = ChunkSize - keep],
                      chain |-> [st.chain EXCEPT ![1] = <<c>> \o @]]
            /\ IF unused # << >>
               THEN unused' = Tail(unused) /\ UNCHANGED <<size, total>>
               ELSE /\ size' = [size EXCEPT ![c] = ChunkSize]
                    /\ total' = total + ChunkSize
                    /\ UNCHANGED unused
       /\ UNCHANGED lastBig
  ELSE /\ HasNewChunk
       /\ idx' = 2
       /\ st' = [free |-> [st.free EXCEPT ![2] = Aligned(n) - keep],
                 chain |-> [st.chain EXCEPT ![2] = <<NewChunk>> \o @]]
       /\ size' = [size EXCEPT ![NewChunk] = Aligned(n)]
       /\ total' = total + Aligned(n)
       /\ lastBig' = NewChunk
       /\ UNCHANGED unused

\* mp_alloc_fast and mp_alloc_fast_noalign
AllocFast(n, align) ==
  LET avail == IF align THEN Down(st.free[1]) ELSE st.free[1] IN
  IF n <= avail
  THEN /\ st' = [st EXCEPT !.free[1] = avail - n]
       /\ live' = Append(live, Block(1, size, st, avail, n))
       /\ UNCHANGED <<size, total, unused, idx, lastBig>>
  ELSE /\ AllocInternal(n, n)
       /\ live' = Append(live, Block(idx', size', st', st'.free[idx'] + n, n))

Alloc(n, align) ==
  /\ ~opened
  /\ Len(live) < MaxBlocks
  /\ AllocFast(n, align)
  /\ canRealloc' = TRUE
  /\ UNCHANGED <<home, saved, opened>>

-----------------------------------------------------------------------------

(* Growing buffers *)

\* mp_start_fast, mp_start_fast_noalign
Start(n, align) ==
  /\ ~opened
  /\ Len(live) < MaxBlocks
  /\ LET avail == IF align THEN Down(st.free[1]) ELSE st.free[1] IN
     IF n <= avail
     THEN /\ idx' = 1
          /\ st' = [st EXCEPT !.free[1] = avail]
          /\ UNCHANGED <<size, total, unused, lastBig>>
     ELSE AllocInternal(n, 0)
  /\ opened' = TRUE
  /\ canRealloc' = FALSE
  /\ UNCHANGED <<home, live, saved>>

\* mp_avail
Avail == st.free[idx]

\* mp_idx, mp_size: the last block is found by last_big and the free space
LastIdx == IF Last(live).chunk = lastBig /\ Last(live).from = 0 /\ lastBig # 0 THEN 2 ELSE 1

LastSize ==
  IF st.chain[LastIdx] = << >> THEN 0
  ELSE size[Head(st.chain[LastIdx])] - Last(live).from - st.free[LastIdx]

\* mp_open_fast
Open ==
  /\ ~opened
  /\ canRealloc
  /\ idx' = LastIdx
  /\ st' = [st EXCEPT !.free[LastIdx] = @ + LastSize]
  /\ opened' = TRUE
  /\ live' = SubSeq(live, 1, Len(live) - 1)
  /\ canRealloc' = FALSE
  /\ UNCHANGED <<size, total, unused, lastBig, home, saved>>

\* mp_grow (mp_expand, mp_spread); a big chunk is reallocated, which may move it
Grow(n) ==
  /\ opened
  /\ IF n <= Avail THEN UNCHANGED <<size, total, st, unused, idx, lastBig>>
     ELSE IF idx = 2
     THEN LET c == Head(st.chain[2])
              amortized == Aligned(Max({2 * Avail, n}))
          IN /\ size' = [size EXCEPT ![c] = amortized]
             /\ total' = total - size[c] + amortized
             /\ st' = [st EXCEPT !.free[2] = amortized]
             /\ lastBig' = c
             /\ UNCHANGED <<unused, idx>>
     ELSE AllocInternal(n, 0)
  /\ UNCHANGED <<home, live, saved, opened, canRealloc>>

\* mp_end
End(k) ==
  /\ opened
  /\ k <= Avail
  /\ live' = Append(live, Block(idx, size, st, Avail, k))
  /\ st' = [st EXCEPT !.free[idx] = @ - k]
  /\ opened' = FALSE
  /\ canRealloc' = TRUE
  /\ UNCHANGED <<size, total, unused, idx, lastBig, home, saved>>

-----------------------------------------------------------------------------

\* mp_push: the state is kept in a block of the pool
Push ==
  /\ ~opened
  /\ Len(saved) < MaxSaved
  /\ Len(live) < MaxBlocks
  /\ AllocFast(StateSize, TRUE)
  /\ saved' = Append(saved, [st |-> st, blocks |-> Len(live)])
  /\ canRealloc' = FALSE
  /\ UNCHANGED <<home, opened>>

\* The chunks of a chain newer than the saved ones
Newer(i, s) == SubSeq(st.chain[i], 1, Len(st.chain[i]) - Len(s.chain[i]))

Reversed(q) == [k \in DOMAIN q |-> q[Len(q) + 1 - k]]

\* The sizes of the chunks cs added up
SumSizes(cs) ==
  LET upTo[c \in 0..MaxChunks] ==
        IF c = 0 THEN 0 ELSE upTo[c - 1] + (IF c \in cs THEN size[c] ELSE 0)
  IN  upTo[MaxChunks]

\* xfree of some chunks
FreeChunks(cs) ==
  /\ size' = [c \in Chunks |-> IF c \in cs THEN 0 ELSE size[c]]
  /\ total' = total - SumSizes(cs)

\* Mutant: small chunks are freed too although they also go to the unused chain
RestoreStateTwice(s) ==
  /\ unused' = Reversed(Newer(1, s)) \o unused
  /\ FreeChunks(ToSet(Newer(1, s)) \cup ToSet(Newer(2, s)))
  /\ st' = s
  /\ lastBig' = 0

\* mp_restore: small chunks are kept for later, big ones are freed
RestoreState(s) ==
  /\ unused' = Reversed(Newer(1, s)) \o unused
  /\ FreeChunks(ToSet(Newer(2, s)))
  /\ st' = s
  /\ lastBig' = 0

\* mp_restore to any saved state, mp_pop to the last one
Restore(k) ==
  /\ ~opened
  /\ RestoreState(saved[k].st)
  /\ live' = SubSeq(live, 1, saved[k].blocks)
  /\ saved' = SubSeq(saved, 1, k - 1)
  /\ canRealloc' = FALSE
  /\ UNCHANGED <<idx, home, opened>>

\* mp_flush: everything but the chunk with the pool itself
Flush ==
  /\ ~opened
  /\ FreeChunks(ToSet(st.chain[2]))
  /\ LET rest == IF home = 0 THEN << >> ELSE <<home>> IN
       /\ unused' = Reversed(SubSeq(st.chain[1], 1, Len(st.chain[1]) - Len(rest))) \o unused
       /\ st' = [free |-> <<IF home = 0 THEN 0 ELSE ChunkSize - StateSize, 0>>,
                 chain |-> <<rest, << >> >>]
  /\ lastBig' = 0
  /\ live' = << >>
  /\ saved' = << >>
  /\ canRealloc' = FALSE
  /\ UNCHANGED <<idx, home, opened>>

\* mp_shrink: unused chunks, as long as the given size remains
Shrink(least) ==
  /\ unused # << >>
  /\ LET n == Max({k \in 0 .. Len(unused) : k = 0 \/ total - k * ChunkSize >= least}) IN
       /\ FreeChunks(ToSet(SubSeq(unused, 1, n)))
       /\ unused' = SubSeq(unused, n + 1, Len(unused))
  /\ UNCHANGED <<st, idx, lastBig, home, live, saved, opened, canRealloc>>

Next ==
  \/ \E n \in Sizes, a \in BOOLEAN : Alloc(n, a)
  \/ \E n \in Sizes \cup {0}, a \in BOOLEAN : Start(n, a)
  \/ Open
  \/ \E n \in Sizes \cup {0} : Grow(n)
  \/ \E k \in Sizes \cup {0} : End(k)
  \/ Push
  \/ \E k \in DOMAIN saved : Restore(k)
  \/ Flush
  \/ \E least \in {0, ChunkSize} : Shrink(least)

Spec == Init /\ [][Next]_mpVars

-----------------------------------------------------------------------------

\* Blocks in use never share a byte, with each other nor with the pool itself,
\* and their chunks belong to the pool, whatever was saved and restored
BlocksApart ==
  \A k \in DOMAIN live : live[k].len > 0 =>
    /\ live[k].chunk \in ToSet(st.chain[1] \o st.chain[2])
    /\ live[k].from + live[k].len <= size[live[k].chunk]
    /\ live[k].chunk = home => live[k].from >= StateSize
    /\ \A m \in 1 .. k - 1 : live[m].len > 0 /\ live[m].chunk = live[k].chunk =>
         live[m].from + live[m].len <= live[k].from

\* The growing buffer lies behind all blocks in use
BufferApart ==
  opened /\ st.chain[idx] # << >> =>
    \A k \in DOMAIN live : live[k].chunk = Head(st.chain[idx]) =>
      live[k].from + live[k].len <= size[live[k].chunk] - Avail

\* Every chunk is in exactly one chain and total_size adds all of them up
ChunksAccounted ==
  LET all == st.chain[1] \o st.chain[2] \o unused IN
  /\ \A c \in Chunks : size[c] > 0 <=> c \in ToSet(all)
  /\ IsInjective(all)
  /\ total = SumSizes(Chunks)

\* mp_size of the last block is its length
SizeExact == canRealloc => LastSize = Last(live).len

MempoolSound == BlocksApart /\ BufferApart /\ ChunksAccounted /\ SizeExact

=============================================================================
