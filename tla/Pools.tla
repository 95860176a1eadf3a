------------------------------- MODULE Pools --------------------------------
(***************************************************************************)
(* Memory pools, and the transactions whose resources are kept in pools,   *)
(* each with its own variables, and what makes each of them correct.       *)
(* MCLibrary puts them beside the other components for TLC;                *)
(* StructureProofs proves the properties for every value of the constants. *)
(***************************************************************************)
EXTENDS Integers, Sequences, FiniteSets

CONSTANTS
  ChunkSize,    \* the size of a chunk of a memory pool
  Align,        \* CPU_STRUCT_ALIGN
  StateSize,    \* the size of a saved state, and of the pool itself
  Sizes,        \* the sizes of the blocks asked for
  MaxChunks,    \* bound on the chunks that exist at once
  MaxBlocks,    \* bound on the live blocks
  MaxSaved,     \* bound on the saved states
  MaxId,        \* bound on the objects ever allocated by transactions
  MaxDepth,     \* bound on the nesting of transactions
  MaxTouch      \* bound on what the program does to resources by itself

ASSUME MempoolAssumption ==
  /\ ChunkSize \in Nat /\ StateSize \in 1..ChunkSize /\ Align \in Nat \ {0}
  /\ Sizes \subseteq Nat /\ MaxChunks \in Nat \ {0}

ASSUME TransAssumption == MaxId \in Nat \ {0}

VARIABLES
  \* Mempool
  size, total, poolState, unused, idx, lastBig, home, liveBlocks, saved, opened,
  canRealloc,
  \* Transactions
  trans, flying, cur, list, sub, temp, permPools, made, freed, detached, marked,
  transMem, lastId, touched, dead

M == INSTANCE Mempool WITH st <- poolState, live <- liveBlocks

T == INSTANCE Transactions WITH mem <- transMem

-----------------------------------------------------------------------------

\* Live blocks of a pool never overlap and the pool knows all of its chunks,
\* across growing buffers, saving and restoring (mempool.c, mempool.h).
MempoolSound == M!MempoolSound

\* Transactions (trans.c, resource.c): the memory of a transaction on the stack
\* is never released under it, however transactions are folded, thrown through
\* and rolled back, and each resource is freed once or still waits for it in
\* exactly one pool.
TransSound == T!TransMemoryLive /\ T!ResourcesAccounted

\* trans_rollback and trans_caught free exactly what was created since the
\* transaction was opened and is still held, the youngest first.
RollbackUndoes == T!RollbackUndoes

=============================================================================
