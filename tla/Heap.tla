-------------------------------- MODULE Heap ---------------------------------
(***************************************************************************)
(* malloc and free (mm/main.c, do_mallocfree): MM keeps one row of bits    *)
(* per process number and hands out runs of blocks of that process's heap, *)
(* first fit.  A row outlives its process: the next one with the number    *)
(* starts with the bits the last one left.                                 *)
(*                                                                         *)
(* The rows lie one behind the other in a static array, and a request for  *)
(* more blocks than a heap has makes total_blocks - blocks_needed wrap     *)
(* round, so that the search goes on into the rows of other processes:     *)
(* bits are numbered through the whole array.  A search that leaves the    *)
(* array (other variables of the kernel) is not modelled.                  *)
(*                                                                         *)
(* Programs give back what they got, with its size, or die with it, as     *)
(* command/editor.c does; none forks while it has a block.                 *)
(***************************************************************************)
EXTENDS Integers, FiniteSets

CONSTANTS
    NrRows,              \* rows of bitmap
    HeapPids,            \* the process numbers do_mallocfree accepts
    RowBits,             \* bits of a row
    total_blocks,        \* blocks of a heap
    MALLOC_BLOCK_SIZE,
    HeapSizes            \* the sizes programs ask for

ASSUME HeapAssumption ==
    /\ NrRows \in Nat /\ HeapPids \subseteq 0..NrRows - 1
    /\ {RowBits, total_blocks, MALLOC_BLOCK_SIZE} \subseteq Nat \ {0}
    /\ total_blocks <= RowBits
    /\ HeapSizes \subseteq Nat \ {0}

VARIABLES
    bitmap,    \* the bits that are set, numbered through all the rows
    blocks,    \* what each process has got and not given back: [start, size]
    leaked     \* set bits nobody will clear any more

heapVars == <<bitmap, blocks, leaked>>

HeapInit ==
    /\ bitmap = {}
    /\ blocks = [pid \in HeapPids |-> {}]
    /\ leaked = {}

NrBlocks(size) == (size + MALLOC_BLOCK_SIZE - 1) \div MALLOC_BLOCK_SIZE

\* The bits of a run of blocks of pid's row.
Run(pid, start, n) == {pid * RowBits + start + j : j \in 0..n - 1}
BitsOf(pid, b)     == Run(pid, b.start, NrBlocks(b.size))
HeldBits(pid)      == UNION {BitsOf(pid, b) : b \in blocks[pid]}

\* The starts the loop of MALLOC tries.
Starts(pid, n) ==
    0..(IF n <= total_blocks THEN total_blocks - n ELSE (NrRows - pid) * RowBits - n)

\* Mutant: the last block of a request is not looked at.
Fits_OneLess(pid, n) == {s \in Starts(pid, n) : Run(pid, s, n - 1) \cap bitmap = {}}

Fits(pid, n) == {s \in Starts(pid, n) : Run(pid, s, n) \cap bitmap = {}}

\* do_mallocfree(1); the caller, lib/malloc.c, asks for no size below 1.
Malloc(pid, size) ==
    LET n == NrBlocks(size)
    IN  /\ (NrRows - pid) * RowBits >= n
        /\ \E s \in Fits(pid, n) :
               /\ \A t \in Fits(pid, n) : s <= t
               /\ bitmap' = bitmap \cup Run(pid, s, n)
               /\ blocks' = [blocks EXCEPT ![pid] = @ \cup {[start |-> s, size |-> size]}]
               /\ UNCHANGED leaked

\* The checks of FREE after the pointer's alignment.
Refused(start, n) == start >= total_blocks \/ start + n > total_blocks

\* do_mallocfree(0): the caller is not told when it is refused.
GiveBack(pid, b) ==
    /\ b \in blocks[pid]
    /\ IF Refused(b.start, NrBlocks(b.size))
       THEN leaked' = leaked \cup BitsOf(pid, b) /\ UNCHANGED bitmap
       ELSE bitmap' = bitmap \ Run(pid, b.start, NrBlocks(b.size)) /\ UNCHANGED leaked
    /\ blocks' = [blocks EXCEPT ![pid] = @ \ {b}]

\* The process ends: nothing in MM clears its row.
Dies(pid) ==
    /\ blocks[pid] # {}
    /\ leaked' = leaked \cup HeldBits(pid)
    /\ blocks' = [blocks EXCEPT ![pid] = {}]
    /\ UNCHANGED bitmap

HeapNext ==
    \/ \E pid \in HeapPids, size \in HeapSizes : Malloc(pid, size)
    \/ \E pid \in HeapPids : \E b \in blocks[pid] : GiveBack(pid, b)
    \/ \E pid \in HeapPids : Dies(pid)

HeapSpec == HeapInit /\ [][HeapNext]_heapVars

HeapTypeOK ==
    /\ bitmap \subseteq Nat /\ leaked \subseteq Nat
    /\ blocks \in [HeapPids -> SUBSET [start : Nat, size : HeapSizes]]

-----------------------------------------------------------------------------
(* Properties                                                              *)

\* No two blocks in use share a word, not even of the bitmap's rows, and the
\* bits of a block stay set as long as it is in use: whatever is freed, by
\* whom and in whatever order, the next malloc takes nothing from a program.
BlocksApart ==
    \A p, q \in HeapPids : \A b \in blocks[p], c \in blocks[q] :
        <<p, b>> # <<q, c>> => BitsOf(p, b) \cap BitsOf(q, c) = {}

BlocksMarked == \A p \in HeapPids : HeldBits(p) \subseteq bitmap

\* A block that fits in a heap is in its owner's, last block included.
BlocksInHeap ==
    \A p \in HeapPids : \A b \in blocks[p] :
        NrBlocks(b.size) <= total_blocks => b.start + NrBlocks(b.size) <= total_blocks

\* Programs that give everything back get everything again: a bit is set
\* only for a block in use or for what a death or a refused free left.
NothingLost == bitmap \subseteq leaked \cup UNION {HeldBits(p) : p \in HeapPids}

HeapSound == HeapTypeOK /\ BlocksApart /\ BlocksMarked /\ BlocksInHeap /\ NothingLost
=============================================================================
