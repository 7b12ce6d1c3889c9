---------------------------- MODULE MemoryManager ----------------------------
(***************************************************************************)
(* The memory manager of Kernel/MemoryManagerFreeArray.c: an array of      *)
(* pointers to blocks of one size, used as a stack, and an index under     *)
(* which the entries are stale.  freeMemory() does not look at the pointer *)
(* it is given.                                                            *)
(*                                                                         *)
(* A holder is a variable of the program that can hold one block; the      *)
(* kernel's own callers give back what they hold (Spec), a user program    *)
(* gives back through freeMemoryUser(), which drops its argument           *)
(* (UserSpec).  A block is the number of its place in the heap.            *)
(***************************************************************************)
EXTENDS Integers, FiniteSets

CONSTANTS
  BlockQty,       \* BLOCK_QTY
  BlockSize,      \* BLOCK_SIZE
  Holders,
  Sizes,          \* the sizes requested
  StateSize,      \* sizeof(memoryState)
  StrayPointers,  \* what the argument register may hold when none was passed
  NULL

Blocks == 0 .. BlockQty - 1

ASSUME MemoryAssumption ==
  /\ BlockQty \in Nat \ {0}
  /\ BlockSize \in Nat \ {0}
  /\ Sizes \subseteq Nat
  /\ StateSize \in Nat /\ StateSize <= BlockSize
  /\ NULL \notin Blocks

VARIABLES
  freeArray,
  currentBlock,   \* entries of freeArray from here on are free
  usedMemory,
  freeBytes,      \* the field freeMemory
  held,           \* the block each holder has, or NULL
  reply,          \* the last request, <<holder, size, block or NULL>>
  nullWritten     \* a report was written through a NULL pointer

vars == <<freeArray, currentBlock, usedMemory, freeBytes, held, reply, nullWritten>>

totalSize == BlockQty * BlockSize

\* createMemoryManager()
Init ==
  /\ freeArray = [i \in Blocks |-> i]
  /\ currentBlock = 0
  /\ usedMemory = 0
  /\ freeBytes = totalSize
  /\ held = [h \in Holders |-> NULL]
  /\ reply = <<>>
  /\ nullWritten = FALSE

\* Mutant: the last block is never given.
CanAlloc_oneShort(size) == size <= BlockSize /\ currentBlock < BlockQty - 1

\* The test of allocMemory(); mm is never NULL after the boot.
CanAlloc(size) == size <= BlockSize /\ currentBlock < BlockQty

\* Mutant: the index moves before the entry is read.
TakeBlock_preIncrement(h, size) ==
  /\ held' = [held EXCEPT ![h] = freeArray[(currentBlock + 1) % BlockQty]]
  /\ reply' = <<h, size, freeArray[(currentBlock + 1) % BlockQty]>>
  /\ currentBlock' = currentBlock + 1
  /\ freeBytes' = freeBytes - BlockSize
  /\ usedMemory' = usedMemory + BlockSize
  /\ UNCHANGED <<freeArray, nullWritten>>

\* The part of allocMemory() after its test.
TakeBlock(h, size) ==
  /\ held' = [held EXCEPT ![h] = freeArray[currentBlock]]
  /\ reply' = <<h, size, freeArray[currentBlock]>>
  /\ currentBlock' = currentBlock + 1
  /\ freeBytes' = freeBytes - BlockSize
  /\ usedMemory' = usedMemory + BlockSize
  /\ UNCHANGED <<freeArray, nullWritten>>

allocMemory(h, size) ==
  /\ held[h] = NULL
  /\ \/ CanAlloc(size) /\ TakeBlock(h, size)
     \/ /\ ~CanAlloc(size)
        /\ reply' = <<h, size, NULL>>
        /\ UNCHANGED <<freeArray, currentBlock, usedMemory, freeBytes, held, nullWritten>>

\* Mutant: the bytes move the wrong way.
PutBlock_swappedBytes(pointer) ==
  /\ freeArray' = [freeArray EXCEPT ![currentBlock - 1] = pointer]
  /\ currentBlock' = currentBlock - 1
  /\ usedMemory' = usedMemory + BlockSize
  /\ freeBytes' = freeBytes - BlockSize

\* Mutant: the bytes of a block that comes back are not subtracted.
PutBlock_uncounted(pointer) ==
  /\ freeArray' = [freeArray EXCEPT ![currentBlock - 1] = pointer]
  /\ currentBlock' = currentBlock - 1
  /\ UNCHANGED <<usedMemory, freeBytes>>

\* freeMemory() past its test: nothing is asked of the pointer.
PutBlock(pointer) ==
  /\ freeArray' = [freeArray EXCEPT ![currentBlock - 1] = pointer]
  /\ currentBlock' = currentBlock - 1
  /\ usedMemory' = usedMemory - BlockSize
  /\ freeBytes' = freeBytes + BlockSize

\* freeMemory(pointer), called by a holder that lets its block go.
freeMemory(h, pointer) ==
  /\ held[h] # NULL
  /\ held' = [held EXCEPT ![h] = NULL]
  /\ UNCHANGED <<reply, nullWritten>>
  /\ IF currentBlock = 0
     THEN UNCHANGED <<freeArray, currentBlock, usedMemory, freeBytes>>
     ELSE PutBlock(pointer)

\* getMemoryState(): a block is taken to write the report in, and written
\* also when there is none.
getMemoryState(h) ==
  /\ held[h] = NULL
  /\ \/ CanAlloc(StateSize) /\ TakeBlock(h, StateSize)
     \/ /\ ~CanAlloc(StateSize)
        /\ reply' = <<h, StateSize, NULL>>
        /\ nullWritten' = TRUE
        /\ UNCHANGED <<freeArray, currentBlock, usedMemory, freeBytes, held>>

Next ==
  \E h \in Holders : \/ \E size \in Sizes : allocMemory(h, size)
                     \/ freeMemory(h, held[h])
                     \/ getMemoryState(h)

Spec == Init /\ [][Next]_vars

\* freeMemoryUser() calls the kernel without the pointer it was given.
freeMemoryUser(h) == \E pointer \in StrayPointers : freeMemory(h, pointer)

UserNext ==
  \E h \in Holders : \/ \E size \in Sizes : allocMemory(h, size)
                     \/ freeMemoryUser(h)

UserSpec == Init /\ [][UserNext]_vars

-----------------------------------------------------------------------------
(***************************************************************************)
(* Properties.                                                             *)
(***************************************************************************)

FreeBlocks == {freeArray[i] : i \in currentBlock .. BlockQty - 1}
HeldBlocks == {held[h] : h \in Holders} \ {NULL}

\* Types; the counters of bytes are unsigned and never wrap.
TypeOK ==
  /\ freeArray \in [Blocks -> Blocks]
  /\ currentBlock \in 0 .. BlockQty
  /\ usedMemory \in 0 .. totalSize
  /\ freeBytes \in 0 .. totalSize
  /\ held \in [Holders -> Blocks \cup {NULL}]
  /\ nullWritten \in BOOLEAN

\* No two variables hold the same block.  test_mm.c fills every block it was
\* given with a value of its own and fails if one of them changes.
BlocksDisjoint ==
  \A g, h \in Holders : held[g] = held[h] /\ held[g] # NULL => g = h

\* The entries of the array from currentBlock on are the blocks nobody holds,
\* once each: no block is lost and none is given twice.
FreeArrayExact ==
  /\ \A i, j \in currentBlock .. BlockQty - 1 : freeArray[i] = freeArray[j] => i = j
  /\ FreeBlocks = Blocks \ HeldBlocks

\* What getMemoryState() reports is what is held.
AccountingExact ==
  /\ usedMemory = BlockSize * Cardinality(HeldBlocks)
  /\ freeBytes = totalSize - usedMemory

\* The free array implements the allocator.
Abstract == INSTANCE Allocator
  WITH free <- FreeBlocks, Sizes <- Sizes \cup {StateSize}
ImplementsAllocator == Abstract!Spec

=============================================================================
