------------------------- MODULE MemoryManagerProofs -------------------------
(***************************************************************************)
(* Proofs about MemoryManager, for every number and size of blocks, every  *)
(* set of holders and of request sizes: the free array never loses a block *)
(* nor gives one twice, its counters are exact, and it implements          *)
(* Allocator, as long as what is given back is what was held (Spec).       *)
(***************************************************************************)
EXTENDS MemoryManager, FiniteSetTheorems, TLAPS

-----------------------------------------------------------------------------
(***************************************************************************)
(* The inductive invariant: currentBlock counts the blocks held.  It is    *)
(* what makes the test currentBlock == 0 of freeMemory() never hold for a  *)
(* caller that holds a block.                                              *)
(***************************************************************************)

Shape ==
  /\ freeArray \in [Blocks -> Blocks]
  /\ currentBlock \in 0 .. BlockQty
  /\ held \in [Holders -> Blocks \cup {NULL}]
  /\ nullWritten \in BOOLEAN

Counted ==
  /\ IsFiniteSet(HeldBlocks)
  /\ currentBlock = Cardinality(HeldBlocks)

Accounted ==
  /\ usedMemory = BlockSize * currentBlock
  /\ freeBytes = totalSize - usedMemory

IInv == Shape /\ BlocksDisjoint /\ FreeArrayExact /\ Counted /\ Accounted

\* Products with the size of a block, in the form the steps need.
LEMMA BlockSizeProducts ==
  ASSUME NEW n \in Nat
  PROVE  /\ BlockSize * n \in Nat
         /\ BlockSize * (n + 1) = BlockSize * n + BlockSize
         /\ n <= BlockQty => BlockSize * n <= totalSize
<1>1. BlockSize \in Nat /\ BlockQty \in Nat
  BY MemoryAssumption
<1>2. BlockSize * n \in Nat /\ BlockSize * (n + 1) = BlockSize * n + BlockSize
  BY <1>1
<1>3. ASSUME n <= BlockQty PROVE BlockSize * n <= totalSize
  <2>1. BlockQty = n + (BlockQty - n) /\ BlockQty - n \in Nat
    BY <1>1, <1>3
  <2>2. BlockSize * (n + (BlockQty - n)) = BlockSize * n + BlockSize * (BlockQty - n)
    BY <1>1, <2>1
  <2>3. BlockSize * (BlockQty - n) \in Nat
    BY <1>1, <2>1
  <2>4. QED
    BY <1>1, <1>2, <2>1, <2>2, <2>3 DEF totalSize
<1>4. QED
  BY <1>2, <1>3

\* createMemoryManager() makes every block free, once.
LEMMA InitSound == Init => IInv
<1> SUFFICES ASSUME Init PROVE IInv
  OBVIOUS
<1>1. HeldBlocks = {}
  BY DEF Init, HeldBlocks
<1>2. Counted
  BY <1>1, FS_EmptySet DEF Init, Counted
<1>3. Shape
  <2>1. freeArray \in [Blocks -> Blocks] /\ held \in [Holders -> Blocks \cup {NULL}]
    BY DEF Init
  <2>2. currentBlock \in 0 .. BlockQty
    BY MemoryAssumption DEF Init
  <2>3. nullWritten \in BOOLEAN
    BY DEF Init
  <2>4. QED
    BY <2>1, <2>2, <2>3 DEF Shape
<1>4. BlocksDisjoint
  BY DEF Init, BlocksDisjoint
<1>5. FreeArrayExact
  BY <1>1, MemoryAssumption DEF Init, FreeArrayExact, FreeBlocks, Blocks
<1>6. Accounted
  BY MemoryAssumption DEF Init, Accounted, totalSize
<1>7. QED
  BY <1>2, <1>3, <1>4, <1>5, <1>6 DEF IInv

\* A block that is taken was free and is no longer; all else stays.
LEMMA TakeBlockSound ==
  ASSUME IInv, NEW h \in Holders, NEW size,
         held[h] = NULL, currentBlock < BlockQty, TakeBlock(h, size)
  PROVE  /\ IInv'
         /\ freeArray[currentBlock] \in FreeBlocks
         /\ FreeBlocks' = FreeBlocks \ {freeArray[currentBlock]}
<1> DEFINE b == freeArray[currentBlock]
<1>1. /\ Shape /\ BlocksDisjoint /\ FreeArrayExact /\ Counted /\ Accounted
      /\ BlockQty \in Nat /\ BlockSize \in Nat /\ NULL \notin Blocks
  BY MemoryAssumption DEF IInv
<1>2. /\ currentBlock \in Blocks /\ b \in Blocks /\ b # NULL
      /\ currentBlock \in Nat /\ currentBlock + 1 \in 0 .. BlockQty
  BY <1>1 DEF Shape, Blocks
<1>3. b \in FreeBlocks
  BY <1>1, <1>2 DEF FreeBlocks, Blocks
<1>4. b \notin HeldBlocks
  BY <1>1, <1>3 DEF FreeArrayExact
<1>5. /\ held' = [held EXCEPT ![h] = b] /\ freeArray' = freeArray
      /\ currentBlock' = currentBlock + 1 /\ nullWritten' = nullWritten
  BY DEF TakeBlock
<1>6. held \in [Holders -> Blocks \cup {NULL}]
  BY <1>1 DEF Shape
<1>7. Shape'
  BY <1>1, <1>2, <1>5 DEF Shape
<1>8. HeldBlocks' = HeldBlocks \cup {b}
  BY <1>2, <1>5, <1>6 DEF HeldBlocks
<1>9. BlocksDisjoint'
  BY <1>1, <1>4, <1>5, <1>6 DEF BlocksDisjoint, HeldBlocks
<1>10. FreeBlocks' = FreeBlocks \ {b}
  BY <1>1, <1>2, <1>5 DEF FreeBlocks, FreeArrayExact
<1>11. FreeArrayExact'
  <2>1. \A i, j \in currentBlock' .. BlockQty - 1 : freeArray'[i] = freeArray'[j] => i = j
    BY <1>1, <1>2, <1>5 DEF FreeArrayExact
  <2>2. FreeBlocks' = Blocks \ HeldBlocks'
    BY <1>1, <1>8, <1>10 DEF FreeArrayExact
  <2>3. QED
    BY <2>1, <2>2 DEF FreeArrayExact, Blocks
<1>12. Counted'
  BY <1>1, <1>4, <1>5, <1>8, FS_AddElement DEF Counted
<1>13. Accounted'
  <2>1. usedMemory' = usedMemory + BlockSize /\ freeBytes' = freeBytes - BlockSize
    BY DEF TakeBlock
  <2>2. usedMemory = BlockSize * currentBlock /\ freeBytes = totalSize - usedMemory
    BY <1>1 DEF Accounted
  <2>3. /\ BlockSize * (currentBlock + 1) = BlockSize * currentBlock + BlockSize
        /\ BlockSize * currentBlock \in Nat /\ totalSize \in Nat
    BY <1>1, <1>2, BlockSizeProducts DEF totalSize
  <2>4. usedMemory' = BlockSize * currentBlock'
    BY <1>5, <2>1, <2>2, <2>3
  <2>5. freeBytes' = totalSize - usedMemory'
    BY <1>1, <2>1, <2>2, <2>3
  <2>6. QED
    BY <2>4, <2>5 DEF Accounted, totalSize
<1>14. QED
  BY <1>3, <1>7, <1>9, <1>10, <1>11, <1>12, <1>13 DEF IInv

\* A block that is given back was not free and is; all else stays.
LEMMA PutBlockSound ==
  ASSUME IInv, NEW h \in Holders, freeMemory(h, held[h])
  PROVE  /\ IInv'
         /\ FreeBlocks' = FreeBlocks \cup {held[h]}
<1> DEFINE b == held[h]
<1>1. /\ Shape /\ BlocksDisjoint /\ FreeArrayExact /\ Counted /\ Accounted
      /\ BlockQty \in Nat /\ BlockSize \in Nat /\ NULL \notin Blocks
  BY MemoryAssumption DEF IInv
<1>2. b \in HeldBlocks /\ b # NULL /\ b \in Blocks
  BY <1>1 DEF freeMemory, HeldBlocks, Shape
<1>3. currentBlock # 0
  BY <1>1, <1>2, FS_EmptySet DEF Counted
<1>4. currentBlock \in Nat /\ currentBlock - 1 \in Blocks /\ currentBlock - 1 \in 0 .. BlockQty
  BY <1>1, <1>3 DEF Shape, Blocks
<1>5. /\ held' = [held EXCEPT ![h] = NULL] /\ nullWritten' = nullWritten
      /\ PutBlock(b)
  BY <1>3 DEF freeMemory
<1>6. /\ freeArray' = [freeArray EXCEPT ![currentBlock - 1] = b]
      /\ currentBlock' = currentBlock - 1
  BY <1>5 DEF PutBlock
<1>7. held \in [Holders -> Blocks \cup {NULL}] /\ freeArray \in [Blocks -> Blocks]
  BY <1>1 DEF Shape
<1>8. Shape'
  BY <1>1, <1>2, <1>4, <1>5, <1>6 DEF Shape
<1>9. HeldBlocks' = HeldBlocks \ {b}
  BY <1>1, <1>2, <1>5, <1>7 DEF HeldBlocks, BlocksDisjoint
<1>10. BlocksDisjoint'
  BY <1>1, <1>5, <1>7 DEF BlocksDisjoint
<1>11. b \notin FreeBlocks
  BY <1>1, <1>2 DEF FreeArrayExact
<1>12. /\ freeArray'[currentBlock - 1] = b
       /\ \A i \in currentBlock .. BlockQty - 1 : freeArray'[i] = freeArray[i]
  BY <1>1, <1>4, <1>6, <1>7 DEF Blocks
<1>13. FreeBlocks' = FreeBlocks \cup {b}
  <2>1. currentBlock' .. BlockQty - 1 = {currentBlock - 1} \cup (currentBlock .. BlockQty - 1)
    BY <1>1, <1>4, <1>6 DEF Blocks
  <2>2. QED
    BY <1>12, <2>1 DEF FreeBlocks
<1>14. FreeArrayExact'
  <2>1. \A i \in currentBlock .. BlockQty - 1 : freeArray[i] \in FreeBlocks
    BY DEF FreeBlocks
  <2>2. \A i, j \in currentBlock' .. BlockQty - 1 : freeArray'[i] = freeArray'[j] => i = j
    BY <1>1, <1>4, <1>6, <1>11, <1>12, <2>1 DEF FreeArrayExact, Blocks
  <2>3. FreeBlocks' = Blocks \ HeldBlocks'
    BY <1>1, <1>2, <1>9, <1>13 DEF FreeArrayExact
  <2>4. QED
    BY <2>2, <2>3 DEF FreeArrayExact, Blocks
<1>15. Counted'
  BY <1>1, <1>2, <1>6, <1>9, FS_RemoveElement DEF Counted
<1>16. Accounted'
  <2> DEFINE n == currentBlock - 1
  <2>1. usedMemory' = usedMemory - BlockSize /\ freeBytes' = freeBytes + BlockSize
    BY <1>5 DEF PutBlock
  <2>2. usedMemory = BlockSize * currentBlock /\ freeBytes = totalSize - usedMemory
    BY <1>1 DEF Accounted
  <2>3. n \in Nat /\ n + 1 = currentBlock
    BY <1>3, <1>4
  <2>4. BlockSize * (n + 1) = BlockSize * n + BlockSize /\ BlockSize * n \in Nat
        /\ totalSize \in Nat
    BY <1>1, <2>3, BlockSizeProducts DEF totalSize
  <2>5. usedMemory' = BlockSize * currentBlock'
    BY <1>1, <1>6, <2>1, <2>2, <2>3, <2>4
  <2>6. freeBytes' = totalSize - usedMemory'
    BY <1>1, <2>1, <2>2, <2>3, <2>4
  <2>7. QED
    BY <2>5, <2>6 DEF Accounted, totalSize
<1>17. QED
  BY <1>8, <1>10, <1>13, <1>14, <1>15, <1>16 DEF IInv

\* A refused request changes neither the array nor what is held.
LEMMA RefusalSound ==
  ASSUME IInv, nullWritten' \in BOOLEAN,
         UNCHANGED <<freeArray, currentBlock, usedMemory, freeBytes, held>>
  PROVE  IInv' /\ FreeBlocks' = FreeBlocks
<1>1. FreeBlocks' = FreeBlocks /\ HeldBlocks' = HeldBlocks
  BY DEF FreeBlocks, HeldBlocks
<1>2. QED
  BY <1>1 DEF IInv, Shape, BlocksDisjoint, FreeArrayExact, Counted, Accounted, totalSize

\* Every step keeps the invariant.
LEMMA NextSound == IInv /\ [Next]_vars => IInv'
<1> SUFFICES ASSUME IInv, [Next]_vars PROVE IInv'
  OBVIOUS
<1>1. ASSUME NEW h \in Holders, NEW size \in Sizes, allocMemory(h, size) PROVE IInv'
  <2>1. CASE CanAlloc(size) /\ TakeBlock(h, size)
    BY <1>1, <2>1, TakeBlockSound DEF allocMemory, CanAlloc
  <2>2. CASE UNCHANGED <<freeArray, currentBlock, usedMemory, freeBytes, held, nullWritten>>
    BY <2>2, RefusalSound DEF IInv, Shape
  <2>3. QED
    BY <1>1, <2>1, <2>2 DEF allocMemory
<1>2. ASSUME NEW h \in Holders, freeMemory(h, held[h]) PROVE IInv'
  BY <1>2, PutBlockSound
<1>3. ASSUME NEW h \in Holders, getMemoryState(h) PROVE IInv'
  <2>1. CASE CanAlloc(StateSize) /\ TakeBlock(h, StateSize)
    BY <1>3, <2>1, TakeBlockSound DEF getMemoryState, CanAlloc
  <2>2. CASE nullWritten' /\ UNCHANGED <<freeArray, currentBlock, usedMemory, freeBytes, held>>
    <3>1. nullWritten' \in BOOLEAN
      BY <1>3, <2>2 DEF getMemoryState, TakeBlock, IInv, Shape
    <3>2. QED
      BY <2>2, <3>1, RefusalSound
  <2>3. QED
    BY <1>3, <2>1, <2>2 DEF getMemoryState
<1>4. CASE UNCHANGED vars
  <2>1. nullWritten' \in BOOLEAN
    BY <1>4 DEF vars, IInv, Shape
  <2>2. QED
    BY <1>4, <2>1, RefusalSound DEF vars
<1>5. QED
  BY <1>1, <1>2, <1>3, <1>4 DEF Next

-----------------------------------------------------------------------------
(***************************************************************************)
(* The theorems.                                                           *)
(***************************************************************************)

\* The inductive invariant holds in every reachable state.
THEOREM InductiveInvariant == Spec => []IInv
BY InitSound, NextSound, PTL DEF Spec

\* Type correctness; the byte counters stay between 0 and the size of the heap,
\* so the unsigned subtractions of the code never wrap.
THEOREM TypeCorrect == Spec => []TypeOK
<1>1. IInv => TypeOK
  <2> SUFFICES ASSUME IInv PROVE TypeOK
    OBVIOUS
  <2>1. currentBlock \in Nat /\ currentBlock <= BlockQty
    BY MemoryAssumption DEF IInv, Shape
  <2>2. BlockSize * currentBlock \in Nat /\ BlockSize * currentBlock <= totalSize
    BY <2>1, BlockSizeProducts
  <2>3. totalSize \in Nat
    BY MemoryAssumption DEF totalSize
  <2>4. usedMemory \in 0 .. totalSize /\ freeBytes \in 0 .. totalSize
    BY <2>2, <2>3 DEF IInv, Accounted
  <2>5. QED
    BY <2>4 DEF IInv, Shape, TypeOK
<1>2. QED
  BY <1>1, InductiveInvariant, PTL

\* No two variables ever hold the same block.
THEOREM BlocksAreDisjoint == Spec => []BlocksDisjoint
<1>1. IInv => BlocksDisjoint
  BY DEF IInv
<1>2. QED
  BY <1>1, InductiveInvariant, PTL

\* The free part of the array is exactly the blocks nobody holds, once each.
THEOREM FreeArrayIsExact == Spec => []FreeArrayExact
<1>1. IInv => FreeArrayExact
  BY DEF IInv
<1>2. QED
  BY <1>1, InductiveInvariant, PTL

\* getMemoryState() reports what is held.
THEOREM AccountingIsExact == Spec => []AccountingExact
<1>1. IInv => AccountingExact
  BY DEF IInv, Counted, Accounted, AccountingExact
<1>2. QED
  BY <1>1, InductiveInvariant, PTL

\* allocMemory(), freeMemory() and getMemoryState() implement the allocator:
\* each maps to giving, refusing or taking back a block.
THEOREM Implementation == Spec => ImplementsAllocator
<1> USE DEF Abstract!Next
<1>1. Init => Abstract!Init
  <2> SUFFICES ASSUME Init PROVE Abstract!Init
    OBVIOUS
  <2>1. FreeBlocks = Blocks
    BY MemoryAssumption DEF Init, FreeBlocks, Blocks
  <2>2. QED
    BY <2>1 DEF Init, Abstract!Init
<1>2. IInv /\ [Next]_vars => [Abstract!Next]_(Abstract!vars)
  <2> SUFFICES ASSUME IInv, [Next]_vars PROVE [Abstract!Next]_(Abstract!vars)
    OBVIOUS
  <2>1. ASSUME NEW h \in Holders, NEW size \in Sizes \cup {StateSize},
               held[h] = NULL, CanAlloc(size), TakeBlock(h, size)
        PROVE  Abstract!Give(h, size)
    <3>1. /\ freeArray[currentBlock] \in FreeBlocks
          /\ FreeBlocks' = FreeBlocks \ {freeArray[currentBlock]}
      BY <2>1, TakeBlockSound DEF CanAlloc
    <3>2. QED
      BY <2>1, <3>1 DEF Abstract!Give, TakeBlock, CanAlloc
  <2>2. ASSUME NEW h \in Holders, NEW size \in Sizes \cup {StateSize},
               held[h] = NULL, ~CanAlloc(size), reply' = <<h, size, NULL>>,
               UNCHANGED <<freeArray, currentBlock, usedMemory, freeBytes, held>>
        PROVE  Abstract!Refuse(h, size)
    <3>1. size > BlockSize \/ FreeBlocks = {}
      <4>1. size \in Nat /\ BlockSize \in Nat /\ BlockQty \in Nat
            /\ currentBlock \in 0 .. BlockQty
        BY MemoryAssumption DEF IInv, Shape
      <4>2. CASE currentBlock = BlockQty
        BY <4>1, <4>2 DEF FreeBlocks
      <4>3. QED
        BY <2>2, <4>1, <4>2 DEF CanAlloc
    <3>2. FreeBlocks' = FreeBlocks
      BY <2>2 DEF FreeBlocks
    <3>3. QED
      BY <2>2, <3>1, <3>2 DEF Abstract!Refuse
  <2>3. ASSUME NEW h \in Holders, NEW size \in Sizes, allocMemory(h, size)
        PROVE  Abstract!Next
    BY <2>1, <2>2, <2>3 DEF allocMemory
  <2>4. ASSUME NEW h \in Holders, freeMemory(h, held[h])
        PROVE  Abstract!Next
    <3>1. FreeBlocks' = FreeBlocks \cup {held[h]}
      BY <2>4, PutBlockSound
    <3>2. Abstract!TakeBack(h)
      BY <2>4, <3>1 DEF freeMemory, Abstract!TakeBack
    <3>3. QED
      BY <3>2
  <2>5. ASSUME NEW h \in Holders, getMemoryState(h)
        PROVE  Abstract!Next
    BY <2>1, <2>2, <2>5 DEF getMemoryState
  <2>6. CASE UNCHANGED vars
    BY <2>6 DEF vars, Abstract!vars, FreeBlocks
  <2>7. QED
    BY <2>3, <2>4, <2>5, <2>6 DEF Next
<1>3. QED
  BY <1>1, <1>2, InductiveInvariant, PTL DEF Spec, ImplementsAllocator, Abstract!Spec

=============================================================================
