----------------------------- MODULE KernelProofs -----------------------------
(***************************************************************************)
(* Proofs about the two modules that extend Scheduler, for every size of   *)
(* their tables.                                                           *)
(*                                                                         *)
(* ProcessMemory: the handlers with their memory are handlers of           *)
(* Scheduler, no stack is ever in two hands, and no block comes back twice.*)
(*                                                                         *)
(* Semaphore, for every content of the memory that semPost() takes for     *)
(* nodes: the scheduler's invariant holds of the kernel with semaphores.   *)
(* A call of semaphore.c touches the scheduler through blockProcess(),     *)
(* unblockProcess() and yield() only, and each of these has its lemma in   *)
(* SchedulerProofs.                                                        *)
(***************************************************************************)
EXTENDS ProcessMemory, Semaphore, SchedulerProofs

USE DEF IDLE_PID, SHELL_PID

USE DEF NoPid, Nowhere, NoStack

-----------------------------------------------------------------------------
(***************************************************************************)
(* The heap: where Scheduler believes the freed node, there it lies.       *)
(***************************************************************************)

HeapInv ==
  /\ freeBlocks \in Int
  /\ cover \in Nat \cup {Nowhere}
  /\ argc \in [Pids -> Nat]
  /\ halted = "no" => dangling = Where(cover)

\* What a process owns beyond its arguments is never nothing.
LEMMA BlocksOfAProcess ==
  ASSUME NEW args \in 0 .. MaxArgs
  PROVE  args \in Nat /\ Blocks(args) \in Nat /\ Blocks(args) >= 3
BY MemoryAssumption DEF Blocks, ArgumentBlocks

\* Blocks that lie above the freed node can be taken and leave it in its place.
LEMMA TakenFromAbove ==
  ASSUME HeapInv, NEW blocks \in Nat, CanTake(blocks), Takes(blocks)
  PROVE  freeBlocks' \in Int /\ cover' \in Nat \cup {Nowhere}
BY DEF HeapInv, CanTake, Takes

\* Blocks given back bury it deeper.
LEMMA GivenBack ==
  ASSUME HeapInv, NEW blocks \in Nat \ {0}, GivesBack(blocks)
  PROVE  /\ freeBlocks' \in Int /\ cover' \in Nat \cup {Nowhere}
         /\ Where(cover') = IF Where(cover) = "top" THEN "buried" ELSE Where(cover)
BY DEF HeapInv, GivesBack, Where

\* Taking blocks and nothing else is a step of Scheduler, or none at all.
LEMMA TakingUncovers ==
  ASSUME HeapInv, halted = "no", NEW blocks \in Nat \ {0}, CanTake(blocks), Takes(blocks),
         dangling' = Where(cover'),
         UNCHANGED <<status, readyList, currentPID, toCleanupPID, processQty, parentPID,
                     children, priority, roundsLeft, halted>>
  PROVE  UncoverFreedNode \/ UNCHANGED vars
<1>1. CASE cover = Nowhere
  <2>1. dangling' = dangling
    BY <1>1 DEF HeapInv, Takes, Where
  <2>2. QED
    BY <2>1 DEF vars
<1>2. CASE cover # Nowhere
  <2>1. cover \in Nat \ {0} /\ cover' \in Nat
    BY <1>2 DEF HeapInv, CanTake, Takes
  <2>2. dangling = "buried" /\ dangling' \in {"buried", "top"}
    BY <2>1 DEF HeapInv, Where
  <2>3. CASE dangling' = "buried"
    BY <2>2, <2>3 DEF vars
  <2>4. CASE dangling' = "top"
    <3>1. Become([Machine EXCEPT !.dangling = "top"])
      BY <2>4, OtherPlace, MachineFields DEF Become, IsMachine
    <3>2. QED
      BY <2>2, <3>1 DEF UncoverFreedNode
  <2>5. QED
    BY <2>2, <2>3, <2>4
<1>3. QED
  BY <1>1, <1>2

-----------------------------------------------------------------------------
(***************************************************************************)
(* The pool, and what a step may do to it.                                 *)
(***************************************************************************)

Free == currentStack .. MaxProcesses - 1

\* Nobody shares a stack, nor is one in the pool twice, nor both.
PoolInv ==
  /\ currentStack \in 0 .. MaxProcesses
  /\ stackPtrs \in [Stacks -> Stacks]
  /\ rbp \in [Pids -> Stacks \cup {NoStack}]
  /\ \A s, t \in Free : stackPtrs[s] = stackPtrs[t] => s = t
  /\ \A p \in InUse : rbp[p] \in Stacks /\ \A s \in Free : stackPtrs[s] # rbp[p]
  /\ \A p, q \in InUse : rbp[p] = rbp[q] => p = q

\* A new process gets the next stack.
StackTaken ==
  /\ StackLeft
  /\ createStack
  /\ \E p \in Pids \ InUse : /\ InUse' = InUse \cup {p}
                             /\ rbp' = [rbp EXCEPT ![p] = stackPtrs[currentStack]]

\* A creation is refused, before or after it took a stack.
StackLost ==
  /\ \/ currentStack' = currentStack
     \/ StackLeft /\ currentStack' = currentStack + 1
  /\ freeBlocks' < freeBlocks
  /\ UNCHANGED <<status, rbp, stackPtrs>>

\* A process is freed with its stack.
StackReturned ==
  \E p \in InUse : /\ InUse' = InUse \ {p}
                   /\ rbp' = [rbp EXCEPT ![p] = NoStack]
                   /\ freeStack(rbp[p])

StacksKept == InUse' = InUse /\ UNCHANGED <<rbp, stackPtrs, currentStack>>

PoolStep == StackTaken \/ StackLost \/ StackReturned \/ StacksKept

\* A process in use has a stack that is not in the pool, so the pool is not
\* full and there is a place to put the stack back.
LEMMA RoomForStack ==
  ASSUME PoolInv, NEW p \in InUse
  PROVE  currentStack \in 1 .. MaxProcesses
<1> SUFFICES ASSUME currentStack = 0 PROVE FALSE
  BY SchedulerAssumption DEF PoolInv
<1> DEFINE S == 0 .. MaxProcesses
           f == [s \in S |-> IF s = MaxProcesses THEN rbp[p] ELSE stackPtrs[s]]
<1>1. \A s \in Stacks : s \in Free /\ stackPtrs[s] \in Stacks
  BY SchedulerAssumption DEF PoolInv, Stacks, Free
<1>2. rbp[p] \in Stacks /\ \A s \in Stacks : stackPtrs[s] # rbp[p]
  BY <1>1 DEF PoolInv
<1>3. \A s \in S : s = MaxProcesses \/ s \in Stacks
  BY SchedulerAssumption DEF Stacks
<1>4. f \in [S -> Stacks]
  BY <1>1, <1>2, <1>3
<1>5. \A s, t \in S : f[s] = f[t] => s = t
  BY <1>1, <1>2, <1>3 DEF PoolInv
<1>6. /\ IsFiniteSet(S) /\ Cardinality(S) = MaxProcesses + 1
      /\ IsFiniteSet(Stacks) /\ Cardinality(Stacks) = MaxProcesses
  BY FS_Interval, SchedulerAssumption DEF Stacks
<1>7. Cardinality(Stacks) < Cardinality(S)
  BY <1>6, SchedulerAssumption
<1> HIDE DEF f, S
<1>8. \E s, t \in S : s # t /\ f[s] = f[t]
  BY <1>4, <1>6, <1>7, FS_PigeonHole
<1>9. QED
  BY <1>5, <1>8

\* Whatever of these a step does, no stack comes into two hands.
LEMMA PoolKept == PoolInv /\ PoolStep => PoolInv'
<1> SUFFICES ASSUME PoolInv, PoolStep PROVE PoolInv'
  OBVIOUS
<1> USE SchedulerAssumption
<1>1. CASE StackTaken
  <2>1. PICK p \in Pids \ InUse : /\ InUse' = InUse \cup {p}
                                  /\ rbp' = [rbp EXCEPT ![p] = stackPtrs[currentStack]]
    BY <1>1 DEF StackTaken
  <2>2. /\ currentStack \in Free /\ currentStack' = currentStack + 1 /\ stackPtrs' = stackPtrs
        /\ currentStack' \in 0 .. MaxProcesses /\ currentStack \in Stacks
    BY <1>1 DEF StackTaken, StackLeft, createStack, PoolInv, Free, Stacks
  <2>3. Free' \subseteq Free /\ currentStack \notin Free'
    BY <2>2 DEF Free, PoolInv
  <2>4. stackPtrs[currentStack] \in Stacks /\ \A q \in InUse : rbp[q] # stackPtrs[currentStack]
    BY <2>2 DEF PoolInv
  <2>5. \A s \in Free' : stackPtrs[s] # stackPtrs[currentStack]
    BY <2>2, <2>3 DEF PoolInv
  <2>6. \A q \in Pids : rbp'[q] = IF q = p THEN stackPtrs[currentStack] ELSE rbp[q]
    BY <2>1 DEF PoolInv
  <2>7. rbp' \in [Pids -> Stacks \cup {NoStack}]
    BY <2>1, <2>4 DEF PoolInv
  <2>8. InUse \subseteq Pids
    BY DEF InUse
  <2>9. \A q \in InUse' : rbp'[q] \in Stacks /\ \A s \in Free' : stackPtrs'[s] # rbp'[q]
    BY <2>1, <2>2, <2>3, <2>4, <2>5, <2>6, <2>8 DEF PoolInv
  <2>10. \A q, r \in InUse' : rbp'[q] = rbp'[r] => q = r
    BY <2>1, <2>4, <2>6, <2>8 DEF PoolInv
  <2>11. \A s, t \in Free' : stackPtrs'[s] = stackPtrs'[t] => s = t
    BY <2>2, <2>3 DEF PoolInv
  <2>12. stackPtrs' \in [Stacks -> Stacks]
    BY <2>2 DEF PoolInv
  <2>13. QED
    BY <2>2, <2>7, <2>9, <2>10, <2>11, <2>12 DEF PoolInv
<1>2. CASE StackLost
  <2>1. currentStack' \in 0 .. MaxProcesses /\ Free' \subseteq Free
    BY <1>2 DEF StackLost, StackLeft, PoolInv, Free
  <2>2. InUse' = InUse /\ rbp' = rbp /\ stackPtrs' = stackPtrs
    BY <1>2 DEF StackLost, InUse
  <2>3. QED
    BY <2>1, <2>2 DEF PoolInv
<1>3. CASE StackReturned
  <2>1. PICK p \in InUse : /\ InUse' = InUse \ {p}
                           /\ rbp' = [rbp EXCEPT ![p] = NoStack]
                           /\ freeStack(rbp[p])
    BY <1>3 DEF StackReturned
  <2>2. currentStack \in 1 .. MaxProcesses
    BY <2>1, RoomForStack
  <2> DEFINE top == currentStack - 1
  <2>3. /\ currentStack' = top /\ top \in Stacks /\ top \notin Free
        /\ stackPtrs' = [stackPtrs EXCEPT ![top] = rbp[p]]
        /\ currentStack' \in 0 .. MaxProcesses
    BY <2>1, <2>2 DEF freeStack, Stacks, Free
  <2>4. Free' = Free \cup {top} /\ Free \subseteq Stacks
    BY <2>2, <2>3 DEF Free, Stacks
  <2> HIDE DEF top
  <2>5. \A s \in Stacks : stackPtrs'[s] = IF s = top THEN rbp[p] ELSE stackPtrs[s]
    BY <2>3 DEF PoolInv
  <2>6. rbp[p] \in Stacks /\ \A s \in Free : stackPtrs[s] # rbp[p]
    BY DEF PoolInv
  <2>7. stackPtrs' \in [Stacks -> Stacks]
    BY <2>3, <2>6 DEF PoolInv
  <2>8. \A q \in Pids : rbp'[q] = IF q = p THEN NoStack ELSE rbp[q]
    BY <2>1 DEF PoolInv
  <2>9. rbp' \in [Pids -> Stacks \cup {NoStack}]
    BY <2>1 DEF PoolInv
  <2>10. InUse \subseteq Pids
    BY DEF InUse
  <2>11. \A q \in InUse' : rbp'[q] = rbp[q] /\ q \in InUse /\ rbp[q] # rbp[p]
    BY <2>1, <2>8, <2>10 DEF PoolInv
  <2>12. \A s, t \in Free' : stackPtrs'[s] = stackPtrs'[t] => s = t
    BY <2>3, <2>4, <2>5, <2>6 DEF PoolInv
  <2>13. \A q \in InUse' : rbp'[q] \in Stacks /\ \A s \in Free' : stackPtrs'[s] # rbp'[q]
    BY <2>3, <2>4, <2>5, <2>11 DEF PoolInv
  <2>14. \A q, r \in InUse' : rbp'[q] = rbp'[r] => q = r
    BY <2>11 DEF PoolInv
  <2>15. QED
    BY <2>3, <2>7, <2>9, <2>12, <2>13, <2>14 DEF PoolInv
<1>4. CASE StacksKept
  <2>1. Free' = Free
    BY <1>4 DEF StacksKept, Free
  <2>2. QED
    BY <1>4, <2>1 DEF StacksKept, PoolInv
<1>5. QED
  BY <1>1, <1>2, <1>3, <1>4 DEF PoolStep

-----------------------------------------------------------------------------
(***************************************************************************)
(* Every step is one of Scheduler or none, keeps the account of the heap   *)
(* and does one of the four things to the pool.                            *)
(***************************************************************************)

\* A process is created.
LEMMA CreateProcessStep ==
  ASSUME IInv, HeapInv, NEW args \in 0 .. MaxArgs, NEW prio \in Priorities,
         CreateProcess(prio, args)
  PROVE  Next /\ HeapInv' /\ PoolStep
<1> DEFINE pid == availablePidValue
<1>1. Next
  BY DEF CreateProcess, Next, Allocation
<1>2. pid \in Pids \ InUse /\ InUse' = InUse \cup {pid} /\ halted' = "no"
  BY CreateAccounts DEF CreateProcess
<1> HIDE DEF pid
<1>3. StackTaken
  BY <1>2 DEF StackTaken, CreateProcess, pid
<1>4. args \in Nat /\ Blocks(args) \in Nat
  BY BlocksOfAProcess
<1>5. freeBlocks' \in Int /\ cover' \in Nat \cup {Nowhere}
  BY <1>4, TakenFromAbove DEF CreateProcess
<1>6. argc' \in [Pids -> Nat] /\ dangling' = Where(cover')
  BY <1>4 DEF CreateProcess, HeapInv
<1>7. HeapInv'
  BY <1>5, <1>6 DEF HeapInv
<1>8. QED
  BY <1>1, <1>3, <1>7 DEF PoolStep

\* A creation is refused half way.
LEMMA RefuseCreationStep ==
  ASSUME IInv, HeapInv, PoolInv, NEW args \in 0 .. MaxArgs, RefuseCreation(args)
  PROVE  [Next]_vars /\ HeapInv' /\ PoolStep
<1>1. PICK blocks \in 1 .. Blocks(args), stacks \in 0 .. 1 :
        /\ RefusedAfter(blocks, stacks, args)
        /\ CanTake(blocks)
        /\ Takes(blocks)
        /\ currentStack' = currentStack + stacks
  BY DEF RefuseCreation
<1>2. blocks \in Nat \ {0}
  BY BlocksOfAProcess
<1>3. halted = "no" /\ dangling' = Where(cover')
  BY DEF RefuseCreation, Issues
<1>4. UncoverFreedNode \/ UNCHANGED vars
  BY <1>1, <1>2, <1>3, TakingUncovers DEF RefuseCreation
<1>5. freeBlocks' \in Int /\ cover' \in Nat \cup {Nowhere}
  BY <1>1, <1>2, TakenFromAbove
<1>6. HeapInv'
  BY <1>3, <1>5 DEF RefuseCreation, HeapInv
<1>7. freeBlocks' < freeBlocks
  BY <1>1, <1>2 DEF Takes, HeapInv
<1>8. stacks = 0 \/ (stacks = 1 /\ StackLeft)
  BY <1>1 DEF RefusedAfter
<1>9. \/ currentStack' = currentStack
      \/ StackLeft /\ currentStack' = currentStack + 1
  <2>1. CASE stacks = 0
    BY <1>1, <2>1 DEF PoolInv
  <2>2. CASE stacks = 1
    BY <1>1, <1>8, <2>2
  <2>3. QED
    BY <1>8, <2>1, <2>2
<1>10. StackLost
  BY <1>7, <1>9 DEF StackLost, RefuseCreation
<1>11. QED
  BY <1>4, <1>6, <1>10 DEF PoolStep, Next, Allocation

\* A creation gets everything but the node.
LEMMA WithoutNodeStep ==
  ASSUME IInv, HeapInv, NEW args \in 0 .. MaxArgs, CreateProcessWithoutNode(args)
  PROVE  Next /\ HeapInv' /\ PoolStep
<1>1. Next
  BY DEF CreateProcessWithoutNode, Next, Allocation
<1>2. halted = "no" /\ dangling = "no"
  BY DEF CreateProcessWithoutNode, CreateWithoutNode, Issues
<1>3. cover = Nowhere
  BY <1>2 DEF HeapInv, Where
<1>4. cover' = Nowhere /\ freeBlocks' = freeBlocks - freeBlocks
  BY <1>3 DEF CreateProcessWithoutNode, Takes
<1>5. freeBlocks \in Int /\ freeBlocks >= 2
  BY BlocksOfAProcess DEF CreateProcessWithoutNode, HeapInv
<1>6. freeBlocks' \in Int /\ freeBlocks' < freeBlocks
  BY <1>4, <1>5
<1>7. dangling' = "no" /\ UNCHANGED status
  BY <1>2, MachineFields DEF CreateProcessWithoutNode, CreateWithoutNode, Become, IsMachine
<1>8. HeapInv'
  BY <1>4, <1>6, <1>7 DEF HeapInv, Where, CreateProcessWithoutNode
<1>9. StackLost
  BY <1>6, <1>7 DEF StackLost, CreateProcessWithoutNode, createStack
<1>10. QED
  BY <1>1, <1>8, <1>9 DEF PoolStep

\* A call takes a block.
LEMMA TakeBlockStep ==
  ASSUME IInv, HeapInv, TakeBlock
  PROVE  [Next]_vars /\ HeapInv' /\ PoolStep
<1>1. halted = "no" /\ dangling' = Where(cover') /\ CanTake(1) /\ Takes(1)
  BY DEF TakeBlock, Issues
<1>2. UncoverFreedNode \/ UNCHANGED vars
  BY <1>1, TakingUncovers DEF TakeBlock
<1>3. freeBlocks' \in Int /\ cover' \in Nat \cup {Nowhere}
  BY <1>1, TakenFromAbove
<1>4. HeapInv'
  BY <1>1, <1>3 DEF TakeBlock, HeapInv, pool
<1>5. StacksKept
  BY DEF StacksKept, InUse, TakeBlock, pool
<1>6. QED
  BY <1>2, <1>4, <1>5 DEF PoolStep, Next, Allocation

\* A step of Scheduler that leaves the memory alone.
LEMMA MemoryKept ==
  ASSUME HeapInv, UNCHANGED memory, halted' = "no" => halted = "no" /\ dangling' = dangling
  PROVE  HeapInv'
BY DEF HeapInv, memory, heap, pool

\* Calls that need no memory, and those that fault.
LEMMA QuietSteps ==
  ASSUME IInv, HeapInv, QuietStep \/ ReachFreedNode \/ \E args \in 0 .. MaxArgs : CopyWithoutBlock(args)
  PROVE  Next /\ HeapInv' /\ PoolStep
<1>1. PICK pid \in Pids :
        \/ pid # currentPID /\ Block(pid)
        \/ Unblock(pid)
        \/ \E call \in VacantCalls : CallOnVacantSlot(call, pid)
        \/ ReuseFreedNode
        \/ UseMissingBlock
  BY VariablesTyped DEF QuietStep, ReachFreedNode, CopyWithoutBlock
<1>2. UNCHANGED memory
  BY DEF QuietStep, ReachFreedNode, CopyWithoutBlock
<1>3. Next
  BY <1>1 DEF Next, Call, Allocation
<1>4. InUse' = InUse
  BY <1>1, OtherAccounts
<1>5. halted' = "no" => halted = "no" /\ dangling' = dangling
  BY <1>1, MachineFields
  DEF Block, Unblock, CallOnVacantSlot, ReuseFreedNode, UseMissingBlock, VacantCalls,
      Issues, Become, IsMachine
<1>6. HeapInv'
  BY <1>2, <1>5, MemoryKept
<1>7. StacksKept
  BY <1>2, <1>4 DEF StacksKept, memory, pool
<1>8. QED
  BY <1>3, <1>6, <1>7 DEF PoolStep

\* The steps that enter schedule() give back what the clean-up frees.
LEMMA SwitchStepStep ==
  ASSUME IInv, HeapInv, SwitchStep
  PROVE  Next /\ HeapInv' /\ PoolStep
<1>1. Next
  BY VariablesTyped DEF SwitchStep, Next, Call
<1>2. halted = "no"
  BY DEF SwitchStep, Tick, Exit, KillSelf, Block, Issues
<1>3. \E n : HandsOver(n) /\ Become(schedule(n))
  BY TickHandsOver, ExitHandsOver, KillSelfHandsOver, BlockHandsOver DEF SwitchStep
<1>4. /\ halted' # "no" => UNCHANGED <<status, processQty>>
      /\ halted' = "no" =>
           /\ InUse' = InUse \ {toCleanupPID}
           /\ dangling' = IF toCleanupPID \in InUse /\ dangling = "top"
                          THEN "buried" ELSE dangling
  BY <1>3, SwitchAccounts
<1>5. Reaped = {toCleanupPID} \cap InUse
  BY VariablesTyped, SchedulerAssumption DEF Reaped, InUse, Pids
<1>6. CleanUpMemory
  BY DEF SwitchStep
<1>7. CASE halted' # "no"
  <2>1. UNCHANGED memory /\ InUse' = InUse
    BY <1>4, <1>6, <1>7 DEF CleanUpMemory, InUse
  <2>2. HeapInv' /\ StacksKept
    BY <1>7, <2>1, MemoryKept DEF StacksKept, memory, pool
  <2>3. QED
    BY <1>1, <2>2 DEF PoolStep
<1>8. CASE halted' = "no" /\ toCleanupPID \notin InUse
  <2>1. UNCHANGED memory /\ InUse' = InUse /\ dangling' = dangling
    BY <1>4, <1>5, <1>6, <1>8 DEF CleanUpMemory
  <2>2. HeapInv' /\ StacksKept
    BY <1>2, <2>1, MemoryKept DEF StacksKept, memory, pool
  <2>3. QED
    BY <1>1, <2>2 DEF PoolStep
<1>9. CASE halted' = "no" /\ toCleanupPID \in InUse
  <2>1. GivesBack(2) /\ Vacate(toCleanupPID)
    BY <1>5, <1>6, <1>9 DEF CleanUpMemory
  <2>2. /\ freeBlocks' \in Int /\ cover' \in Nat \cup {Nowhere}
        /\ Where(cover') = IF Where(cover) = "top" THEN "buried" ELSE Where(cover)
    BY <2>1, GivenBack
  <2>3. dangling' = Where(cover')
    BY <1>2, <1>4, <1>9, <2>2 DEF HeapInv
  <2>4. argc' \in [Pids -> Nat]
    BY <2>1 DEF Vacate, HeapInv
  <2>5. StackReturned
    BY <1>4, <1>9, <2>1 DEF StackReturned, Vacate
  <2>6. QED
    BY <1>1, <2>2, <2>3, <2>4, <2>5 DEF PoolStep, HeapInv
<1>10. QED
  BY <1>7, <1>8, <1>9

\* A kill of another process gives back what the victim had, the node last.
LEMMA KillStepStep ==
  ASSUME IInv, HeapInv, KillStep
  PROVE  Next /\ HeapInv' /\ PoolStep
<1>1. PICK pid \in Pids : KillOther(pid) /\ KillOtherMemory(pid)
  BY DEF KillStep
<1>2. Next
  BY <1>1 DEF Next, Call
<1>3. /\ halted' # "no" => UNCHANGED <<status, processQty>>
      /\ halted' = "no" =>
           /\ pid \in InUse /\ InUse' = InUse \ {pid}
           /\ dangling' = IF status[pid] = "KILLED" THEN "top"
                          ELSE IF dangling = "top" THEN "buried" ELSE dangling
  BY <1>1, KillAccounts
<1>4. CASE halted' # "no"
  <2>1. UNCHANGED memory /\ InUse' = InUse
    BY <1>1, <1>3, <1>4 DEF KillOtherMemory, InUse
  <2>2. HeapInv' /\ StacksKept
    BY <1>4, <2>1, MemoryKept DEF StacksKept, memory, pool
  <2>3. QED
    BY <1>2, <2>2 DEF PoolStep
<1>5. CASE halted' = "no"
  <2>1. /\ freeBlocks' = freeBlocks + 3 + argc[pid]
        /\ cover' = IF status[pid] = "KILLED" THEN 0
                    ELSE IF cover = Nowhere THEN Nowhere ELSE cover + 3 + argc[pid]
        /\ Vacate(pid)
    BY <1>1, <1>5 DEF KillOtherMemory
  <2>2. argc[pid] \in Nat /\ argc' \in [Pids -> Nat]
    BY <2>1 DEF HeapInv, Vacate
  <2>3. halted = "no" /\ dangling = Where(cover)
    BY <1>1 DEF KillOther, Issues, HeapInv
  <2>4. freeBlocks' \in Int
    BY <2>1, <2>2 DEF HeapInv
  <2>5. cover' \in Nat \cup {Nowhere} /\ dangling' = Where(cover')
    <3>1. CASE status[pid] = "KILLED"
      BY <1>3, <1>5, <2>1, <3>1 DEF Where
    <3>2. CASE status[pid] # "KILLED" /\ cover = Nowhere
      BY <1>3, <1>5, <2>1, <2>3, <3>2 DEF Where
    <3>3. CASE status[pid] # "KILLED" /\ cover # Nowhere
      <4>1. cover \in Nat /\ cover' = cover + 3 + argc[pid]
        BY <2>1, <3>3 DEF HeapInv
      <4>2. cover' \in Nat \ {0}
        BY <2>2, <4>1
      <4>3. Where(cover') = "buried" /\ Where(cover) \in {"top", "buried"}
        BY <4>1, <4>2 DEF Where
      <4>4. QED
        BY <1>3, <1>5, <2>3, <3>3, <4>2, <4>3
    <3>4. QED
      BY <3>1, <3>2, <3>3
  <2>6. StackReturned
    BY <1>3, <1>5, <2>1 DEF StackReturned, Vacate
  <2>7. QED
    BY <1>2, <2>2, <2>4, <2>5, <2>6 DEF PoolStep, HeapInv
<1>6. QED
  BY <1>4, <1>5

-----------------------------------------------------------------------------
(***************************************************************************)
(* The account of the heap: what a step takes, and from whom it gives back.*)
(***************************************************************************)

\* The blocks that the processes of L own, with a(p) arguments each.
Claims(L, a) == UNION {{p} \X (1 .. Blocks(a[p])) : p \in L}

\* The blocks that are owned can be counted.
LEMMA ClaimsCounted ==
  ASSUME NEW L \in SUBSET Pids, NEW a \in [Pids -> 0 .. MaxArgs]
  PROVE  IsFiniteSet(Claims(L, a)) /\ Cardinality(Claims(L, a)) \in Nat
<1>1. \A q \in Pids : Blocks(a[q]) \in Nat /\ Blocks(a[q]) <= MaxArgs + 4
  BY MemoryAssumption DEF Blocks, ArgumentBlocks
<1>2. IsFiniteSet(Pids) /\ IsFiniteSet(1 .. MaxArgs + 4)
  BY FS_Interval, SchedulerAssumption, MemoryAssumption DEF Pids
<1>3. IsFiniteSet(Pids \X (1 .. MaxArgs + 4))
  BY <1>2, FS_Product
<1>4. Claims(L, a) \subseteq Pids \X (1 .. MaxArgs + 4)
  <2>1. ASSUME NEW q \in L
        PROVE  {q} \X (1 .. Blocks(a[q])) \subseteq Pids \X (1 .. MaxArgs + 4)
    <3>1. 1 .. Blocks(a[q]) \subseteq 1 .. MaxArgs + 4
      BY <1>1, MemoryAssumption
    <3>2. QED
      BY <3>1
  <2>2. QED
    BY <2>1 DEF Claims
<1>5. IsFiniteSet(Claims(L, a))
  BY <1>3, <1>4, FS_Subset
<1>6. QED
  BY <1>5, FS_CardinalityType

\* A process more: its blocks are its own.
LEMMA ClaimsAdded ==
  ASSUME NEW L \in SUBSET Pids, NEW p \in Pids \ L,
         NEW a \in [Pids -> 0 .. MaxArgs], NEW b \in [Pids -> 0 .. MaxArgs],
         \A q \in L : b[q] = a[q]
  PROVE  /\ Cardinality(Claims(L, a)) \in Nat
         /\ Cardinality(Claims(L \cup {p}, b)) = Cardinality(Claims(L, a)) + Blocks(b[p])
<1> DEFINE D == {p} \X (1 .. Blocks(b[p]))
<1>2. Blocks(b[p]) \in Nat
  BY BlocksOfAProcess
<1>3. IsFiniteSet(Claims(L, a)) /\ Cardinality(Claims(L, a)) \in Nat
  BY ClaimsCounted
<1>4. IsFiniteSet(D) /\ Cardinality(D) = Blocks(b[p])
  <2>1. IsFiniteSet({p}) /\ Cardinality({p}) = 1
    BY FS_Singleton, Zenon
  <2>2. IsFiniteSet(1 .. Blocks(b[p])) /\ Cardinality(1 .. Blocks(b[p])) = Blocks(b[p])
    BY <1>2, FS_Interval
  <2>3. IsFiniteSet(D) /\ Cardinality(D) = Cardinality({p}) * Cardinality(1 .. Blocks(b[p]))
    BY <2>1, <2>2, FS_Product
  <2> HIDE DEF D
  <2>4. QED
    BY <1>2, <2>1, <2>2, <2>3
<1>5. Claims(L \cup {p}, b) = Claims(L, a) \cup D
  BY Zenon DEF Claims
<1>6. Claims(L, a) \cap D = {}
  BY DEF Claims
<1> HIDE DEF D
<1>7. Cardinality(Claims(L, a) \cap D) = 0
  BY <1>6, FS_EmptySet
<1>8. Cardinality(Claims(L, a) \cup D)
        = Cardinality(Claims(L, a)) + Cardinality(D) - Cardinality(Claims(L, a) \cap D)
  BY <1>3, <1>4, FS_Union
<1>9. Cardinality(Claims(L \cup {p}, b)) = Cardinality(Claims(L, a) \cup D)
  BY <1>5, Zenon
<1>10. QED
  BY <1>2, <1>3, <1>4, <1>7, <1>8, <1>9

\* What every step leaves true of the heap.
AccountInv ==
  /\ freeBlocks \in Nat
  /\ cover # Nowhere => cover < freeBlocks
  /\ argc \in [Pids -> 0 .. MaxArgs]
  /\ freeBlocks + Cardinality(Claims(InUse, argc)) <= BLOCK_QTY - 2

\* A new process takes what it will own.
BlocksTaken ==
  \E p \in Pids \ InUse, args \in 0 .. MaxArgs :
    /\ InUse' = InUse \cup {p} /\ argc' = [argc EXCEPT ![p] = args]
    /\ CanTake(Blocks(args)) /\ Takes(Blocks(args))

\* Blocks are taken that no process owns.
BlocksSpent ==
  /\ InUse' = InUse /\ argc' = argc
  /\ \E n \in Nat : CanTake(n) /\ Takes(n)

\* A process ends, and no more than it owned is given back.
BlocksReturned ==
  \E p \in InUse : \E n \in 1 .. Blocks(argc[p]) :
    /\ InUse' = InUse \ {p} /\ argc' = [argc EXCEPT ![p] = 0]
    /\ freeBlocks' = freeBlocks + n
    /\ cover' \in {0, Nowhere, cover + n}

HeapKept == InUse' = InUse /\ UNCHANGED <<freeBlocks, cover, argc>>

AccountStep == BlocksTaken \/ BlocksSpent \/ BlocksReturned \/ HeapKept

\* Whatever of these a step does, the account is kept.
LEMMA AccountKept == HeapInv /\ AccountInv /\ AccountStep => AccountInv'
<1> SUFFICES ASSUME HeapInv, AccountInv, AccountStep PROVE AccountInv'
  OBVIOUS
<1> DEFINE N == Cardinality(Claims(InUse, argc))
<1>1. /\ freeBlocks \in Nat /\ cover \in Nat \cup {Nowhere} /\ InUse \in SUBSET Pids
      /\ cover # Nowhere => cover < freeBlocks
      /\ argc \in [Pids -> 0 .. MaxArgs]
      /\ freeBlocks + N <= BLOCK_QTY - 2
      /\ BLOCK_QTY \in Nat
  BY MemoryAssumption DEF AccountInv, HeapInv, InUse
<1>2. CASE BlocksTaken
  <2>1. PICK p \in Pids \ InUse, args \in 0 .. MaxArgs :
          /\ InUse' = InUse \cup {p} /\ argc' = [argc EXCEPT ![p] = args]
          /\ CanTake(Blocks(args)) /\ Takes(Blocks(args))
    BY <1>2 DEF BlocksTaken
  <2>2. /\ argc' \in [Pids -> 0 .. MaxArgs] /\ argc'[p] = args
        /\ \A q \in InUse : argc'[q] = argc[q]
    BY <1>1, <2>1
  <2>3. N \in Nat /\ Cardinality(Claims(InUse', argc')) = N + Blocks(args)
    <3>1. /\ N \in Nat
          /\ Cardinality(Claims(InUse \cup {p}, argc')) = N + Blocks(argc'[p])
      BY <1>1, <2>2, ClaimsAdded
    <3>2. QED
      BY <2>1, <2>2, <3>1
  <2>4. Blocks(args) \in Nat
    BY BlocksOfAProcess
  <2> HIDE DEF N
  <2>5. /\ freeBlocks' \in Nat /\ (cover' # Nowhere => cover' < freeBlocks')
        /\ freeBlocks' = freeBlocks - Blocks(args)
    BY <1>1, <2>1, <2>4 DEF CanTake, Takes
  <2>6. QED
    BY <1>1, <2>2, <2>3, <2>4, <2>5 DEF AccountInv
<1>3. CASE BlocksSpent \/ HeapKept
  <2>1. N \in Nat
    BY <1>1, ClaimsCounted
  <2>2. Cardinality(Claims(InUse', argc')) = N
    BY <1>3 DEF BlocksSpent, HeapKept
  <2> HIDE DEF N
  <2>3. /\ freeBlocks' \in Nat /\ (cover' # Nowhere => cover' < freeBlocks')
        /\ freeBlocks' <= freeBlocks
    <3>1. CASE BlocksSpent
      <4>1. PICK n \in Nat : CanTake(n) /\ Takes(n)
        BY <3>1 DEF BlocksSpent
      <4>2. QED
        BY <1>1, <4>1 DEF CanTake, Takes
    <3>2. CASE HeapKept
      BY <1>1, <3>2 DEF HeapKept
    <3>3. QED
      BY <1>3, <3>1, <3>2
  <2>4. argc' \in [Pids -> 0 .. MaxArgs]
    BY <1>1, <1>3 DEF BlocksSpent, HeapKept
  <2>5. freeBlocks' + N <= BLOCK_QTY - 2
    <3>1. \A i, j, k, l \in Int : i <= j /\ j + k <= l - 2 => i + k <= l - 2
      OBVIOUS
    <3>2. /\ freeBlocks \in Int /\ freeBlocks' \in Int /\ N \in Int /\ BLOCK_QTY \in Int
          /\ freeBlocks' <= freeBlocks /\ freeBlocks + N <= BLOCK_QTY - 2
      BY <1>1, <2>1, <2>3
    <3>3. QED
      BY <3>1, <3>2, Zenon
  <2>6. QED
    BY <2>2, <2>3, <2>4, <2>5 DEF AccountInv
<1>4. CASE BlocksReturned
  <2>1. PICK p \in InUse : \E k \in 1 .. Blocks(argc[p]) :
          /\ InUse' = InUse \ {p} /\ argc' = [argc EXCEPT ![p] = 0]
          /\ freeBlocks' = freeBlocks + k
          /\ cover' \in {0, Nowhere, cover + k}
    BY <1>4 DEF BlocksReturned
  <2>2. PICK n \in 1 .. Blocks(argc[p]) :
          /\ freeBlocks' = freeBlocks + n
          /\ cover' \in {0, Nowhere, cover + n}
    BY <2>1
  <2>3. /\ argc' \in [Pids -> 0 .. MaxArgs]
        /\ \A q \in InUse \ {p} : argc[q] = argc'[q]
    BY <1>1, <2>1, MemoryAssumption
  <2> DEFINE M == Cardinality(Claims(InUse', argc'))
  <2>4. (InUse \ {p}) \cup {p} = InUse /\ InUse' = InUse \ {p}
    BY <2>1
  <2>5. M \in Nat /\ N = M + Blocks(argc[p])
    BY <1>1, <2>3, <2>4, ClaimsAdded
  <2>6. Blocks(argc[p]) \in Nat /\ n \in Nat /\ n >= 1 /\ n <= Blocks(argc[p])
    BY <1>1, BlocksOfAProcess
  <2> HIDE DEF N, M
  <2>7. freeBlocks' \in Nat /\ (cover' # Nowhere => cover' < freeBlocks')
    BY <1>1, <2>2, <2>6
  <2>8. freeBlocks' + M <= BLOCK_QTY - 2
    BY <1>1, <2>2, <2>5, <2>6
  <2>9. QED
    BY <2>3, <2>7, <2>8 DEF AccountInv, M
<1>5. QED
  BY <1>2, <1>3, <1>4 DEF AccountStep

\* A clean-up gives back two of the three blocks, and more, of whom it frees.
LEMMA SwitchReturns ==
  ASSUME IInv, AccountInv, SwitchStep
  PROVE  AccountStep
<1>1. \E n : HandsOver(n) /\ Become(schedule(n))
  BY TickHandsOver, ExitHandsOver, KillSelfHandsOver, BlockHandsOver DEF SwitchStep
<1>2. /\ halted' # "no" => UNCHANGED <<status, processQty>>
      /\ halted' = "no" => InUse' = InUse \ {toCleanupPID}
  BY <1>1, SwitchAccounts
<1>3. Reaped = {toCleanupPID} \cap InUse
  BY VariablesTyped, SchedulerAssumption DEF Reaped, InUse, Pids
<1>4. CleanUpMemory
  BY DEF SwitchStep
<1>5. CASE halted' # "no"
  <2>1. UNCHANGED memory /\ InUse' = InUse
    BY <1>2, <1>4, <1>5 DEF CleanUpMemory, InUse
  <2>2. QED
    BY <2>1 DEF AccountStep, HeapKept, memory, heap, pool
<1>6. CASE halted' = "no" /\ toCleanupPID \notin InUse
  <2>1. UNCHANGED memory /\ InUse' = InUse
    BY <1>2, <1>3, <1>4, <1>6 DEF CleanUpMemory
  <2>2. QED
    BY <2>1 DEF AccountStep, HeapKept, memory, heap, pool
<1>7. CASE halted' = "no" /\ toCleanupPID \in InUse
  <2>1. GivesBack(2) /\ Vacate(toCleanupPID)
    BY <1>3, <1>4, <1>7 DEF CleanUpMemory
  <2>2. argc[toCleanupPID] \in 0 .. MaxArgs
    BY <1>7 DEF AccountInv, InUse
  <2>3. 2 \in 1 .. Blocks(argc[toCleanupPID])
    BY <2>2, BlocksOfAProcess
  <2>4. QED
    BY <1>2, <1>7, <2>1, <2>3 DEF AccountStep, BlocksReturned, GivesBack, Vacate
<1>8. QED
  BY <1>5, <1>6, <1>7

\* A kill gives back every block of the victim but the array of its arguments.
LEMMA KillReturns ==
  ASSUME IInv, HeapInv, AccountInv, KillStep
  PROVE  AccountStep
<1>1. PICK pid \in Pids : KillOther(pid) /\ KillOtherMemory(pid)
  BY DEF KillStep
<1>2. /\ halted' # "no" => UNCHANGED <<status, processQty>>
      /\ halted' = "no" => pid \in InUse /\ InUse' = InUse \ {pid}
  BY <1>1, KillAccounts
<1>3. CASE halted' # "no"
  <2>1. UNCHANGED memory /\ InUse' = InUse
    BY <1>1, <1>2, <1>3 DEF KillOtherMemory, InUse
  <2>2. QED
    BY <2>1 DEF AccountStep, HeapKept, memory, heap, pool
<1>4. CASE halted' = "no"
  <2> DEFINE n == 3 + argc[pid]
  <2>1. argc[pid] \in 0 .. MaxArgs /\ freeBlocks \in Nat
    BY DEF AccountInv
  <2>2. n \in 1 .. Blocks(argc[pid])
    BY <2>1, MemoryAssumption DEF Blocks, ArgumentBlocks
  <2>3. freeBlocks' = freeBlocks + n /\ Vacate(pid)
    BY <1>1, <1>4, <2>1, MemoryAssumption DEF KillOtherMemory
  <2>4. cover' \in {0, Nowhere, cover + 3 + argc[pid]}
    BY <1>1, <1>4 DEF KillOtherMemory
  <2>5. cover + 3 + argc[pid] = cover + n
    BY <2>1, MemoryAssumption DEF HeapInv
  <2>6. QED
    BY <1>2, <1>4, <2>2, <2>3, <2>4, <2>5 DEF AccountStep, BlocksReturned, Vacate
<1>5. QED
  BY <1>3, <1>4

\* Every step takes or gives back as the account allows.
LEMMA EveryStepAccounts ==
  ASSUME IInv, HeapInv, AccountInv, [MemoryNext]_memoryVars
  PROVE  AccountStep
<1>1. CASE UNCHANGED memoryVars
  BY <1>1 DEF AccountStep, HeapKept, memoryVars, vars, memory, heap, pool, InUse
<1>2. ASSUME NEW args \in 0 .. MaxArgs, NEW prio \in Priorities, CreateProcess(prio, args)
      PROVE  AccountStep
  <2>1. availablePidValue \in Pids \ InUse /\ InUse' = InUse \cup {availablePidValue}
    BY <1>2, CreateAccounts DEF CreateProcess
  <2>2. QED
    BY <1>2, <2>1 DEF AccountStep, BlocksTaken, CreateProcess
<1>3. ASSUME NEW args \in 0 .. MaxArgs, RefuseCreation(args)
      PROVE  AccountStep
  <2>1. PICK blocks \in 1 .. Blocks(args) : CanTake(blocks) /\ Takes(blocks)
    BY <1>3 DEF RefuseCreation
  <2>2. blocks \in Nat
    BY BlocksOfAProcess
  <2>3. InUse' = InUse /\ argc' = argc
    BY <1>3 DEF RefuseCreation, InUse
  <2>4. QED
    BY <2>1, <2>2, <2>3 DEF AccountStep, BlocksSpent
<1>4. ASSUME NEW args \in 0 .. MaxArgs, CreateProcessWithoutNode(args)
      PROVE  AccountStep
  <2>1. CreateWithoutNode /\ Takes(freeBlocks) /\ argc' = argc
    BY <1>4 DEF CreateProcessWithoutNode
  <2>2. IDLE_PID \in Pids
    BY SchedulerAssumption DEF Pids
  <2>3. InUse' = InUse
    BY <2>1, <2>2, OtherAccounts
  <2>4. halted = "no" /\ dangling = "no"
    BY <2>1 DEF CreateWithoutNode, Issues
  <2>5. cover = Nowhere /\ freeBlocks \in Nat
    BY <2>4 DEF HeapInv, AccountInv, Where
  <2>6. CanTake(freeBlocks)
    BY <2>5 DEF CanTake
  <2>7. QED
    BY <2>1, <2>3, <2>5, <2>6 DEF AccountStep, BlocksSpent
<1>5. CASE QuietStep \/ ReachFreedNode \/ \E args \in 0 .. MaxArgs : CopyWithoutBlock(args)
  <2>1. PICK pid \in Pids :
          \/ pid # currentPID /\ Block(pid)
          \/ Unblock(pid)
          \/ \E call \in VacantCalls : CallOnVacantSlot(call, pid)
          \/ ReuseFreedNode
          \/ UseMissingBlock
    BY <1>5, VariablesTyped DEF QuietStep, ReachFreedNode, CopyWithoutBlock
  <2>2. InUse' = InUse
    BY <2>1, OtherAccounts
  <2>3. UNCHANGED memory
    BY <1>5 DEF QuietStep, ReachFreedNode, CopyWithoutBlock
  <2>4. QED
    BY <2>2, <2>3 DEF AccountStep, HeapKept, memory, heap, pool
<1>6. CASE TakeBlock
  <2>1. CanTake(1) /\ Takes(1) /\ InUse' = InUse /\ argc' = argc
    BY <1>6 DEF TakeBlock, InUse, pool
  <2>2. QED
    BY <2>1 DEF AccountStep, BlocksSpent
<1>7. CASE SwitchStep \/ KillStep
  BY <1>7, SwitchReturns, KillReturns
<1>8. QED
  BY <1>1, <1>2, <1>3, <1>4, <1>5, <1>6, <1>7 DEF MemoryNext

\* main() leaves eight blocks taken: two of the scheduler and its list, and
\* three of each of the first two processes.
LEMMA AccountOpened == MemoryInit => AccountInv
<1> SUFFICES ASSUME MemoryInit PROVE AccountInv
  OBVIOUS
<1>1. /\ IDLE_PID \in Pids /\ SHELL_PID \in Pids /\ InUse = {IDLE_PID, SHELL_PID}
      /\ MaxArgs \in Nat /\ BLOCK_QTY \in Nat /\ BLOCK_QTY >= 8
      /\ freeBlocks = BLOCK_QTY - 8 /\ cover = Nowhere
  BY SchedulerAssumption, MemoryAssumption DEF MemoryInit, Init, InUse, Pids, BootBlocks
<1>2. argc \in [Pids -> 0 .. MaxArgs] /\ \A p \in Pids : argc[p] = 0
  BY <1>1 DEF MemoryInit
<1>3. Blocks(0) = 3
  BY DEF Blocks, ArgumentBlocks
<1>4. Cardinality(Claims({}, argc)) = 0
  <2>1. Claims({}, argc) = {}
    BY DEF Claims
  <2>2. QED
    BY <2>1, FS_EmptySet
<1>5. Cardinality(Claims({IDLE_PID}, argc)) = 3
  <2>1. Cardinality(Claims({} \cup {IDLE_PID}, argc)) = 0 + Blocks(argc[IDLE_PID])
    BY <1>1, <1>2, <1>4, ClaimsAdded
  <2>2. {} \cup {IDLE_PID} = {IDLE_PID}
    OBVIOUS
  <2>3. QED
    BY <1>1, <1>2, <1>3, <2>1, <2>2
<1>6. Cardinality(Claims(InUse, argc)) = 6
  <2>1. SHELL_PID \in Pids \ {IDLE_PID} /\ {IDLE_PID} \in SUBSET Pids
    BY <1>1
  <2>2. Cardinality(Claims({IDLE_PID} \cup {SHELL_PID}, argc)) = 3 + Blocks(argc[SHELL_PID])
    BY <1>2, <1>5, <2>1, ClaimsAdded
  <2>3. {IDLE_PID} \cup {SHELL_PID} = InUse
    BY <1>1
  <2>4. QED
    BY <1>1, <1>2, <1>3, <2>2, <2>3
<1>7. QED
  BY <1>1, <1>2, <1>6 DEF AccountInv

-----------------------------------------------------------------------------
(***************************************************************************)
(* The theorems.                                                           *)
(***************************************************************************)

MemoryInv == IInv /\ HeapInv /\ PoolInv

\* The steps, all together.
LEMMA MemoryStep ==
  ASSUME MemoryInv, [MemoryNext]_memoryVars
  PROVE  [Next]_vars /\ HeapInv' /\ PoolStep
<1> USE DEF MemoryInv
<1>1. CASE UNCHANGED memoryVars
  <2>1. UNCHANGED vars /\ UNCHANGED memory
    BY <1>1 DEF memoryVars
  <2>2. HeapInv' /\ StacksKept
    BY <2>1, MemoryKept DEF vars, memory, pool, StacksKept, InUse
  <2>3. QED
    BY <2>1, <2>2 DEF PoolStep
<1>2. ASSUME NEW args \in 0 .. MaxArgs, NEW prio \in Priorities, CreateProcess(prio, args)
      PROVE  [Next]_vars /\ HeapInv' /\ PoolStep
  BY <1>2, CreateProcessStep
<1>3. ASSUME NEW args \in 0 .. MaxArgs, RefuseCreation(args) \/ CreateProcessWithoutNode(args)
      PROVE  [Next]_vars /\ HeapInv' /\ PoolStep
  BY <1>3, RefuseCreationStep, WithoutNodeStep
<1>4. CASE QuietStep \/ ReachFreedNode \/ \E args \in 0 .. MaxArgs : CopyWithoutBlock(args)
  BY <1>4, QuietSteps
<1>5. CASE TakeBlock
  BY <1>5, TakeBlockStep
<1>6. CASE SwitchStep
  BY <1>6, SwitchStepStep
<1>7. CASE KillStep
  BY <1>7, KillStepStep
<1>8. QED
  BY <1>1, <1>2, <1>3, <1>4, <1>5, <1>6, <1>7 DEF MemoryNext

\* main() leaves two processes on the first two stacks, and no freed node.
LEMMA MemoryInitSound == MemoryInit => MemoryInv
<1> SUFFICES ASSUME MemoryInit PROVE MemoryInv
  OBVIOUS
<1> USE SchedulerAssumption, MemoryAssumption DEF MemoryInit
<1>1. IInv
  BY InitSound
<1>2. HeapInv
  BY DEF HeapInv, Where, Init, BootBlocks
<1>3. InUse = {IDLE_PID, SHELL_PID}
  BY DEF Init, InUse, Pids
<1>4. PoolInv
  BY <1>3 DEF PoolInv, Stacks, Free, Pids
<1>5. QED
  BY <1>1, <1>2, <1>4 DEF MemoryInv

\* The inductive invariant holds in every reachable state.
LEMMA MemoryInvariant == MemorySpec => []MemoryInv
<1>1. MemoryInv /\ [MemoryNext]_memoryVars => MemoryInv'
  BY MemoryStep, NextSound, PoolKept DEF MemoryInv
<1>2. QED
  BY <1>1, MemoryInitSound, PTL DEF MemorySpec

\* The handlers with the blocks and stacks they take and give back, refused
\* half way or not, are handlers of Scheduler: what is proved of Scheduler
\* holds whatever the heap and the pool hold.
THEOREM HandlersImplementScheduler == MemorySpec => ImplementsScheduler
<1>1. MemoryInit => Init
  BY DEF MemoryInit
<1>2. MemoryInv /\ [MemoryNext]_memoryVars => [Next]_vars
  BY MemoryStep
<1>3. QED
  BY <1>1, <1>2, MemoryInvariant, PTL DEF MemorySpec, ImplementsScheduler, Spec

\* No two processes ever share a stack and the pool never holds the stack of
\* one that still lives, whatever the order of creations, refused or not,
\* kills, exits and clean-ups.
THEOREM StacksAreDisjoint == MemorySpec => []StacksDisjoint
<1>1. MemoryInv => StacksDisjoint
  <2> SUFFICES ASSUME PoolInv PROVE StacksDisjoint
    BY DEF MemoryInv
  <2> DEFINE FreeStacks == {stackPtrs[s] : s \in Free}
             f == [s \in Free |-> stackPtrs[s]]
  <2>1. f \in Bijection(Free, FreeStacks)
    BY DEF PoolInv, Bijection, Injection, Surjection, IsInjective
  <2>2. IsFiniteSet(Free) /\ Cardinality(Free) = MaxProcesses - currentStack
    BY FS_Interval, SchedulerAssumption DEF PoolInv, Free
  <2>3. Cardinality(FreeStacks) = MaxProcesses - currentStack
    BY <2>1, <2>2, FS_Bijection DEF ExistsBijection
  <2>4. Live = InUse
    BY DEF Live, InUse
  <2>5. QED
    BY <2>3, <2>4 DEF StacksDisjoint, PoolInv, Free
<1>2. QED
  BY <1>1, MemoryInvariant, PTL

\* Only a creation that is refused loses a stack; it changes no process and
\* loses a block with it.
THEOREM RefusalsAloneLoseStacks == MemorySpec => OnlyRefusalsLoseStacks
<1>1. ASSUME MemoryInv, [MemoryNext]_memoryVars, LostStacks' > LostStacks
      PROVE  UNCHANGED status /\ freeBlocks' < freeBlocks
  <2>1. IsFiniteSet(InUse)
    <3>1. IsFiniteSet(Pids)
      BY FS_Interval, SchedulerAssumption DEF Pids
    <3>2. QED
      BY <3>1, FS_Subset DEF InUse
  <2>2. Cardinality(InUse) \in Int /\ currentStack \in Int
    BY <1>1, <2>1, FS_CardinalityType DEF MemoryInv, PoolInv
  <2>3. currentStack' - Cardinality(InUse') > currentStack - Cardinality(InUse)
    BY <1>1 DEF LostStacks, Live, InUse
  <2>4. CASE StackLost
    BY <2>4 DEF StackLost
  <2>5. CASE StackTaken
    <3>1. PICK p \in Pids \ InUse : InUse' = InUse \cup {p}
      BY <2>5 DEF StackTaken
    <3>2. currentStack' = currentStack + 1
      BY <2>5 DEF StackTaken, createStack
    <3>3. Cardinality(InUse') = Cardinality(InUse) + 1
      BY <2>1, <3>1, FS_AddElement
    <3>4. QED
      BY <2>2, <2>3, <3>2, <3>3
  <2>6. CASE StackReturned
    <3>1. PICK p \in InUse : InUse' = InUse \ {p} /\ freeStack(rbp[p])
      BY <2>6 DEF StackReturned
    <3>2. currentStack' = currentStack - 1
      BY <1>1, <3>1, RoomForStack DEF freeStack, MemoryInv
    <3>3. Cardinality(InUse') = Cardinality(InUse) - 1
      BY <2>1, <3>1, FS_RemoveElement
    <3>4. QED
      BY <2>2, <2>3, <3>2, <3>3
  <2>7. CASE StacksKept
    BY <2>2, <2>3, <2>7 DEF StacksKept
  <2>8. PoolStep
    BY <1>1, MemoryStep
  <2>9. QED
    BY <2>4, <2>5, <2>6, <2>7, <2>8 DEF PoolStep
<1>2. MemoryInv /\ [MemoryNext]_memoryVars
        => [LostStacks' > LostStacks => UNCHANGED status /\ freeBlocks' < freeBlocks]_memoryVars
  BY <1>1
<1>3. QED
  BY <1>2, MemoryInvariant, PTL DEF MemorySpec, OnlyRefusalsLoseStacks

\* The account of the heap holds in every reachable state.
LEMMA AccountInvariant == MemorySpec => []AccountInv
<1>1. MemoryInv /\ AccountInv /\ [MemoryNext]_memoryVars => AccountInv'
  BY EveryStepAccounts, AccountKept DEF MemoryInv
<1>2. MemoryInit => AccountInv
  BY AccountOpened
<1>3. QED
  BY <1>1, <1>2, MemoryInvariant, PTL DEF MemorySpec

\* The heap never has fewer than no blocks nor more than it was given, the
\* freed node lies where Scheduler says and below blocks that are there, and
\* neither index of the pool leaves its array, for any size of both.
THEOREM MemoryTypeCorrect == MemorySpec => []MemoryTypeOK
<1>1. MemoryInv /\ AccountInv => MemoryTypeOK
  <2> SUFFICES ASSUME HeapInv, PoolInv, AccountInv PROVE MemoryTypeOK
    BY DEF MemoryInv
  <2>1. Cardinality(Claims(InUse, argc)) \in Nat
    BY ClaimsCounted DEF AccountInv, InUse
  <2>2. freeBlocks \in 0 .. BLOCK_QTY
    BY <2>1, MemoryAssumption DEF AccountInv
  <2>3. cover \in {Nowhere} \cup 0 .. freeBlocks - 1
    BY DEF HeapInv, AccountInv
  <2>4. QED
    BY <2>2, <2>3 DEF MemoryTypeOK, HeapInv, PoolInv, AccountInv
<1>2. QED
  BY <1>1, MemoryInvariant, AccountInvariant, PTL

\* Whichever of a kill, an exit and a late clean-up ends a process, its blocks
\* come back once: what is free and what the living own fits in the heap, with
\* the two blocks of the scheduler and its list to spare.
THEOREM NothingIsFreedTwice == MemorySpec => []NothingFreedTwice
<1>1. AccountInv => NothingFreedTwice
  <2> SUFFICES ASSUME AccountInv PROVE NothingFreedTwice
    OBVIOUS
  <2>1. Owned = Claims(InUse, argc)
    BY DEF Owned, Claims, Live, InUse
  <2>2. Cardinality(Claims(InUse, argc)) \in Nat
    BY ClaimsCounted DEF AccountInv, InUse
  <2>3. QED
    BY <2>1, <2>2, MemoryAssumption DEF AccountInv, NothingFreedTwice, Unowned
<1>2. QED
  BY <1>1, AccountInvariant, PTL

-----------------------------------------------------------------------------
(***************************************************************************)
(* The semaphores.                                                         *)
(***************************************************************************)

\* The freed node stays where it was or comes to the top.
LEMMA PlaceAfterAllocation ==
  ASSUME IInv, NEW d \in AfterAllocation
  PROVE  d \in {"no", "top", "buried"}
BY VariablesTyped DEF AfterAllocation

\* A call that yields without having slept: schedule() with no ticks left.
LEMMA YieldGood ==
  ASSUME IInv, NEW m, IsMachine(m), m.status = status, m.ready = readyList,
         m.current = currentPID, m.cleanup = toCleanupPID, m.qty = processQty,
         m.priority = priority, m.rounds = roundsLeft,
         m.dangling \in {"no", "top", "buried"}, m.halted = halted
  PROVE  Good(yield(m))
<1> DEFINE n == [m EXCEPT !.rounds[m.current] = 0]
<1>1. /\ IsMachine(n) /\ n.status = status /\ n.ready = readyList
      /\ n.current = currentPID /\ n.cleanup = toCleanupPID
      /\ n.qty = processQty /\ n.priority = priority /\ n.dangling = m.dangling
      /\ n.rounds = [roundsLeft EXCEPT ![currentPID] = 0] /\ n.halted = halted
  BY DEF IsMachine
<1>2. yield(m) = schedule(n)
  BY DEF yield
<1> HIDE DEF n
<1>3. 0 \in Priorities
  BY SchedulerAssumption DEF Priorities
<1>4. n.rounds \in [Pids -> Priorities]
  BY <1>1, <1>3, VariablesTyped
<1>5. Sound(n)
  BY <1>1, <1>4, SameSound, MachineFields, VariablesTyped DEF IInv
<1>6. Good(schedule(n))
  BY <1>1, <1>5, ScheduleGood, VariablesTyped DEF Sound
<1>7. QED
  BY <1>2, <1>6

\* Sleep() and the yield() inside blockProcess(): MarkedCaller, then schedule();
\* the shell only yields.
LEMMA SleepGood ==
  ASSUME IInv, NEW call, Issues(call), NEW d \in {"no", "top", "buried"}
  PROVE  Good(yield(Sleep([Machine EXCEPT !.dangling = d])))
<1> DEFINE m == [Machine EXCEPT !.dangling = d]
<1>1. /\ IsMachine(m) /\ m.status = status /\ m.ready = readyList
      /\ m.current = currentPID /\ m.cleanup = toCleanupPID
      /\ m.qty = processQty /\ m.priority = priority
      /\ m.rounds = roundsLeft /\ m.dangling = d /\ m.halted = halted
  BY OtherPlace
<1> HIDE DEF m
<1>2. CASE currentPID = SHELL_PID
  <2>1. Sleep(m) = m
    BY <1>1, <1>2 DEF Sleep
  <2>2. QED
    BY <1>1, <2>1, YieldGood DEF m
<1>3. CASE currentPID # SHELL_PID
  <2> DEFINE s == [m EXCEPT !.status[currentPID] = "BLOCKED",
                            !.ready = RemoveFirst(@, currentPID)]
             n == [s EXCEPT !.rounds[currentPID] = 0]
  <2>1. Sleep(m) = s
    BY <1>1, <1>3 DEF Sleep
  <2>2. /\ IsMachine(s) /\ s.status = [status EXCEPT ![currentPID] = "BLOCKED"]
        /\ s.ready = RemoveFirst(readyList, currentPID)
        /\ s.current = currentPID /\ s.cleanup = toCleanupPID
        /\ s.qty = processQty /\ s.priority = priority
        /\ s.rounds = roundsLeft /\ s.dangling = d /\ s.halted = halted
    BY <1>1 DEF IsMachine
  <2>3. yield(s) = schedule(n)
    BY <2>2 DEF yield
  <2> HIDE DEF s
  <2>4. /\ IsMachine(n) /\ n.status = [status EXCEPT ![currentPID] = "BLOCKED"]
        /\ n.ready = RemoveFirst(readyList, currentPID)
        /\ n.current = currentPID /\ n.cleanup = toCleanupPID
        /\ n.qty = processQty /\ n.priority = priority
        /\ n.rounds = [roundsLeft EXCEPT ![currentPID] = 0]
        /\ n.dangling = d /\ n.halted = halted
    BY <2>2 DEF IsMachine
  <2> HIDE DEF n
  <2>5. /\ "BLOCKED" \in Statuses /\ 0 \in Priorities
        /\ currentPID \in Pids \ {IDLE_PID} /\ status[currentPID] = "RUNNING"
    BY SchedulerAssumption, CallerRuns DEF Statuses, Priorities
  <2>6. currentPID \in ToSet(readyList)
    BY <2>5, MachineFields DEF IInv, Sound, Schedulable, Core, Exact
  <2>7. RemoveFirst(readyList, currentPID) \in Seq(Pids)
    BY <2>6, RemoveMemberPlaces, VariablesTyped
  <2>8. Typed(n)
    BY <2>4, <2>5, <2>7, VariablesTyped DEF Typed
  <2>9. Schedulable(n)
    BY <1>3, <2>4, <2>8, MarkedCaller
  <2>10. Good(schedule(n))
    BY <2>8, <2>9, ScheduleGood DEF Typed
  <2>11. QED
    BY <2>1, <2>3, <2>10 DEF m
<1>4. QED
  BY <1>2, <1>3

\* unblockProcess() of whatever number: it faults, wakes a blocked process or
\* does nothing.
LEMMA UnblockGood ==
  ASSUME IInv, NEW call, Issues(call), NEW d \in {"no", "top", "buried"}, NEW pid
  PROVE  Good(unblockProcess([Machine EXCEPT !.dangling = d], pid))
<1> DEFINE m == [Machine EXCEPT !.dangling = d]
<1>1. /\ IsMachine(m) /\ m.status = status /\ m.ready = readyList
      /\ m.current = currentPID /\ m.cleanup = toCleanupPID
      /\ m.qty = processQty /\ m.priority = priority
      /\ m.rounds = roundsLeft /\ m.dangling = d /\ m.halted = halted
  BY OtherPlace
<1>2. Good(m)
  BY PlaceGood
<1> HIDE DEF m
<1>3. CASE pid \notin Pids \/ status[pid] = "none"
  <2>1. unblockProcess(m, pid) = [m EXCEPT !.halted = "unblock"]
    BY <1>1, <1>3 DEF unblockProcess
  <2>2. [m EXCEPT !.halted = "unblock"].halted = "unblock"
    BY <1>1 DEF IsMachine
  <2>3. Good([m EXCEPT !.halted = "unblock"])
    BY <2>2 DEF Good, Halts, VacantCalls
  <2>4. QED
    BY <2>1, <2>3 DEF m
<1>4. CASE pid \in Pids /\ status[pid] = "BLOCKED"
  <2> DEFINE n == [m EXCEPT !.status[pid] = "READY", !.ready = Append(@, pid)]
  <2>1. unblockProcess(m, pid) = n
    BY <1>1, <1>4 DEF unblockProcess
  <2>2. /\ IsMachine(n) /\ n.status = [status EXCEPT ![pid] = "READY"]
        /\ n.ready = Append(readyList, pid)
        /\ n.current = currentPID /\ n.cleanup = toCleanupPID
        /\ n.qty = processQty /\ n.priority = priority /\ n.rounds = roundsLeft
        /\ n.dangling = d /\ n.halted = halted
    BY <1>1 DEF IsMachine
  <2> HIDE DEF n
  <2>3. Good(n)
    BY <1>4, <2>2, WokenGood DEF Woken
  <2>4. QED
    BY <2>1, <2>3 DEF m
<1>5. CASE pid \in Pids /\ status[pid] \notin {"none", "BLOCKED"}
  <2>1. unblockProcess(m, pid) = m
    BY <1>1, <1>5 DEF unblockProcess
  <2>2. QED
    BY <1>2, <2>1 DEF m
<1>6. QED
  BY <1>3, <1>4, <1>5

-----------------------------------------------------------------------------
(***************************************************************************)
(* The actions.                                                            *)
(***************************************************************************)

\* The creation of a semaphore.
LEMMA SemInitSound == ASSUME IInv, NEW v, semInit(v) PROVE IInv'
<1>1. PICK d \in AfterAllocation : Become([Machine EXCEPT !.dangling = d])
  BY DEF semInit
<1>2. QED
  BY <1>1, PlaceAfterAllocation, PlaceGood, BecomeSound

\* Its destruction.
LEMMA SemDestroySound == ASSUME IInv, NEW id, semDestroy(id) PROVE IInv'
<1> DEFINE d == IF dangling = "top" THEN "buried" ELSE dangling
<1>1. Become([Machine EXCEPT !.dangling = d])
  BY MachineFields DEF semDestroy
<1>2. d \in {"no", "top", "buried"}
  BY VariablesTyped
<1> HIDE DEF d
<1>3. QED
  BY <1>1, <1>2, PlaceGood, BecomeSound

\* A wait passes, sleeps, or returns for want of a node.
LEMMA SemWaitSound == ASSUME IInv, NEW id, semWait(id) PROVE IInv'
<1>1. CASE WaitPasses(id) \/ WaitWithoutNode(id)
  BY <1>1, StutterSound DEF WaitPasses, WaitWithoutNode
<1>2. CASE WaitSleeps(id)
  <2>1. /\ Issues("sem-wait")
        /\ \E d \in AfterAllocation :
             Become(yield(Sleep([Machine EXCEPT !.dangling = d])))
    BY <1>2 DEF WaitSleeps, Acquires, Finds
  <2>2. PICK d \in AfterAllocation :
          Become(yield(Sleep([Machine EXCEPT !.dangling = d])))
    BY <2>1
  <2>3. Good(yield(Sleep([Machine EXCEPT !.dangling = d])))
    BY <2>1, PlaceAfterAllocation, SleepGood
  <2>4. QED
    BY <2>2, <2>3, BecomeSound
<1>3. QED
  BY <1>1, <1>2 DEF semWait

\* The last yield() of a wait.
LEMMA ResumeSound == ASSUME IInv, ResumeWait PROVE IInv'
<1>1. Good(yield(Machine))
  BY YieldGood, MachineFields, VariablesTyped
<1>2. QED
  BY <1>1, BecomeSound DEF ResumeWait

\* A post, whichever process it takes for the one to wake.
LEMMA SemPostSound == ASSUME IInv, NEW id, semPost(id) PROVE IInv'
<1>1. PICK o \in Objects : Issues("sem-post") /\ Become(Wake(Machine, o))
  BY DEF semPost, Acquires, Finds
<1> DEFINE queue == blockedQueue[QueueOwner(o)]
           d == IF dangling = "top" THEN "buried" ELSE dangling
<1>2. d \in {"no", "top", "buried"} /\ dangling \in {"no", "top", "buried"}
  BY VariablesTyped
<1>3. Machine = [Machine EXCEPT !.dangling = dangling]
  BY DEF Machine
<1>4. Good(Wake(Machine, o))
  <2>1. CASE blockedQueue[o] = <<>>
    BY <1>2, <1>3, <2>1, PlaceGood DEF Wake
  <2>2. CASE blockedQueue[o] # <<>> /\ queue = <<>>
    <3>1. Wake(Machine, o) = unblockProcess(Machine, InfoAt[0])
      BY <2>2 DEF Wake
    <3>2. Good(unblockProcess([Machine EXCEPT !.dangling = dangling], InfoAt[0]))
      BY <1>1, <1>2, UnblockGood
    <3>3. QED
      BY <1>3, <3>1, <3>2
  <2>3. CASE blockedQueue[o] # <<>> /\ queue # <<>>
    <3>1. Wake(Machine, o) =
            unblockProcess([Machine EXCEPT !.dangling = d], InfoAt[Head(queue)])
      BY <2>3, MachineFields DEF Wake
    <3> HIDE DEF d, queue
    <3>2. QED
      BY <1>1, <1>2, <3>1, UnblockGood
  <2>4. QED
    BY <2>1, <2>2, <2>3
<1>5. QED
  BY <1>1, <1>4, BecomeSound

\* Every step of the kernel with semaphores keeps the scheduler's invariant.
LEMMA SemNextSound == IInv /\ [SemNext]_allVars => IInv'
<1> SUFFICES ASSUME IInv, [SemNext]_allVars PROVE IInv'
  OBVIOUS
<1>1. CASE SchedulerStep
  BY <1>1, NextSound DEF SchedulerStep
<1>2. CASE ResumeWait
  BY <1>2, ResumeSound
<1>3. CASE \E v \in 0 .. MaxValue : semInit(v)
  BY <1>3, SemInitSound
<1>4. CASE semInitWithoutMemory
  BY <1>4, HaltSound DEF semInitWithoutMemory, Halt, Halts
<1>5. ASSUME NEW id, semDestroy(id) \/ semWait(id) \/ semPost(id)
      PROVE  IInv'
  BY <1>5, SemDestroySound, SemWaitSound, SemPostSound
<1>6. ASSUME NEW id, NEW call, UseAfterDestroy(call, id) \/ Spin(call, id)
      PROVE  IInv'
  BY <1>6, HaltSound DEF UseAfterDestroy, Spin, Halt, Halts
<1>7. CASE UNCHANGED allVars
  BY <1>7, StutterSound DEF allVars
<1>8. QED
  BY <1>1, <1>2, <1>3, <1>4, <1>5, <1>6, <1>7 DEF SemNext

\* The scheduler's invariant holds in every reachable state.
LEMMA SchedulerInvariant == SemSpec => []IInv
<1>1. SemInitState => IInv
  BY InitSound DEF SemInitState
<1>2. QED
  BY <1>1, SemNextSound, PTL DEF SemSpec

-----------------------------------------------------------------------------
(***************************************************************************)
(* The semaphores' own state.                                              *)
(***************************************************************************)

\* availableID counts the live semaphores, also in a kernel that has halted.
SemInv ==
  /\ SemTypeOK
  /\ IsFiniteSet(live)
  /\ availableID = Cardinality(live)

\* Nobody sleeps yet.
LEMMA SemInvInit == SemInitState => SemInv
BY SemaphoreAssumption, FS_EmptySet DEF SemInitState, SemInv, SemTypeOK, Ids

\* The sleepers that remain are processes other than the first two.
LEMMA SleepersTyped ==
  ASSUME NEW sleepers \in SUBSET (Pids \ {IDLE_PID, SHELL_PID}), Remain(sleepers)
  PROVE  parked' \in SUBSET (Pids \ {IDLE_PID, SHELL_PID})
BY DEF Remain

\* A semaphore is created: the id is free and the block was not in use.
LEMMA SemInitCounts ==
  ASSUME SemInv, NEW v \in 0 .. MaxValue, semInit(v)
  PROVE  SemInv'
<1>1. PICK o \in Objects \ live :
        /\ semaphores' = [semaphores EXCEPT ![availableID] = o]
        /\ availableID' = availableID + 1
        /\ live' = live \cup {o}
        /\ ownID' = [ownID EXCEPT ![o] = availableID]
        /\ value' = [value EXCEPT ![o] = v]
        /\ locked' = locked \ {o}
        /\ blockedQueue' = [blockedQueue EXCEPT ![o] = <<>>]
        /\ UNCHANGED parked
  BY DEF semInit
<1>2. availableID \in Ids /\ availableID' \in 0 .. MaxSemaphores
  BY <1>1, SemaphoreAssumption DEF semInit, SemInv, SemTypeOK, Ids
<1>3. /\ semaphores' \in [Ids -> Objects \cup {NoObject}]
      /\ ownID' \in [Objects -> Ids] /\ value' \in [Objects -> 0 .. MaxValue]
  BY <1>1, <1>2 DEF SemInv, SemTypeOK
<1>4. blockedQueue' \in [Objects -> Seq(Pids)]
  BY <1>1 DEF SemInv, SemTypeOK
<1>5. live' \subseteq Objects /\ locked' \subseteq Objects
  BY <1>1 DEF SemInv, SemTypeOK
<1>6. IsFiniteSet(live') /\ Cardinality(live') = Cardinality(live) + 1
  BY <1>1, FS_AddElement DEF SemInv
<1>7. QED
  BY <1>1, <1>2, <1>3, <1>4, <1>5, <1>6 DEF SemInv, SemTypeOK

\* A semaphore is destroyed: one was live, so the count is not 0.
LEMMA SemDestroyCounts ==
  ASSUME SemInv, NEW id, semDestroy(id)
  PROVE  SemInv'
<1>1. PICK o \in live :
        /\ live' = live \ {o}
        /\ availableID' = availableID - 1
        /\ UNCHANGED <<semaphores, ownID, value, locked, blockedQueue, parked>>
  BY DEF semDestroy
<1>2. IsFiniteSet(live') /\ Cardinality(live') = Cardinality(live) - 1 /\ Cardinality(live') \in Nat
  BY <1>1, FS_RemoveElement, FS_CardinalityType DEF SemInv
<1>3. availableID' \in 0 .. MaxSemaphores
  BY <1>1, <1>2, SemaphoreAssumption DEF SemInv, SemTypeOK
<1>4. live' \subseteq Objects
  BY <1>1 DEF SemInv, SemTypeOK
<1>5. QED
  BY <1>1, <1>2, <1>3, <1>4 DEF SemInv, SemTypeOK

\* A wait takes a unit that is there, or leaves the caller's PID in a queue.
LEMMA SemWaitCounts ==
  ASSUME IInv, SemInv, NEW id, semWait(id)
  PROVE  SemInv'
<1>1. CASE WaitPasses(id)
  <2>1. PICK o \in Objects : value[o] > 0 /\ value' = [value EXCEPT ![o] = @ - 1]
    BY <1>1 DEF WaitPasses
  <2>2. value[o] - 1 \in 0 .. MaxValue
    BY <2>1, SemaphoreAssumption DEF SemInv, SemTypeOK
  <2>3. value' \in [Objects -> 0 .. MaxValue]
    BY <2>1, <2>2 DEF SemInv, SemTypeOK
  <2>4. QED
    BY <1>1, <2>3 DEF WaitPasses, SemInv, SemTypeOK
<1>2. CASE WaitSleeps(id)
  <2>1. PICK o \in Objects :
          /\ Issues("sem-wait")
          /\ blockedQueue' = [blockedQueue EXCEPT ![QueueOwner(o)] = <<currentPID>> \o @]
    BY <1>2 DEF WaitSleeps, Acquires, Finds
  <2>2. currentPID \in Pids \ {IDLE_PID}
    BY <2>1, CallerRuns
  <2> DEFINE owner == QueueOwner(o)
  <2>3. blockedQueue' \in [Objects -> Seq(Pids)]
    <3>1. owner \in Objects => <<currentPID>> \o blockedQueue[owner] \in Seq(Pids)
      BY <2>2 DEF SemInv, SemTypeOK
    <3> HIDE DEF owner
    <3>2. [blockedQueue EXCEPT ![owner] = <<currentPID>> \o @] \in [Objects -> Seq(Pids)]
      BY <3>1 DEF SemInv, SemTypeOK
    <3>3. QED
      BY <2>1, <3>2 DEF owner
  <2>4. (parked \cup {currentPID}) \ {SHELL_PID} \in SUBSET (Pids \ {IDLE_PID, SHELL_PID})
    BY <2>2 DEF SemInv, SemTypeOK
  <2>5. parked' \subseteq Pids \ {IDLE_PID, SHELL_PID}
    BY <1>2, <2>4, SleepersTyped DEF WaitSleeps
  <2>6. QED
    BY <1>2, <2>3, <2>5 DEF WaitSleeps, SemInv, SemTypeOK
<1>3. CASE WaitWithoutNode(id)
  BY <1>3 DEF WaitWithoutNode, SemInv, SemTypeOK
<1>4. QED
  BY <1>1, <1>2, <1>3 DEF semWait

\* A post adds a unit and takes at most the first node of a queue.
LEMMA SemPostCounts ==
  ASSUME SemInv, NEW id, semPost(id)
  PROVE  SemInv'
<1>1. PICK o \in Objects :
        /\ value[o] < MaxValue
        /\ value' = [value EXCEPT ![o] = @ + 1]
        /\ blockedQueue' = IF blockedQueue[o] = <<>> THEN blockedQueue
                           ELSE [blockedQueue EXCEPT ![QueueOwner(o)] = SubSeq(@, 2, Len(@))]
  BY DEF semPost
<1>2. value[o] + 1 \in 0 .. MaxValue
  BY <1>1, SemaphoreAssumption DEF SemInv, SemTypeOK
<1>3. value' \in [Objects -> 0 .. MaxValue]
  BY <1>1, <1>2 DEF SemInv, SemTypeOK
<1>4. \A s \in Seq(Pids) : SubSeq(s, 2, Len(s)) \in Seq(Pids)
  OBVIOUS
<1>5. blockedQueue' \in [Objects -> Seq(Pids)]
  BY <1>1, <1>4 DEF SemInv, SemTypeOK
<1>6. QED
  BY <1>3, <1>5 DEF semPost, SemInv, SemTypeOK

\* Every step keeps the types and the count.
LEMMA SemNextCounts == IInv /\ SemInv /\ [SemNext]_allVars => SemInv'
<1> SUFFICES ASSUME IInv, SemInv, [SemNext]_allVars PROVE SemInv'
  OBVIOUS
<1>1. CASE SchedulerStep \/ ResumeWait
  <2>1. /\ \E sleepers \in SUBSET (Pids \ {IDLE_PID, SHELL_PID}) : Remain(sleepers)
        /\ UNCHANGED <<semaphores, availableID, live, ownID, value, locked, blockedQueue>>
    BY <1>1 DEF SchedulerStep, ResumeWait, SemInv, SemTypeOK
  <2>2. parked' \subseteq Pids \ {IDLE_PID, SHELL_PID}
    BY <2>1, SleepersTyped
  <2>3. QED
    BY <2>1, <2>2 DEF SemInv, SemTypeOK
<1>2. CASE \E v \in 0 .. MaxValue : semInit(v)
  BY <1>2, SemInitCounts
<1>3. ASSUME NEW id, semDestroy(id) \/ semWait(id) \/ semPost(id)
      PROVE  SemInv'
  BY <1>3, SemDestroyCounts, SemWaitCounts, SemPostCounts
<1>4. CASE UNCHANGED semVars
  BY <1>4 DEF semVars, SemInv, SemTypeOK
<1>5. ASSUME NEW id, NEW call, semInitWithoutMemory \/ UseAfterDestroy(call, id) \/ Spin(call, id)
      PROVE  UNCHANGED semVars
  BY <1>5 DEF semInitWithoutMemory, UseAfterDestroy, Spin, Halt
<1>6. QED
  BY <1>1, <1>2, <1>3, <1>4, <1>5 DEF SemNext, allVars

\* Both invariants hold in every reachable state.
LEMMA SemaphoreInvariant == SemSpec => []SemInv
<1>1. SemInitState => IInv
  BY InitSound DEF SemInitState
<1>2. QED
  BY <1>1, SemInvInit, SemNextSound, SemNextCounts, PTL DEF SemSpec

-----------------------------------------------------------------------------
(***************************************************************************)
(* The theorems.                                                           *)
(***************************************************************************)

\* Blocking inside semWait(), posts that wake whatever process they read, and
\* the second yield() of a resumed wait leave the ready list exact: it links
\* exactly the processes that can run or have just ended, once each.
THEOREM ReadyListWithSemaphores == SemSpec => []ReadyListExact
BY ExactList, SchedulerInvariant, PTL

\* The process that makes a call of semaphore.c is the first that has not
\* ended, before and after it sleeps and is resumed.
THEOREM RunningFirstWithSemaphores == SemSpec => []RunningIsFirst
BY RunningLeads, SchedulerInvariant, PTL

\* A wait of the shell never takes it from the ready list, so the idle process,
\* whose context would be loaded from the wrong place, never runs.
THEOREM ShellNeverSleeps == SemSpec => []IdleNeverRuns
BY ShellIsReady, SchedulerInvariant, PTL

\* No index of the semaphores' table leaves it, no value goes below zero and
\* no sleeper is one of the first two processes, though posts take PIDs for
\* addresses and destroyed semaphores stay in the table.
THEOREM SemTypesCorrect == SemSpec => []SemTypeOK
BY SemaphoreInvariant, PTL DEF SemInv

\* availableID counts the live semaphores, in whatever order they are created
\* and destroyed, so the table is full only when they are all in use.
THEOREM LiveCountIsExact == SemSpec => []LiveCountExact
<1>1. SemInv => LiveCountExact
  BY DEF SemInv, LiveCountExact
<1>2. QED
  BY <1>1, SemaphoreInvariant, PTL

\* A wait that fails for want of memory names an id of the table: the others
\* lead to no object.
LEMMA WaitNamesId ==
  ASSUME NEW id \in 0 .. MaxSemaphores, WaitWithoutNode(id)
  PROVE  id \in Ids
<1>1. getSemaphore(id) # NoObject
  BY DEF WaitWithoutNode, Acquires, Finds
<1>2. ~(id >= MaxSemaphores - 1)
  BY <1>1 DEF getSemaphore
<1>3. QED
  BY <1>2, SemaphoreAssumption DEF Ids

\* Of all the steps of the kernel with semaphores, sleeping in semWait()
\* included, only a wait that finds no memory returns with a lock taken.
THEOREM LocksAreReleased == SemSpec => LockKeptOnlyWithoutMemory
<1>1. [SemNext]_allVars
        => [locked' \subseteq locked \/ \E id \in Ids : WaitWithoutNode(id)]_allVars
  <2> SUFFICES ASSUME SemNext
               PROVE  locked' \subseteq locked \/ \E id \in Ids : WaitWithoutNode(id)
    OBVIOUS
  <2>1. CASE SchedulerStep \/ ResumeWait
    BY <2>1 DEF SchedulerStep, ResumeWait
  <2>2. CASE \E v \in 0 .. MaxValue : semInit(v)
    BY <2>2 DEF semInit
  <2>3. CASE semInitWithoutMemory
    BY <2>3 DEF semInitWithoutMemory, Halt, semVars
  <2>4. ASSUME NEW id, semDestroy(id) \/ semPost(id)
        PROVE  locked' \subseteq locked
    BY <2>4 DEF semDestroy, semPost
  <2>5. ASSUME NEW id \in 0 .. MaxSemaphores, semWait(id)
        PROVE  locked' \subseteq locked \/ \E i \in Ids : WaitWithoutNode(i)
    <3>1. CASE WaitPasses(id) \/ WaitSleeps(id)
      BY <3>1 DEF WaitPasses, WaitSleeps
    <3>2. CASE WaitWithoutNode(id)
      BY <3>2, WaitNamesId
    <3>3. QED
      BY <2>5, <3>1, <3>2 DEF semWait
  <2>6. ASSUME NEW id, NEW call, UseAfterDestroy(call, id) \/ Spin(call, id)
        PROVE  locked' \subseteq locked
    BY <2>6 DEF UseAfterDestroy, Spin, Halt, semVars
  <2>7. QED
    BY <2>1, <2>2, <2>3, <2>4, <2>5, <2>6 DEF SemNext
<1>2. QED
  BY <1>1, PTL DEF SemSpec, LockKeptOnlyWithoutMemory

=============================================================================
