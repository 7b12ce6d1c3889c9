---------------------------- MODULE ProcessMemory ----------------------------
(***************************************************************************)
(* What a process takes and what is given back: the blocks and the stack   *)
(* that createProcess() and onCreateProcess() ask for one after the other, *)
(* each of which may be refused half way, and what killProcess() and the   *)
(* clean-up of schedule() return.  Every step is a handler of Scheduler    *)
(* together with what it does to the heap and to the pool of stacks.       *)
(*                                                                         *)
(* A process owns the blocks of its PCB, its name and its node, and, if it *)
(* has arguments, an array and one block for each.  Which block it is does *)
(* not matter here (MemoryManager is about that): the heap is the number   *)
(* of its free blocks, and, as the free blocks are a stack, how many lie   *)
(* above a node that was freed while still linked in the ready list.       *)
(***************************************************************************)
EXTENDS Scheduler

CONSTANTS
  BLOCK_QTY,  \* blocks of the heap
  MaxArgs     \* bound on the arguments of a process

\* The blocks of the scheduler, its list and the first two processes.
BootBlocks == 8

ASSUME MemoryAssumption == BLOCK_QTY \in Nat /\ BLOCK_QTY >= BootBlocks /\ MaxArgs \in Nat

VARIABLES
  freeBlocks,    \* BLOCK_QTY - currentBlock
  cover,         \* free blocks above the freed node that is linked, or Nowhere
  argc,          \* arguments of each process
  rbp,           \* stack of each process, or NoStack
  stackPtrs,     \* the pool: the stacks from currentStack on are free
  currentStack

heap == <<freeBlocks, cover>>
pool == <<argc, rbp, stackPtrs, currentStack>>
memory == <<heap, pool>>
memoryVars == <<vars, memory>>

Nowhere == -1
NoStack == -1
Stacks == 0 .. MaxProcesses - 1

MemoryInit ==
  /\ Init
  /\ freeBlocks = BLOCK_QTY - BootBlocks
  /\ cover = Nowhere
  /\ argc = [p \in Pids |-> 0]
  /\ rbp = [p \in Pids |-> IF p \in {IDLE_PID, SHELL_PID} THEN p ELSE NoStack]
  /\ stackPtrs = [s \in Stacks |-> s]
  /\ currentStack = 2

-----------------------------------------------------------------------------
(***************************************************************************)
(* The heap and the pool.                                                  *)
(***************************************************************************)

Takes(blocks) ==
  /\ freeBlocks' = freeBlocks - blocks
  /\ cover' = IF cover = Nowhere THEN Nowhere ELSE cover - blocks

GivesBack(blocks) ==
  /\ freeBlocks' = freeBlocks + blocks
  /\ cover' = IF cover = Nowhere THEN Nowhere ELSE cover + blocks

\* That many blocks can be had, and the freed node is not among them.
CanTake(blocks) ==
  /\ blocks <= freeBlocks
  /\ cover # Nowhere => blocks <= cover

\* Scheduler tells only whether the freed node can be the next block given.
Where(c) == CASE c = Nowhere -> "no" [] c = 0 -> "top" [] OTHER -> "buried"

createStack == currentStack' = currentStack + 1 /\ UNCHANGED stackPtrs

StackLeft == currentStack < MaxProcesses

\* Mutant: the index moves and the stack is not put back.
freeStack_indexOnly(stack) ==
  /\ currentStack' = currentStack - 1
  /\ UNCHANGED stackPtrs

freeStack(stack) ==
  IF currentStack > 0
  THEN /\ currentStack' = currentStack - 1
       /\ stackPtrs' = [stackPtrs EXCEPT ![currentStack - 1] = stack]
  ELSE UNCHANGED <<currentStack, stackPtrs>>

\* Blocks of a process with that many arguments.
ArgumentBlocks(args) == IF args > 0 THEN args + 1 ELSE 0
Blocks(args) == 3 + ArgumentBlocks(args)

\* The slot of a process that is no more.
Vacate(pid) ==
  /\ argc' = [argc EXCEPT ![pid] = 0]
  /\ rbp' = [rbp EXCEPT ![pid] = NoStack]
  /\ freeStack(rbp[pid])

-----------------------------------------------------------------------------
(***************************************************************************)
(* Creation.                                                               *)
(***************************************************************************)

CreateProcess(prio, args) ==
  /\ StackLeft
  /\ CanTake(Blocks(args))
  /\ Create(prio)
  /\ Takes(Blocks(args))
  /\ dangling' = Where(cover')
  /\ argc' = [argc EXCEPT ![availablePidValue] = args]
  /\ rbp' = [rbp EXCEPT ![availablePidValue] = stackPtrs[currentStack]]
  /\ createStack

\* What a creation has taken when it is refused before the parent counts the
\* child: without a stack, without a block for the name or for the array of
\* arguments, or by a parent with too many children.  Nothing is given back.
RefusedAfter(blocks, stacks, args) ==
  \/ blocks = 1 /\ stacks = 0 /\ ~StackLeft
  \/ /\ stacks = 1 /\ StackLeft
     /\ \/ blocks = 1 /\ freeBlocks = 1
        \/ blocks = 2 /\ freeBlocks = 2 /\ args > 0
        \/ blocks = Blocks(args) - 1 /\ Len(children[currentPID]) >= MaxProcesses

\* Mutant: a process that was refused is counted.
RefuseCreation_counted(args) ==
  /\ Issues("create")
  /\ FreePids # {} /\ processQty < MaxProcesses
  /\ \E blocks \in 1 .. Blocks(args), stacks \in 0 .. 1 :
       /\ RefusedAfter(blocks, stacks, args)
       /\ CanTake(blocks)
       /\ Takes(blocks)
       /\ currentStack' = currentStack + stacks
  /\ dangling' = Where(cover')
  /\ processQty' = processQty + 1
  /\ UNCHANGED <<status, readyList, currentPID, toCleanupPID, parentPID,
                 children, priority, roundsLeft, halted, argc, rbp, stackPtrs>>

RefuseCreation(args) ==
  /\ Issues("create")
  /\ FreePids # {} /\ processQty < MaxProcesses
  /\ \E blocks \in 1 .. Blocks(args), stacks \in 0 .. 1 :
       /\ RefusedAfter(blocks, stacks, args)
       /\ CanTake(blocks)
       /\ Takes(blocks)
       /\ currentStack' = currentStack + stacks
  /\ dangling' = Where(cover')
  /\ UNCHANGED <<status, readyList, currentPID, toCleanupPID, processQty, parentPID,
                 children, priority, roundsLeft, halted, argc, rbp, stackPtrs>>

\* Everything but the node is there: the parent has counted the child.
CreateProcessWithoutNode(args) ==
  /\ StackLeft
  /\ freeBlocks = Blocks(args) - 1
  /\ CreateWithoutNode
  /\ Takes(freeBlocks)
  /\ createStack
  /\ UNCHANGED <<argc, rbp>>

\* The string of an argument that got no block is copied to the address 0.
CopyWithoutBlock(args) ==
  /\ FreePids # {} /\ processQty < MaxProcesses
  /\ StackLeft
  /\ freeBlocks \in 3 .. args + 2
  /\ UseMissingBlock
  /\ UNCHANGED memory

-----------------------------------------------------------------------------
(***************************************************************************)
(* The end of a process.                                                   *)
(***************************************************************************)

\* The process the clean-up frees when schedule() is entered now.
Reaped == {p \in {toCleanupPID} \ {NoPid} : status[p] # "none"}

\* Mutant: the stack is not given back.
CleanUpMemory_keepsStack ==
  IF Reaped = {} \/ halted' # "no" THEN UNCHANGED memory
  ELSE /\ GivesBack(2)
       /\ argc' = [argc EXCEPT ![toCleanupPID] = 0]
       /\ rbp' = [rbp EXCEPT ![toCleanupPID] = NoStack]
       /\ UNCHANGED <<currentStack, stackPtrs>>

\* Mutant: the PCB and the node are given back twice.
CleanUpMemory_twice ==
  IF Reaped = {} \/ halted' # "no" THEN UNCHANGED memory
  ELSE \E p \in Reaped : GivesBack(4) /\ Vacate(p)

\* The clean-up gives back the stack, the PCB and the node; the name and the
\* arguments are lost.
CleanUpMemory ==
  IF Reaped = {} \/ halted' # "no" THEN UNCHANGED memory
  ELSE \E p \in Reaped : GivesBack(2) /\ Vacate(p)

\* Mutant: the node is given back before the PCB.
KillOtherMemory_nodeFirst(pid) ==
  IF halted' # "no" THEN UNCHANGED memory
  ELSE /\ freeBlocks' = freeBlocks + 3 + argc[pid]
       /\ cover' = IF status[pid] = "KILLED" THEN 1
                   ELSE IF cover = Nowhere THEN Nowhere ELSE cover + 3 + argc[pid]
       /\ Vacate(pid)

\* A kill gives back all but the array of the arguments.  The node comes
\* last, so that of a process that had ended is now on top.
KillOtherMemory(pid) ==
  IF halted' # "no" THEN UNCHANGED memory
  ELSE /\ freeBlocks' = freeBlocks + 3 + argc[pid]
       /\ cover' = IF status[pid] = "KILLED" THEN 0
                   ELSE IF cover = Nowhere THEN Nowhere ELSE cover + 3 + argc[pid]
       /\ Vacate(pid)

-----------------------------------------------------------------------------
(***************************************************************************)
(* The steps.                                                              *)
(***************************************************************************)

\* A block that some process asks for and keeps.
TakeBlock ==
  /\ Issues("alloc")
  /\ CanTake(1)
  /\ Takes(1)
  /\ dangling' = Where(cover')
  /\ UNCHANGED <<status, readyList, currentPID, toCleanupPID, processQty, parentPID,
                 children, priority, roundsLeft, halted, pool>>

\* An allocation, of a creation or of a process, reaches the freed node.
ReachFreedNode ==
  /\ \/ Issues("alloc") /\ cover = 0
     \/ /\ Issues("create") /\ FreePids # {} /\ processQty < MaxProcesses
        /\ \E args \in 0 .. MaxArgs :
             cover < IF ~StackLeft THEN 1
                     ELSE IF Len(children[currentPID]) >= MaxProcesses
                          THEN Blocks(args) - 1 ELSE Blocks(args)
  /\ ReuseFreedNode
  /\ UNCHANGED memory

\* The steps that enter schedule().
SwitchStep ==
  /\ \/ Tick
     \/ Exit
     \/ \E pid \in Pids : KillSelf(pid)
     \/ Block(currentPID)
  /\ CleanUpMemory

KillStep == \E pid \in Pids : KillOther(pid) /\ KillOtherMemory(pid)

QuietStep ==
  /\ \E pid \in Pids : \/ pid # currentPID /\ Block(pid)
                       \/ Unblock(pid)
                       \/ \E call \in VacantCalls : CallOnVacantSlot(call, pid)
  /\ UNCHANGED memory

MemoryNext ==
  \/ \E args \in 0 .. MaxArgs :
       \/ \E prio \in Priorities : CreateProcess(prio, args)
       \/ RefuseCreation(args)
       \/ CreateProcessWithoutNode(args)
       \/ CopyWithoutBlock(args)
  \/ TakeBlock
  \/ ReachFreedNode
  \/ SwitchStep
  \/ KillStep
  \/ QuietStep

MemorySpec == MemoryInit /\ [][MemoryNext]_memoryVars

\* The timer ticks on, whatever the processes do.
FairMemorySpec == MemorySpec /\ FairTicks

-----------------------------------------------------------------------------
(***************************************************************************)
(* Properties.                                                             *)
(***************************************************************************)

\* Types of the heap and of the pool: neither index leaves its array, and the
\* place of a freed node is what Scheduler says of it.
MemoryTypeOK ==
  /\ freeBlocks \in 0 .. BLOCK_QTY
  /\ cover \in {Nowhere} \cup 0 .. freeBlocks - 1
  /\ argc \in [Pids -> 0 .. MaxArgs]
  /\ rbp \in [Pids -> Stacks \cup {NoStack}]
  /\ stackPtrs \in [Stacks -> Stacks]
  /\ currentStack \in 0 .. MaxProcesses
  /\ halted = "no" => dangling = Where(cover)

Live == {p \in Pids : status[p] # "none"}

\* The blocks of live processes: the owner of each and its number among his.
Owned == UNION {{p} \X (1 .. Blocks(argc[p])) : p \in Live}

\* Blocks that are neither free nor owned by a process of the table.
Unowned == BLOCK_QTY - freeBlocks - Cardinality(Owned)

\* No block is given back twice, whichever of a kill, an exit and a clean-up
\* meant for somebody else ends a process: with those of the scheduler and
\* its list, what is free and what live processes own never exceeds the heap.
NothingFreedTwice == Unowned >= 2

\* Free stacks and those of live processes are different stacks: no two
\* processes share one, and the stack of the process that is running, from
\* which the handler itself runs, is never in the pool, whatever the order of
\* kills, exits, clean-ups and creations.
StacksDisjoint ==
  LET FreeStacks == {stackPtrs[s] : s \in currentStack .. MaxProcesses - 1}
  IN /\ \A p \in Live : rbp[p] \in Stacks \ FreeStacks
     /\ \A p, q \in Live : p # q => rbp[p] # rbp[q]
     /\ Cardinality(FreeStacks) = MaxProcesses - currentStack

\* A stack is lost only by a creation that is refused after it took one: no
\* way in which a process ends leaves its stack behind.
LostStacks == currentStack - Cardinality(Live)
OnlyRefusalsLoseStacks ==
  [][LostStacks' > LostStacks => UNCHANGED status /\ freeBlocks' < freeBlocks]_memoryVars

\* Whoever has ended is freed by some later tick, or by a kill.
DeadAreFreed ==
  \A p \in Pids : status[p] = "KILLED" ~> status[p] # "KILLED" \/ halted # "no"

\* The handlers with their memory are the handlers of Scheduler: what it
\* leaves open, where a freed node lies and when a creation finds no memory,
\* is what the heap decides.
ImplementsScheduler == Spec

=============================================================================
