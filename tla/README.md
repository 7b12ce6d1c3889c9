# Verification of the x64BareBones kernel (SO-GRUPO-12-TP-2)

TLA+ models, TLC runs and TLAPS proofs of the core of this kernel: the process
scheduler with the memory and the stacks of its processes, the memory manager,
the linked list, the semaphores, the clock, the command line, the commands of the
shell and the snake game. Paths below are relative to
`src/x64BareBones-master/`.

## 1. Inventory

One processor; the kernel runs behind interrupt gates, so interrupts are off
inside every system call and every interrupt handler, and each runs to its end
unless it raises the timer interrupt itself (`forceTimerTick()`, int 20h).
Processes call the kernel with int 80h (`syscallDispatcher.c`); the timer calls
`schedule()` at 100 Hz (`kernel.c:62`).

| Component | State | Operations | Interacts with | What makes it correct |
|---|---|---|---|---|
| Scheduler, `Kernel/Processes/scheduler.c` | process table, ready list, current PID, PID to clean up, number of processes; per process status, priority, ticks left, parent, children | create, exit, kill, block, unblock, the three priority calls, timer tick | list (ready list), memory manager, stack pool; called by every process and by semaphores | the ready list holds exactly the processes that can run; one RUNNING; round robin; no process forgotten, none freed while alive; families consistent |
| Process creation, `Processes/process.c` | PCB and what it owns | createProcess | memory manager, stack pool | a refusal changes nothing else; what is taken is given back, once |
| Stack pool, `Processes/stack.c` | stack of free stacks | createStack, freeStack | process creation, clean-up, kill | no stack given twice |
| Memory manager, `MemoryManagerFreeArray.c` | array of free blocks, index, two byte counters | alloc, free, report | everybody | no block given twice or lost; counters exact |
| Linked list, `LinkedList.c` | first, last, iterator, size; next and previous of each node | queue, push, dequeue, remove, iterate | scheduler, semaphores | the pointers are one list, both ways round |
| Semaphores, `Semaphores/semaphore.c` | value, lock, blocked queue; table of semaphores, next id | init, destroy, wait, post | scheduler (block, unblock), list, memory manager | never below zero; a post wakes a waiter |
| Keyboard, `irqDispatcher.c`, `keyboad.c` | a place for one key | key interrupt, read call | shell, snake | keys read in order, none twice |
| Clock, `clockTime.c` | ticks | tick, elapsed, wait, date | timer, forced ticks | time monotonic and true |
| Dispatcher, interrupts, boot | registers, descriptor table | int 80h, IRQ 0 and 1, exceptions | all | atomicity of calls |
| Command line, `getBuffer()` of `globalLib.c` | buffer, index, column of the cursor, left margin | a key, a line | keyboard; shares the cursor with every process that prints | the line stays in its buffer and is what was typed |
| Shell, `userShell.c`, `globalLib.c` | the command at work, its list of processes | PS, MEM, KILL, BLOCK, NICE, the commands that create, TIME | scheduler, memory manager, clock | every command comes back to the prompt |
| Tests, `test_*.c` | | create, kill, block, wait, post | system calls | what they expect holds |
| Snake, `snakeApp.c` | grid, snakes, fruit, two flags | key, move, eat, crash | keyboard, video | bodies whole; a crash ends the game for the right player; the next fruit is found |
| Pipes, buddy allocator | stubs, never called | | | |
| Video, sound, native library, module loader | devices | output | | |
| Boot loader (Pure64, BMFS), module packer, image | vendored or host tools | | | |

The behaviours that are hard to test: a tick between any two calls; a process
that ends and is freed one tick later while others kill it or take its slot; a
PID used again; a node freed while linked; lists of children that lose the
wrong entry; calls on empty slots; allocations that fail half way through;
user programs that free nothing while they think they do; a cursor that every
process moves between another's load and store; a command that acts on a list of
processes that is out of date; a clock that goes on while it is read.
`PROJECT.json` lists
each with its line.

## 2. Modules

| Module | Models | |
|---|---|---|
| `Scheduler` | `scheduler.c` and the calls that reach it | one action per system call, and `Tick` |
| `Allocator` | what the memory manager promises | abstract |
| `MemoryManager` | `MemoryManagerFreeArray.c`, `freeMemoryUser()` | implements `Allocator` |
| `NodeQueue` | what the list promises | abstract |
| `LinkedList` | `LinkedList.c`, pointer by pointer | implements `NodeQueue` |
| `ProcessMemory` | `process.c`, `stack.c` and what kills and clean-ups give back | extends and implements `Scheduler` |
| `Shell` | the commands of `userShell.c` on processes | extends `Scheduler` with a process that lists, acts and reports |
| `LineEditor` | what the console promises a user who types | abstract |
| `Terminal` | keyboard interrupt, read call, `getBuffer()` | implements `LineEditor` |
| `Clock` | `clockTime.c`, TIME and `wait()` of `globalLib.c` | proved only |
| `Semaphore` | `semaphore.c` | extends `Scheduler`, whose handlers it calls |
| `SemaphoreClients` | the loop of `test_sync.c` | composes `Semaphore` with processes that wait and post |
| `Snake` | `snakeApp.c` | one action per key and per move |
| `MCScheduler`, `MCProcessMemory`, `MCShell`, `MCTerminal`, `MCMemoryManager`, `MCSemaphore`, `MCSemaphoreClients`, `MCSnake` | instances for TLC | |
| `ListLemmas`, `SchedulerProofs`, `KernelProofs`, `MemoryManagerProofs`, `LinkedListProofs`, `TerminalProofs`, `SnakeProofs`, `ClockProofs` | proofs | |

### Scheduler

A handler is written as a function on a record `Machine` of all the variables,
so that a call that raises the timer interrupt from inside is the composition
the code has (`Exit` is `yield(...)`, which is `schedule(...)`), in one atomic
action; `Become` makes the result the next state.

| Model | Code |
|---|---|
| `status[p]`, `"none"` for an empty slot | `processes[p]->info->status`, `processes[p] == NULL` |
| `readyList` | PIDs of the nodes linked in `readyList`, first to last |
| `children[p]` | the first `childrenQty` entries of `children[]`; the word after the array is `childrenQty`, so `PushChild` on a full list overwrites the count, as the layout of the PCB has it |
| `dangling` | a node freed by `killProcess()` while still linked (a victim that has exited): on top of the stack of free blocks, or buried |
| `halted` | the place of a general protection fault: a NULL slot is dereferenced through the interrupt descriptor table at address 0, and the boot loader's gate hangs |

Left out: registers and names, and the stacks, which are in `ProcessMemory`; `currentPPID`, `foregroundPID`,
`waitingPID` and `retValue`, which are written and never read; `waitPID()`, which
nothing calls; `printProcesses()`, which only reads (`Shell` uses it).

Which allocation finds memory, and where a freed node lies, `Scheduler` leaves
open (`AfterAllocation`, `CreateWithoutNode`, `UseMissingBlock`).

### ProcessMemory

Every step is a handler of `Scheduler` together with what it does to the heap and
to the pool of stacks. The heap is the number of its free blocks: which block a
process gets is the subject of `MemoryManager`.

| Model | Code |
|---|---|
| `freeBlocks` | `BLOCK_QTY - currentBlock` |
| `cover` | free blocks above a node that was freed while linked: the free array is a stack, so the node is reached when they are gone (`dangling` of `Scheduler` is `Where(cover)`) |
| `Blocks(argc)` | PCB, name, node and, with arguments, the array and one block for each |
| `rbp`, `stackPtrs`, `currentStack` | the stack of each process; the array and the index of `stack.c` |
| `RefusedAfter` | how far `createProcess()` and `onCreateProcess()` came when they returned -1: blocks and stack taken so far are lost, as in the code |

A clean-up gives back the stack, the PCB and the node; a kill gives back all but
the array of the arguments. `ImplementsScheduler` is the specification of
`Scheduler` itself, on the same variables: it says that the heap resolves what
`Scheduler` leaves open and adds nothing.

### Shell

The shell is the process `SHELL_PID` of `Scheduler`. KILL, BLOCK and NICE are
three steps (`List`, `Act`, `GiveBack`), PS and MEM two, with the timer and the
calls of other processes in between (`Others`); `Act` makes its call by what the
list said, with whatever the kernel answers by now. A PID that is missing from the
list, the two protected ones and those that have changed since are all cases of
`Makes`. The list is given back through `freeMemoryUser()`, so that an address
that is no block lies on top of the free ones (`stray`): the kernel is not
followed from the allocation that is given it (`UseStrayBlock`). Parsing is left
out: a command is its name, a PID and a priority.

### Terminal

| Model | Code |
|---|---|
| `keyBuffer` | `keyBuffer` of `irqDispatcher.c`, -1 for no key |
| `currentX`, `minX`, `buffer`, `i` | the same of `syscall.c`, `globalLib.c` and `getBuffer()` |
| `reg` | the column `nextX()` or `prevX()` has loaded and not yet stored (user code is compiled with -O0, `Makefile.inc`) |
| `pc` | the place in `getBuffer()`; `registers`, `redraw` are inside the read call, whose Tab branch enables interrupts |
| `shared` | a LOOP has been started, which prints on the screen of the shell |

`LineEditor` knows keys and a line, and neither index nor column; the mapping
makes the line of the first `i` characters of the buffer, and the key that was
taken and has not had its effect from `pc`. `PrinterColumns` is where a process
that prints leaves the cursor: LOOP and `endless_loop_print()` end in `NewLine()`,
so it is `{0}` in the run and in the proofs. Rows, scrolling and drawing are left
out.

### Clock

`now` counts seconds since a local midnight, and `RTC(s)` is what the real-time
clock, which runs at UTC, shows then; `getTime()` reads its fields one by one, with
interrupts on, and TIME calls it again for each number it prints. `ticks` is moved
by the timer and by every `forceTimerTick()`. Nothing is bounded (a state is an
instant of a day of 86400 seconds), so the module is proved about and not run.

### MemoryManager

A *holder* is a variable of the program that can hold one block. Under `Spec`
what is given back is what was held, as all the kernel's callers do; under
`UserSpec` blocks are given back through `freeMemoryUser()`, which passes on
whatever the argument register holds (`StrayPointers`). The abstract
`Allocator` says which block may be given and when a request may be refused;
the refinement mapping takes for its set of free blocks the entries of the
array from `currentBlock` on.

### LinkedList

The pointers of each node, `first`, `last`, the iterator and `size`. Callers
give `queue()` and `push()` a node that is not linked and `removeFromQueue()`
one that is; that the scheduler does so is `ReadyListExact` of `Scheduler`. The
mapping to `NodeQueue` follows `next` from `first`. Walks (`listIterator()`,
`listNext()`) are separate steps, but nothing changes the list during one, as
callers run with interrupts off.

### Semaphore

The state is the scheduler's and the semaphores'. A semaphore is a block of the
heap, an element of `Objects`.

| Model | Code |
|---|---|
| `semaphores[id]`, `availableID` | the table, never cleared, and the next id |
| `live` | blocks that are allocated; the content of the others is kept, as `freeMemory()` writes nothing |
| `ownID[o]` | `sem->id`; `semWait()` and `semPost()` find the queue through it (`QueueOwner`), so two ids that lead to one block may use another's queue |
| `locked` | locks still taken when a call has returned: only that of a wait that found no memory for its node |
| `parked` | processes inside `semWait()`, between `blockProcess()` and the last `yield()`; one that is given the processor again can only do `ResumeWait` |
| `InfoAt` | what lies at an address below `MAX_PROCESSES`: `semPost()` takes the PID in the node for the address of a node, and reads a PID there |

The addresses that are PIDs lie in the first gates of the interrupt descriptor
table (`idtLoader.c`). The bytes of gate 0, with the handler at 0x10483b, give no
index of the process table at the addresses 0 to 5, 16 at 6 and 0 at 7 to 12; the
PIDs of the instances stand for 1, 6, 7 and 16, one of each sort, or for 1 and 7.

Once the block of a destroyed semaphore may hold something else
(`UseAfterDestroy`), or the gates have been written over
(`semInitWithoutMemory`), the kernel is not followed: the source says nothing
of what happens. An id beyond the table is refused; a negative one is not
modelled. `acquire()` of a lock that nobody will release spins with interrupts
off (`Spin`). `SchedulerStep` is any action of `Scheduler`, so that sleeping
processes are killed, unblocked by hand and reused.

### Snake

A move is the body of the engine's loop, written as a function on a record of
what it changes, in the order of the code: the keys, the heads, the fruit and the
tails, then each head's crash and mark. Two facts of the memory layout matter,
and were read in the object code that the flags of `Makefile.inc` give: the mark
of the square (20, 0) of the grid, which is declared with its sizes swapped, is
`gameNotOver` (`FlagSquare`), and the word after the fifty numbers is `randIndex`
(`NumberAt`). Writes further off the board go to memory a game does not use.
Left out: drawing, sound, and the seconds between moves: a move may come at any
time between two keys. After a crash that was forgotten at `FlagSquare` a game is
followed until a tail leaves the board.

## 3. Runs

| Run | Instance | Shows |
|---|---|---|
| `scheduler_all` | 4 slots, 2 priorities, all calls, creations without memory among them | `TypeOK`, `ReadyListExact`, `RunningIsFirst`, `IdleNeverRuns`, `ZombieIsPending`, `ProcessQtyExact`, `NoOvertaking` |
| `process_memory` | 4 slots, 1 priority, 18 blocks, processes with and without an argument; creations are refused half way, processes take blocks for themselves | `MemoryTypeOK`, `NothingFreedTwice`, `StacksDisjoint`, `OnlyRefusalsLoseStacks`, `ImplementsScheduler`, `DeadAreFreed`, `NoStarvation` |
| `shell` | 4 slots, 1 priority, all calls and creations without memory | `CommandEnds` |
| `terminal` | 2 letters, a buffer of 4, a printer at the left margin | `TypeOK`, `LineInBuffer`, `CursorFollowsLine`, `ImplementsEditor` |
| `kill_family`, `stale_cleanup` | 5 or 4 slots, 1 priority | violated: section 5 |
| `memory_kernel` | 3 blocks, 4 holders, sizes at the edge | `TypeOK`, `BlocksDisjoint`, `FreeArrayExact`, `AccountingExact`, `ImplementsAllocator` |
| `memory_user` | 3 blocks, 2 holders | violated: section 5 |
| `linked_list` | 3 nodes with arbitrary old pointers | `TypeOK`, `LinkedForward`, `LinkedBackward`, `WalkComplete`, `ImplementsQueue`, `OperationsImplement` |
| `semaphore_calls` | 3 slots, a table of 4, 2 blocks, values and queues to 2; every wait may lack memory; kills and unblocks | `SemTypeOK`, `LiveCountExact`, `ReadyListExact`, `RunningIsFirst`, `LockKeptOnlyWithoutMemory` |
| `semaphore_wakes` | 3 clients of one semaphore of value 1 | violated: section 5 |
| `snake` | 5 x 3 board, 3 columns declared, 3 numbers, bodies to 6 alone and 4 with another | `TypeOK`, `BodiesKept`, `NoTurnBack`, `CrashDecides`, `FruitFound` |

Why the bounds are enough. Four slots are idle, the shell and two more: a killer,
a victim and a process that takes the victim's slot, or a parent and a child;
the fault of `kill_family` needs a fifth. Two priorities give a process that
keeps the processor for a tick and one that does not. Eighteen blocks are the
eight of the boot, two processes with an argument and nothing to spare, so that
each of the allocations of a creation is the one refused in some behaviour, and
four stacks run out after two lost ones. In `shell` the slot a command has listed
can be emptied and taken again before the command acts. A buffer of four holds a
line that is full, one that is erased to its beginning and beyond, and the 0 after
both. Three blocks and four
holders fill the heap and are refused; three nodes have a first, a middle and a
last. The proofs cover every size. A table of four has the id that is always
refused and three that share two blocks, so that an id's slot is taken by a later
semaphore and a block by a later id; the shell and another process can both wait
in a queue, and a sleeper is killed there. `MaxValue` and
`MaxWaiters` stop a post or a wait that would go beyond them. The blocks are
compared for equality only, which is what their symmetry needs. A snake of six
on a board of fifteen squares can turn round on itself, follow its tail and cover
every number of the list; the board has both declared columns and others, and the
two heads start close enough to meet in one move. A faulted kernel stops, so the runs of
`Scheduler`, `ProcessMemory`, `Shell` and `Semaphore` do not check deadlock, and a snake stops at its bound
of length.

Fairness. `NoStarvation`, `DeadAreFreed` and `CommandEnds` assume that the timer
goes on ticking (`setTickFreq(100)`, `kernel.c:62`; system calls are bounded, and
interrupts are on whenever a process runs). `FairTicks` writes the weak fairness
of `Tick` out, with "a tick changes the machine" for its enabledness. Nothing is
assumed of the processes. `FairShell` adds that a shell that is given the
processor again and again goes on with its command: at each turn it executes
at least one instruction, as a tick comes every ten milliseconds. `Terminal` has
`WF_vars(ShellStep)`: a shell that is not starved, which is what `NoStarvation`
says, takes the step it can take; the user may type or not, and other processes
may print or not. `LineEditor` asks that a key that waits is taken and has its
effect and that a command ends, each by weak fairness; that `Terminal` gives
these is part of `ImplementsEditor`.

## 4. Proofs

Every invariant and action property that a passing run checks is a theorem here as
well, for every value of the constants, and so are the refinements of `Allocator`,
`NodeQueue` and `Scheduler`. Each module has an inductive invariant of which the
checked invariants are consequences; `ListLemmas` has what several of them need:
the least element of a set of numbers (`MinIsLeast`), places in a list through
removals and appends, and functions that are defined by iteration over
`0 .. n` (`IterationExists`, from the least number for which there is none).

`SchedulerProofs`, for every number of slots and priorities: all seven properties
of the run. `IInv` is `Sound(Machine)`: the parts of the checked invariants that
`schedule()` works
on, strengthened by what holds when it is entered: the process to clean up is
never the current one, the idle process or the shell; only those two may be
KILLED; a RUNNING process leads the list. The last is stated with an explicit
place in the list (`Leads`), so that it can be followed through removals and
appends. `Schedulable` is the weaker form that holds in the middle
of a call that has marked its caller KILLED or BLOCKED; `CleanUp`, `Preempt` and
`switchContext` have a lemma each that leads from it back to `Sound`, and every
action reduces to those. `HandsOver` is what a call that gives up the processor
hands to `schedule()`; from it also follow

- which slot each step empties or fills (`SwitchAccounts`, `KillAccounts`,
  `CreateAccounts`, `OtherAccounts`), and with it `ProcessQtyExact`;
- that no step reorders those who go on waiting (`TurnsKept`: `KeepsOrder` of the
  list before and after, composed over the removals and appends of a step), which
  is `NoOvertaking`, an action property;
- the types of parents and children (`FamilyInv`, `TypeOK`): the loop that
  gives the children of the dead a new parent is a function from turn to turn, shown to exist and to
  stay in `LoopStates`, so that no list of children outgrows its array although a
  full one is written past its end.

`KernelProofs` has what is proved of the parts that extend `Scheduler`.

- Its first half is about `ProcessMemory`, for every size of the heap, of the table
  and of the pool, and any number of arguments: all invariants, `OnlyRefusalsLoseStacks`
  and `ImplementsScheduler`. `HeapInv` ties `dangling` to the blocks above the freed
  node, so that a step which only takes blocks is `UncoverFreedNode` or nothing.
  `PoolInv` says that the entries of the pool from `currentStack` on are different
  and held by no live process; a process that is freed has a stack outside of them,
  so the pool cannot be full (`RoomForStack`, by the pigeonhole principle), and the
  test `currentStack > 0` of `freeStack()` never fails. Each step does one of four
  things to the pool (`PoolStep`), and one of four to the heap (`AccountStep`: what
  a new process will own is taken, blocks are taken that nobody owns, a process ends
  and gives back no more than it owned, or nothing). `AccountInv` adds it up: the free
  blocks and those owned by live processes (`Claims`, one pair for each block, so
  that their sum is a cardinality) are never more than the heap has. That gives
  `NothingFreedTwice` and, as the index of the free array stays in it,
  `MemoryTypeOK`.
- Its second half is about `Semaphore`, for every size of the tables and every
  `InfoAt`: the same `IInv` holds of `SemSpec`, so `ReadyListExact`,
  `RunningIsFirst` and `IdleNeverRuns` do. A call of `semaphore.c` changes the
  scheduler only by `Sleep` and `yield` (`SleepGood`, `YieldGood`), by
  `unblockProcess` (`UnblockGood`) and by where a freed node lies (`PlaceGood`).
  `SemTypeOK` and `LiveCountExact` follow from `SemInv`: `availableID` is the number
  of live semaphores, so that a destroy, which finds one, never takes the id below
  zero. `LockKeptOnlyWithoutMemory` is a matter of every step (`LocksAreReleased`).

`MemoryManagerProofs`, for every number and size of blocks, every set of
holders and sizes, under `Spec`: all four invariants, and `ImplementsAllocator`.
`currentBlock` counts the blocks held (`Counted`): that is what makes the test
`currentBlock == 0` of `freeMemory()` false for a caller that holds a block, and
the free part of the array empty exactly when a request is refused.

`LinkedListProofs`, for every set of nodes: all four invariants,
`OperationsImplement` and `ImplementsQueue`. The invariant says that some sequence
of distinct nodes is linked both ways (`Links`) and, during a walk, how far it
has come (`Underway`); `WalkIs` shows that the recursive walk along the pointers
returns that sequence, by the least place where it would not.

`TerminalProofs`, for every alphabet, size of the buffer and width of the font.
`LineInBuffer` and `CursorFollowsLine` take `PrinterColumns \subseteq {0}`. The invariant
says, at every place of the loop, that the cursor is at most where the index is,
and, while the loop runs, the same of the column that was loaded: a process that
prints can only move the cursor back to the margin, so that a Backspace that finds
it beyond `minX` finds a letter to erase. Without that assumption the invariant
fails (section 5), and only its weaker part `WeakInv` holds, where the index has no
lower bound; `TypeOK` follows from that, so it needs no assumption.
`KeysEditTheLine` is the refinement, step by step: `Safety` of `LineEditor`, its
initial states and steps, under the mapping of `ImplementsEditor`. It takes one fact
more (`HandInv`: the place of the buffer at the index holds the key that was taken
until it has had its effect), a lemma for every place in the code, and that the
value which stands for "no command" is not a line.

`SnakeProofs`, for boards, starts and lists of numbers of any size and snakes of any
length: all five properties of the run. The parts of a tick have a predicate and a
lemma each (`Steered`, `Advanced`, `Grown`, `Retracted`, `Refreshed`, `Landed`), and
`Tick1` and `Tick2` put them in the order of the two engines. `IInv` holds the types,
that a game which goes on has neither flag down, that a snake never has fewer than
three squares, and that a fruit is one of the list. `TypeOK` and `NoTurnBack` follow
from it. `Bodies` follows
the directions from a tail, so a body is turned into a path: a function `w` from step
to square (`Path`, `Lies`) onto the body (`Covers`). As the body has as many squares
as the snake is long, the path meets none twice (`BodyLies`, by the pigeonhole
principle), and so a head that moves on leaves the rest of the path as it was, one
place on if the tail follows and as it is if the snake eats (`MovesOn`, `GrowsOn`).
`Ticked` is the middle of a move, when the tails have followed and no head has
landed. There the marked squares are those that the bodies keep (`MarkedIsKept`), so
a head lands on a mark when and only when it is a crash of the property (`Fatal`,
`CrashesDecide`), and if nobody has crashed the bodies are whole again
(`StayLaidOut`). For `FruitFound` the square of the fruit that was eaten is free in
that middle unless a body keeps it (`SnakesFindFruit`), and the search meets every
number of the list (`EveryIndexIsMet`, `FruitEffect`). `AFruitIsFound` assumes that
the square of `gameNotOver`, number 20, is not in the list: it is not in the fifty
numbers of `snakeApp.c:11-17`, and the index after them reads 50.
`SnakeAssumption` says that the fault of the grid's sizes stays inside a row
(`DeclaredColumns` is a column) and that the snakes start on the board, three squares
in a row, as the grid and `snakeApp.c:313-360` have it.

`ClockProofs`: five facts about the operators (the hour, the day, the 16 bits of
the kernel's wait, the seconds) and two theorems of `Spec`. `TimeIsNeverAhead`
follows the moments at which the three numbers on the screen were read, which come
one after the other (`Moments`), and compares their digits with those of the end.
`TrueDay` and `TimeIsNeverAhead` speak of UTC-3, which the source names
(`clockTime.c:14`).

Only model-checked: the liveness properties `NoStarvation`, `DeadAreFreed`,
`CommandEnds` and the fairness of `ImplementsEditor`, which are out of the prover's
reach, and with `CommandEnds` all of `Shell`. Proved but checked by no run: `Clock`.

## 5. Disagreements between code and what is said of it

1. `kill_family`. The parent's list of children forgets its last entry, not the
   one that died; a later kill of the parent dereferences an empty slot.
2. `stale_cleanup`. `killProcess()` of a process that has exited leaves
   `toCleanupPID`; a process created in that slot before the next tick is freed.
3. `memory_user`. `freeMemoryUser()` drops its argument.
4. `semaphore_wakes`. `semPost()` takes the PID that `dequeue()` returns for the
   address of a node: the waiter leaves the queue and sleeps on.

Met as well, with no run of their own.

Kernel:
- A kill of an unused PID should return -1 (`scheduler.c:150-151`,
  `test_processes.c:59-60`) and line 149 dereferences the slot first
  (`CallOnVacantSlot` halts the model).
- A process that kills itself is subtracted from its parent's children twice
  (`LeaveParent`, in `KillSelf` and again in `CleanUp`).
- `semPost()` increments the value although it hands the unit to a waiter, so that
  in the loop of `test_sync.c` a second process would pass as well.
- A creation that is refused half way keeps its stack and its blocks; a clean-up
  loses the name and the arguments, a kill the array of the arguments.
- The date is a day ahead in the hour that begins at 21 local time, is 0 on the
  first of a month afterwards, and month and year are those of UTC
  (`LocalDayIsRightOutsideAnHour`, `LocalDayCanBeZero`).
- A second of `seconds_elapsed()` is 18 ticks while the timer is set to 100 a
  second, and forced ticks count as well (`SecondsAreShort`). The kernel's `wait()`
  keeps 16 bits of the counter and so waits for nothing eleven minutes after boot
  (`KernelWaitForgets`); called behind an interrupt gate, as `sound()` would, it
  would never end, but nothing calls it (`kernel.c:65`).
- A key without a character replaces one that was not read yet, and keys typed
  until the screen is drawn again after a Tab are dropped: `LineEditor` allows both.

User programs:
- While another process prints, a Backspace may be ignored, and the column may
  become negative. `printProcesses()` of TESTPRIO leaves the cursor at column 58
  until it ends its line: a Backspace at index 0 in that moment would write below
  the buffer. `PrinterColumns` leaves that out.
- `getBuffer()` prints each key from an array of one character with no 0 after it.
- BLOCK and KILL report success whatever the kernel answers, so for the two
  protected processes as well; KILL prints the name of its victim from memory that
  was given back, and never gives back its list.
- A command acts on a slot as listed; the slot may have another owner by then.
- TIME puts together numbers of three readings: what it shows may never have been.
- `wait()` lasts a tick more than it is asked to (`UserWaitIsLonger`).
- The square (20, 0) of the snake's board is `gameNotOver`, and the properties of
  `Snake` that fail there leave it out by name.

## 6. Not modelled, and what is left

- Pipes and the buddy allocator are stubs that nothing calls or compiles; CAT, WC,
  FILTER, PHYLO, TESTSYNC and TESTNOSYNC do nothing.
- Video, sound and the native library write to devices; fonts, colours and the
  registers' screen have no state that anything depends on.
- Saving and restoring registers, the frame of a new process, exceptions (which
  print and enter the user code at its start) and the loading of modules are data that no
  property here tells apart. The size of a stack is not modelled, so neither is a
  stack that overflows (`snakeApp.c:498`).
- After a stray address, an overwritten descriptor table or a node written over, the
  kernel is not followed: the models halt there.
- The boot loader is vendored; the module packer runs on the host.

Left to do: that the steps of `Shell` are steps of `Scheduler`, so that its theorems
hold with the shell's commands as well, and an abstract specification of a
semaphore's queue.
