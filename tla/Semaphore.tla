------------------------------ MODULE Semaphore ------------------------------
(***************************************************************************)
(* The semaphores of Kernel/Semaphores/semaphore.c over the scheduler.     *)
(*                                                                         *)
(* A semaphore is an object, the block it was allocated in; the table maps *)
(* an id to an object and is never cleared, so that ids may share one, or  *)
(* lead to one that was destroyed, whose block keeps what it holds until   *)
(* it is allocated again.  A wait that finds zero pushes a node with the   *)
(* caller's PID and blocks the caller inside the call; when the caller is  *)
(* given the processor again it is still inside, and gives it up once more *)
(* before it returns.                                                      *)
(*                                                                         *)
(* A post takes the PID from the front of the queue for the address of a   *)
(* node and reads the PID to wake from there.  The addresses of the size   *)
(* of a PID hold the first gates of the interrupt descriptor table: InfoAt *)
(* says what is read there.                                                *)
(***************************************************************************)
EXTENDS Scheduler

CONSTANTS
  MaxSemaphores,  \* MAX_SEM_QTY
  Objects,        \* blocks that can hold a semaphore
  NoObject,       \* NULL in the table
  InfoAt,         \* the number read at each address that is a PID
  MaxValue,       \* bound on a semaphore's value (32 bits in the code)
  MaxWaiters      \* bound on the length of a queue (the heap in the code)

ASSUME SemaphoreAssumption ==
  /\ MaxSemaphores \in Nat \ {0}
  /\ NoObject \notin Objects
  /\ InfoAt \in [Pids -> Int]
  /\ MaxValue \in Nat /\ MaxWaiters \in Nat

Ids == 0 .. MaxSemaphores - 1

VARIABLES
  semaphores,    \* the table: an object or NoObject for each id
  availableID,   \* next id
  live,          \* objects that are allocated
  ownID,         \* id that each object holds
  value,         \* value of each object
  locked,        \* objects whose lock is taken between two calls
  blockedQueue,  \* PIDs of the nodes of each object's queue, first to last
  parked         \* processes inside semWait(), before its last yield()

semVars == <<semaphores, availableID, live, ownID, value, locked, blockedQueue, parked>>
allVars == <<vars, semVars>>

SemInitState ==
  /\ Init
  /\ semaphores = [id \in Ids |-> NoObject]
  /\ availableID = 0
  /\ live = {}
  /\ ownID = [o \in Objects |-> 0]
  /\ value = [o \in Objects |-> 0]
  /\ locked = {}
  /\ blockedQueue = [o \in Objects |-> <<>>]
  /\ parked = {}

-----------------------------------------------------------------------------
\* The processor was given back to a process that sleeps in semWait().
Resuming == status[currentPID] = "RUNNING" /\ currentPID \in parked

\* A process whose slot was emptied sleeps no more.
Remain(sleepers) == parked' = {p \in sleepers : status'[p] # "none"}

\* The kernel goes no further.
Halt(site) == Become([Machine EXCEPT !.halted = site]) /\ UNCHANGED semVars

\* The last id of the table is refused like those beyond it.
getSemaphore(id) == IF id >= MaxSemaphores - 1 THEN NoObject ELSE semaphores[id]

\* The running process calls, and the id leads to an object.
Finds(call, id, o) ==
  /\ Issues(call)
  /\ ~Resuming
  /\ o # NoObject
  /\ o = getSemaphore(id)

\* ... to one whose lock can be acquired.
Acquires(call, id, o) == Finds(call, id, o) /\ o \notin locked

\* The queue is that of the semaphore found by the id it holds.
QueueOwner(o) == semaphores[ownID[o]]

\* The block may be one that held a semaphore before.
semInit(v) ==
  /\ Issues("sem-init")
  /\ ~Resuming
  /\ availableID < MaxSemaphores
  /\ dangling # "top"
  /\ \E o \in Objects \ live, d \in AfterAllocation :
       /\ Become([Machine EXCEPT !.dangling = d])
       /\ semaphores' = [semaphores EXCEPT ![availableID] = o]
       /\ availableID' = availableID + 1
       /\ live' = live \cup {o}
       /\ ownID' = [ownID EXCEPT ![o] = availableID]
       /\ value' = [value EXCEPT ![o] = v]
       /\ locked' = locked \ {o}
       /\ blockedQueue' = [blockedQueue EXCEPT ![o] = <<>>]
       /\ UNCHANGED parked

\* NULL from the allocator is written through, over the first gates of the
\* interrupt descriptor table.
semInitWithoutMemory ==
  /\ Issues("sem-init") /\ "sem-oom" \in Calls
  /\ ~Resuming
  /\ availableID < MaxSemaphores
  /\ Halt("memory")

\* Mutant: the id is not given back.
semDestroy_keepsId(id) ==
  \E o \in live :
    /\ Finds("sem-destroy", id, o)
    /\ live' = live \ {o}
    /\ Become([Machine EXCEPT !.dangling = IF @ = "top" THEN "buried" ELSE @])
    /\ UNCHANGED <<semaphores, availableID, ownID, value, locked, blockedQueue, parked>>

\* The slot keeps the address, the queue is not freed, and the id that is
\* given back is the last one, whichever semaphore goes.
semDestroy(id) ==
  \E o \in live :
    /\ Finds("sem-destroy", id, o)
    /\ live' = live \ {o}
    /\ availableID' = availableID - 1
    /\ Become([Machine EXCEPT !.dangling = IF @ = "top" THEN "buried" ELSE @])
    /\ UNCHANGED <<semaphores, ownID, value, locked, blockedQueue, parked>>

-----------------------------------------------------------------------------
(***************************************************************************)
(* semWait().                                                              *)
(***************************************************************************)

\* Mutant: the value is not looked at.
WaitPasses_always(id) ==
  \E o \in Objects :
    /\ Acquires("sem-wait", id, o)
    /\ value' = [value EXCEPT ![o] = @ - 1]
    /\ UNCHANGED <<vars, semaphores, availableID, live, ownID, locked, blockedQueue, parked>>

WaitPasses(id) ==
  \E o \in Objects :
    /\ Acquires("sem-wait", id, o)
    /\ value[o] > 0
    /\ value' = [value EXCEPT ![o] = @ - 1]
    /\ UNCHANGED <<vars, semaphores, availableID, live, ownID, locked, blockedQueue, parked>>

\* blockProcess() does nothing to the shell.
Sleep(m) ==
  IF m.current = SHELL_PID THEN m
  ELSE [m EXCEPT !.status[m.current] = "BLOCKED",
                 !.ready = RemoveFirst(@, m.current)]

\* Mutant: the caller is blocked and keeps the processor.
WaitSleeps_noYield(id) ==
  /\ dangling # "top"
  /\ \E o \in Objects, d \in AfterAllocation :
       /\ Acquires("sem-wait", id, o)
       /\ value[o] = 0 /\ Len(blockedQueue[QueueOwner(o)]) < MaxWaiters
       /\ Become(Sleep([Machine EXCEPT !.dangling = d]))
       /\ blockedQueue' = [blockedQueue EXCEPT ![QueueOwner(o)] = <<currentPID>> \o @]
  /\ Remain((parked \cup {currentPID}) \ {SHELL_PID})
  /\ UNCHANGED <<semaphores, availableID, live, ownID, value, locked>>

\* Mutant: the lock is released after the caller has slept, by nobody.
WaitSleeps_keepsLock(id) ==
  /\ dangling # "top"
  /\ \E o \in Objects, d \in AfterAllocation :
       /\ Acquires("sem-wait", id, o)
       /\ value[o] = 0 /\ Len(blockedQueue[QueueOwner(o)]) < MaxWaiters
       /\ Become(yield(Sleep([Machine EXCEPT !.dangling = d])))
       /\ blockedQueue' = [blockedQueue EXCEPT ![QueueOwner(o)] = <<currentPID>> \o @]
       /\ locked' = locked \cup {o}
  /\ Remain((parked \cup {currentPID}) \ {SHELL_PID})
  /\ UNCHANGED <<semaphores, availableID, live, ownID, value>>

\* The node goes to the front of the queue, the lock is released, and the
\* caller sleeps inside blockProcess(); the shell only yields.
WaitSleeps(id) ==
  /\ dangling # "top"
  /\ \E o \in Objects, d \in AfterAllocation :
       /\ Acquires("sem-wait", id, o)
       /\ value[o] = 0 /\ Len(blockedQueue[QueueOwner(o)]) < MaxWaiters
       /\ Become(yield(Sleep([Machine EXCEPT !.dangling = d])))
       /\ blockedQueue' = [blockedQueue EXCEPT ![QueueOwner(o)] = <<currentPID>> \o @]
  /\ Remain((parked \cup {currentPID}) \ {SHELL_PID})
  /\ UNCHANGED <<semaphores, availableID, live, ownID, value, locked>>

\* No memory for the node: the call returns and leaves the lock taken.
WaitWithoutNode(id) ==
  \E o \in Objects :
    /\ Acquires("sem-wait", id, o) /\ "sem-oom" \in Calls
    /\ value[o] = 0
    /\ locked' = locked \cup {o}
    /\ UNCHANGED <<vars, semaphores, availableID, live, ownID, value, blockedQueue, parked>>

semWait(id) == WaitPasses(id) \/ WaitSleeps(id) \/ WaitWithoutNode(id)

\* Back from blockProcess(), interrupts still off: the last yield().
ResumeWait ==
  /\ halted = "no"
  /\ Resuming
  /\ Become(yield(Machine))
  /\ Remain(parked \ {currentPID})
  /\ UNCHANGED <<semaphores, availableID, live, ownID, value, locked, blockedQueue>>

-----------------------------------------------------------------------------
(***************************************************************************)
(* semPost().                                                              *)
(***************************************************************************)

\* Mutant: unblockProcess() queues whatever process it is given.
unblockProcess_any(m, pid) ==
  IF pid \notin Pids \/ m.status[pid] = "none"
  THEN [m EXCEPT !.halted = "unblock"]
  ELSE [m EXCEPT !.status[pid] = "READY", !.ready = Append(@, pid)]

\* unblockProcess() of a number that may be no PID of a process.
unblockProcess(m, pid) ==
  IF pid \notin Pids \/ m.status[pid] = "none"
  THEN [m EXCEPT !.halted = "unblock"]
  ELSE IF m.status[pid] = "BLOCKED"
  THEN [m EXCEPT !.status[pid] = "READY", !.ready = Append(@, pid)]
  ELSE m

\* dequeue() frees the node and returns its info, which is the waiter's PID;
\* it returns NULL, address 0, if the queue is empty.
Wake(m, o) ==
  LET queue == blockedQueue[QueueOwner(o)]
  IN IF blockedQueue[o] = <<>> THEN m
     ELSE IF queue = <<>> THEN unblockProcess(m, InfoAt[0])
     ELSE unblockProcess([m EXCEPT !.dangling = IF @ = "top" THEN "buried" ELSE @],
                         InfoAt[Head(queue)])

semPost(id) ==
  \E o \in Objects :
    /\ Acquires("sem-post", id, o)
    /\ value[o] < MaxValue
    /\ value' = [value EXCEPT ![o] = @ + 1]
    /\ blockedQueue' = IF blockedQueue[o] = <<>> THEN blockedQueue
                       ELSE [blockedQueue EXCEPT ![QueueOwner(o)] = SubSeq(@, 2, Len(@))]
    /\ Become(Wake(Machine, o))
    /\ UNCHANGED <<semaphores, availableID, live, ownID, locked, parked>>

-----------------------------------------------------------------------------
\* The block of a destroyed semaphore, or of the one whose queue is used, has
\* been allocated again for something else; what was freed is freed again.
UseAfterDestroy(call, id) ==
  \E o \in Objects :
    /\ Finds(call, id, o)
    /\ o \notin live \/ (call # "sem-destroy" /\ QueueOwner(o) \notin live)
    /\ Halt("memory")

\* acquire() of a lock that is taken spins with interrupts off.
Spin(call, id) ==
  /\ call # "sem-destroy"
  /\ \E o \in locked : Finds(call, id, o) /\ Halt("lock")

SchedulerStep ==
  /\ ~Resuming
  /\ Next
  /\ Remain(parked)
  /\ UNCHANGED <<semaphores, availableID, live, ownID, value, locked, blockedQueue>>

SemNext ==
  \/ SchedulerStep
  \/ ResumeWait
  \/ \E v \in 0 .. MaxValue : semInit(v)
  \/ semInitWithoutMemory
  \/ \E id \in 0 .. MaxSemaphores :
       \/ semDestroy(id)
       \/ semWait(id)
       \/ semPost(id)
       \/ \E call \in {"sem-destroy", "sem-wait", "sem-post"} :
            UseAfterDestroy(call, id) \/ Spin(call, id)

SemSpec == SemInitState /\ [][SemNext]_allVars

-----------------------------------------------------------------------------
(***************************************************************************)
(* Properties.  Those of Scheduler are checked again with semaphores.      *)
(***************************************************************************)

\* Types of the semaphores' state.
SemTypeOK ==
  /\ semaphores \in [Ids -> Objects \cup {NoObject}]
  /\ availableID \in 0 .. MaxSemaphores
  /\ live \subseteq Objects
  /\ ownID \in [Objects -> Ids]
  /\ value \in [Objects -> 0 .. MaxValue]
  /\ locked \subseteq Objects
  /\ blockedQueue \in [Objects -> Seq(Pids)]
  /\ parked \subseteq Pids \ {IDLE_PID, SHELL_PID}

\* availableID counts the live semaphores, in whatever order they are
\* created and destroyed: the table is full only when they are all in use.
LiveCountExact == halted = "no" => availableID = Cardinality(live)

\* A lock is taken when a call returns only if the heap was exhausted, so
\* that nothing else can make the next caller spin for ever.
LockKeptOnlyWithoutMemory ==
  [][locked' \subseteq locked \/ \E id \in Ids : WaitWithoutNode(id)]_allVars

\* A post whose queue is not empty wakes the waiter it takes from the queue.
PostWakesWaiter ==
  [][\A o \in Objects :
       LET waiter == Head(blockedQueue[o])
       IN /\ blockedQueue[o] # <<>> /\ blockedQueue'[o] = Tail(blockedQueue[o])
          /\ status[waiter] = "BLOCKED" /\ o \in live'
          => status'[waiter] = "READY"]_allVars

=============================================================================
