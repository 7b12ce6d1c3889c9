------------------------------ MODULE Scheduler ------------------------------
(***************************************************************************)
(* The process scheduler of Kernel/Processes/scheduler.c: the table of     *)
(* processes, the ready list, and every handler that changes them.  A      *)
(* system call runs behind an interrupt gate, so each is one atomic action; *)
(* a call that gives up the processor (exit, a kill of oneself, a block of *)
(* oneself) raises the timer interrupt from inside and so includes a whole *)
(* run of schedule().                                                      *)
(*                                                                         *)
(* A PCB is spread over functions on the slots of the table; an empty slot *)
(* (processes[p] = NULL) has status "none" and neutral other fields.  The  *)
(* ready list is the sequence of the PIDs of its nodes, except that nodes  *)
(* whose memory was freed while still linked are only remembered by        *)
(* "dangling": the heap is a stack of free blocks, so the next process     *)
(* created overwrites such a node unless a later kill freed blocks above   *)
(* it.  A handler that dereferences an empty slot takes a general          *)
(* protection fault, which the boot loader's gate turns into an endless    *)
(* loop: "halted" then names the place and nothing is enabled any more.    *)
(***************************************************************************)
EXTENDS Integers, Sequences, FiniteSets, SequencesExt

CONSTANTS
  MaxProcesses,     \* MAX_PROCESSES, slots of the process table
  HighestPriority,  \* HIGHEST_PRIORITY; LOWEST_PRIORITY is 0
  Calls             \* the system calls this instance's processes issue

ASSUME SchedulerAssumption ==
  /\ MaxProcesses \in Nat /\ MaxProcesses >= 2
  /\ HighestPriority \in Nat

IDLE_PID == 0
SHELL_PID == 1
NoPid == -1

Pids == 0 .. MaxProcesses - 1
Priorities == 0 .. HighestPriority
Statuses == {"none", "READY", "RUNNING", "BLOCKED", "KILLED"}
VacantCalls == {"kill", "block", "unblock", "priority"}
\* "links", "memory": undefined from here on; "lock": a lock that is never free.
Halts == {"no", "idle", "child", "parent", "links", "memory", "lock"} \cup VacantCalls

VARIABLES
  status,        \* status of each slot, "none" for a NULL slot
  readyList,     \* PIDs of the linked nodes, first to last
  currentPID,    \* process whose context is on the processor
  toCleanupPID,  \* process that ended and is to be freed at the next tick
  processQty,    \* live entries, as the kernel counts them
  parentPID,     \* parent recorded in each PCB
  children,      \* the childrenQty first entries of each PCB's array
  priority,
  roundsLeft,    \* ticks the process may still keep the processor
  dangling,      \* "no", or where a freed node that is still linked lies:
                 \* on "top" of the free blocks, or "buried" under others
  halted         \* "no", or where the kernel faulted

vars == <<status, readyList, currentPID, toCleanupPID, processQty, parentPID,
          children, priority, roundsLeft, dangling, halted>>

(***************************************************************************)
(* A handler is a function from one machine state to the next; Machine     *)
(* packs the variables and Become unpacks the result.                      *)
(***************************************************************************)
Machine ==
  [status |-> status, ready |-> readyList, current |-> currentPID,
   cleanup |-> toCleanupPID, qty |-> processQty, parent |-> parentPID,
   children |-> children, priority |-> priority, rounds |-> roundsLeft,
   dangling |-> dangling, halted |-> halted]

Become(m) ==
  IF m.halted = "no"
  THEN /\ status' = m.status       /\ readyList' = m.ready
       /\ currentPID' = m.current  /\ toCleanupPID' = m.cleanup
       /\ processQty' = m.qty      /\ parentPID' = m.parent
       /\ children' = m.children   /\ priority' = m.priority
       /\ roundsLeft' = m.rounds   /\ dangling' = m.dangling
       /\ halted' = "no"
  ELSE /\ halted' = m.halted
       /\ UNCHANGED <<status, readyList, currentPID, toCleanupPID, processQty,
                      parentPID, children, priority, roundsLeft, dangling>>

-----------------------------------------------------------------------------
(***************************************************************************)
(* Families.                                                               *)
(***************************************************************************)

\* children[childrenQty] = c; childrenQty++.  The word after the array is
\* childrenQty itself: a full list is shortened to its first c + 1 entries.
PushChild(kids, c) ==
  IF Len(kids) < MaxProcesses THEN Append(kids, c) ELSE SubSeq(kids, 1, c + 1)

\* childrenQty--: the last entry is forgotten, whichever child is leaving.
DropChild(kids) == IF kids = <<>> THEN kids ELSE Front(kids)

\* The parent a child is given by the loops that hand over a dead process's
\* children: the shell, but a child that is itself KILLED keeps its parent.
NewParent(m, family, child) ==
  IF m.status[child] # "KILLED" THEN SHELL_PID ELSE family.parent[child]

Adopt(m, family, child) ==
  IF m.status[child] = "none" \/ m.status[NewParent(m, family, child)] = "none"
  THEN [family EXCEPT !.halted = "child"]
  ELSE [family EXCEPT
          !.parent[child] = NewParent(m, family, child),
          !.children[NewParent(m, family, child)] = PushChild(@, child)]

\* The loop itself: it reads childrenQty again at every turn, so a list that
\* grows under the loop is followed to its end.
HandOverChildren(m, dead) ==
  LET loop[i \in 0 .. MaxProcesses] ==
        IF i = 0
        THEN [parent |-> m.parent, children |-> m.children, halted |-> m.halted]
        ELSE LET f == loop[i - 1]
             IN IF f.halted # "no" \/ i > Len(f.children[dead]) THEN f
                ELSE Adopt(m, f, f.children[dead][i])
      family == loop[MaxProcesses]
  IN [m EXCEPT !.parent = family.parent, !.children = family.children,
               !.halted = IF family.halted = "no" THEN "no" ELSE "child"]

\* The dead process's parent counts one child less.
LeaveParent(m, dead) ==
  IF m.halted # "no" THEN m
  ELSE IF m.status[m.parent[dead]] = "none" THEN [m EXCEPT !.halted = "parent"]
  ELSE [m EXCEPT !.children[m.parent[dead]] = DropChild(@)]

\* Mutant: the slot is emptied and not counted.
FreeSlot_uncounted(m, pid) ==
  [m EXCEPT !.status[pid] = "none", !.parent[pid] = NoPid,
            !.children[pid] = <<>>, !.priority[pid] = 0, !.rounds[pid] = 0]

\* processes[pid] = NULL; processQty--.
FreeSlot(m, pid) ==
  [m EXCEPT !.status[pid] = "none", !.parent[pid] = NoPid,
            !.children[pid] = <<>>, !.priority[pid] = 0, !.rounds[pid] = 0,
            !.qty = @ - 1]

-----------------------------------------------------------------------------
(***************************************************************************)
(* schedule(), run by every timer interrupt.                               *)
(***************************************************************************)

\* Free the process that ended before the last switch, if its slot is in use.
\* Another process may have been created in the slot since; if that one is
\* BLOCKED its node is not in the list, and unlinking it ruins the links.
CleanUp(m) ==
  LET dead == m.cleanup
  IN IF dead = NoPid \/ m.status[dead] = "none"
     THEN [m EXCEPT !.cleanup = NoPid]
     ELSE IF m.status[dead] = "BLOCKED" THEN [m EXCEPT !.halted = "links"]
     ELSE [FreeSlot(LeaveParent(HandOverChildren(m, dead), dead), dead)
             EXCEPT !.ready = RemoveFirst(@, dead), !.cleanup = NoPid,
                    !.dangling = IF @ = "top" THEN "buried" ELSE @]

\* Mutant: the preempted process is not marked READY.
Preempt_stillRunning(m) ==
  CASE m.status[m.current] = "RUNNING" ->
         [m EXCEPT !.ready = IF m.current = IDLE_PID THEN @
                             ELSE Append(RemoveFirst(@, m.current), m.current)]
    [] m.status[m.current] = "KILLED" -> [m EXCEPT !.cleanup = m.current]
    [] OTHER -> m

\* Mutant: a process that ended is not remembered.
Preempt_forgetsDead(m) ==
  IF m.status[m.current] = "RUNNING"
  THEN [m EXCEPT !.status[m.current] = "READY",
                 !.ready = IF m.current = IDLE_PID THEN @
                           ELSE Append(RemoveFirst(@, m.current), m.current)]
  ELSE m

\* Mutant: the preempted process keeps its place in the list.
Preempt_keepsPlace(m) ==
  CASE m.status[m.current] = "RUNNING" -> [m EXCEPT !.status[m.current] = "READY"]
    [] m.status[m.current] = "KILLED" -> [m EXCEPT !.cleanup = m.current]
    [] OTHER -> m

\* The running process goes to the tail of the list; one that ended is
\* remembered for the next run of CleanUp.
Preempt(m) ==
  CASE m.status[m.current] = "RUNNING" ->
         [m EXCEPT
            !.status[m.current] = "READY",
            !.ready = IF m.current = IDLE_PID THEN @
                      ELSE Append(RemoveFirst(@, m.current), m.current)]
    [] m.status[m.current] = "KILLED" -> [m EXCEPT !.cleanup = m.current]
    [] OTHER -> m

getNextProcess(m) ==
  LET first == SelectInSeq(m.ready, LAMBDA p : m.status[p] # "KILLED")
  IN IF first = 0 THEN IDLE_PID ELSE m.ready[first]

switchContext(m, pid) ==
  IF m.status[pid] = "none" THEN [m EXCEPT !.halted = "idle"]
  ELSE [m EXCEPT !.rounds[pid] = m.priority[pid],
                 !.status[pid] = "RUNNING",
                 !.current = pid]

Reschedule(m) ==
  IF m.ready = <<>> THEN [m EXCEPT !.halted = "idle"]
  ELSE IF m.status[m.current] = "RUNNING" /\ m.rounds[m.current] > 0
  THEN [m EXCEPT !.rounds[m.current] = @ - 1]
  ELSE LET p == Preempt(m) IN switchContext(p, getNextProcess(p))

schedule(m) ==
  IF m.halted # "no" THEN m
  ELSE LET clean == CleanUp(m)
       IN IF clean.halted # "no" THEN clean ELSE Reschedule(clean)

\* roundsLeft = 0; forceTimerTick().
yield(m) == schedule([m EXCEPT !.rounds[m.current] = 0])

-----------------------------------------------------------------------------
(***************************************************************************)
(* The actions.                                                            *)
(***************************************************************************)

\* main(): idle and shell are created with interrupts off and currentPID 0;
\* no process runs before the first tick.
Init ==
  /\ status = [p \in Pids |-> IF p \in {IDLE_PID, SHELL_PID} THEN "READY" ELSE "none"]
  /\ readyList = <<SHELL_PID>>
  /\ currentPID = IDLE_PID
  /\ toCleanupPID = NoPid
  /\ processQty = 2
  /\ parentPID = [p \in Pids |-> IF p \in {IDLE_PID, SHELL_PID} THEN IDLE_PID ELSE NoPid]
  /\ children = [p \in Pids |-> <<>>]
  /\ priority = [p \in Pids |-> IF p = SHELL_PID THEN HighestPriority ELSE 0]
  /\ roundsLeft = [p \in Pids |-> 0]
  /\ dangling = "no"
  /\ halted = "no"

\* The processor executes the code of a process, which issues the call.
Issues(call) ==
  /\ halted = "no"
  /\ status[currentPID] = "RUNNING"
  /\ call \in Calls

Tick ==
  /\ halted = "no"
  /\ Become(schedule(Machine))

FreePids == {p \in Pids : status[p] = "none"}
availablePidValue == CHOOSE p \in FreePids : \A q \in FreePids : p <= q

\* addChildren() before the node is allocated: the entry the parent's list
\* gets when a process is being created.
AddChildren == [children EXCEPT ![currentPID] = Append(@, availablePidValue)]

CanCreate ==
  /\ FreePids # {}
  /\ processQty < MaxProcesses
  /\ Len(children[currentPID]) < MaxProcesses

\* Where the freed node may lie once a creation has taken its blocks.
AfterAllocation == IF dangling = "buried" THEN {"buried", "top"} ELSE {dangling}

Create(prio) ==
  /\ Issues("create")
  /\ CanCreate
  /\ dangling # "top"
  /\ \E d \in AfterAllocation : LET pid == availablePidValue
     IN Become([Machine EXCEPT
          !.dangling = d,
          !.status[pid] = "READY", !.ready = Append(@, pid), !.qty = @ + 1,
          !.parent[pid] = currentPID, !.children = AddChildren,
          !.priority[pid] = prio, !.rounds[pid] = 0])

\* The heap runs out after addChildren(): no process, but the entry stays.
CreateWithoutNode ==
  /\ Issues("create-oom")
  /\ CanCreate
  /\ dangling = "no"
  /\ Become([Machine EXCEPT !.children = AddChildren])

Exit ==
  /\ Issues("exit")
  /\ currentPID # SHELL_PID
  /\ Become(yield([Machine EXCEPT !.status[currentPID] = "KILLED"]))

\* What killProcess() does to the family of its victim.
Bereave(m, pid) == LeaveParent(HandOverChildren(m, pid), pid)

\* The victim is the caller: it is marked and the tick is forced; the next
\* tick frees it, and settles its family a second time.
KillSelf(pid) ==
  /\ Issues("kill")
  /\ pid \notin {IDLE_PID, SHELL_PID}
  /\ status[pid] = "RUNNING"
  /\ LET m == Bereave(Machine, pid)
     IN Become(schedule([m EXCEPT !.status[pid] = "KILLED"]))

\* Any other victim is freed at once.  A READY one is unlinked first; one that
\* is KILLED and waiting for its clean-up is freed while still linked.
KillOther(pid) ==
  /\ Issues("kill")
  /\ pid \notin {IDLE_PID, SHELL_PID}
  /\ status[pid] \in {"READY", "BLOCKED", "KILLED"}
  /\ Become([FreeSlot(Bereave(Machine, pid), pid) EXCEPT
               !.ready = RemoveFirst(@, pid),
               !.dangling = IF status[pid] = "KILLED" THEN "top"
                            ELSE IF @ = "top" THEN "buried" ELSE @])

\* Mutant: the shell can be blocked like any other process.
Block_shellToo(pid) ==
  /\ Issues("block")
  /\ pid # IDLE_PID
  /\ status[pid] \in {"READY", "RUNNING"}
  /\ LET m == [Machine EXCEPT !.status[pid] = "BLOCKED",
                              !.ready = RemoveFirst(@, pid)]
     IN Become(IF pid = currentPID THEN yield(m) ELSE m)

Block(pid) ==
  /\ Issues("block")
  /\ pid \notin {IDLE_PID, SHELL_PID}
  /\ status[pid] \in {"READY", "RUNNING"}
  /\ LET m == [Machine EXCEPT !.status[pid] = "BLOCKED",
                              !.ready = RemoveFirst(@, pid)]
     IN Become(IF pid = currentPID THEN yield(m) ELSE m)

\* Mutant: a process that is READY already can be unblocked.
Unblock_ready(pid) ==
  /\ Issues("unblock")
  /\ status[pid] \in {"BLOCKED", "READY"} /\ pid # IDLE_PID
  /\ Become([Machine EXCEPT !.status[pid] = "READY", !.ready = Append(@, pid)])

Unblock(pid) ==
  /\ Issues("unblock")
  /\ status[pid] = "BLOCKED"
  /\ Become([Machine EXCEPT !.status[pid] = "READY", !.ready = Append(@, pid)])

\* Mutant: a READY process whose priority is set is queued again.
nice_requeues(pid, prio) ==
  /\ Issues("priority")
  /\ status[pid] # "none"
  /\ prio <= HighestPriority
  /\ Become([Machine EXCEPT
       !.priority[pid] = prio,
       !.ready = IF status[pid] = "READY" /\ pid # IDLE_PID
                 THEN Append(RemoveFirst(@, pid), pid) ELSE @])

nice(pid, prio) ==
  /\ Issues("priority")
  /\ status[pid] # "none"
  /\ prio <= HighestPriority
  /\ Become([Machine EXCEPT !.priority[pid] = prio])

\* Mutant: no upper limit.
IncreasePriority_unlimited(pid) ==
  /\ Issues("priority")
  /\ status[pid] # "none"
  /\ Become([Machine EXCEPT !.priority[pid] = @ + 1])

IncreasePriority(pid) ==
  /\ Issues("priority")
  /\ status[pid] # "none"
  /\ priority[pid] # HighestPriority
  /\ Become([Machine EXCEPT !.priority[pid] = @ + 1])

DecreasePriority(pid) ==
  /\ Issues("priority")
  /\ status[pid] # "none"
  /\ priority[pid] # 0
  /\ Become([Machine EXCEPT !.priority[pid] = @ - 1])

\* Every call that takes a PID reads its PCB before any check of the slot.
CallOnVacantSlot(call, pid) ==
  /\ Issues(call)
  /\ status[pid] = "none"
  /\ Become([Machine EXCEPT !.halted = call])

\* A call that is refused a block writes to the address 0 instead, over the
\* interrupt descriptor table: createProcess() does so for an argument.
UseMissingBlock ==
  /\ Issues("create-oom")
  /\ dangling = "no"
  /\ Become([Machine EXCEPT !.halted = "memory"])

\* Allocations of other calls take the blocks above the freed node.
UncoverFreedNode ==
  /\ halted = "no"
  /\ dangling = "buried"
  /\ Become([Machine EXCEPT !.dangling = "top"])

\* Some call is given the block of the freed node and overwrites it; the list
\* then leads nowhere and the source says no more.
ReuseFreedNode ==
  /\ halted = "no"
  /\ dangling # "no"
  /\ Become([Machine EXCEPT !.halted = "links"])

\* What calls that need memory do.
Allocation ==
  \/ \E prio \in Priorities : Create(prio)
  \/ CreateWithoutNode
  \/ UseMissingBlock
  \/ UncoverFreedNode
  \/ ReuseFreedNode

\* The other calls.
Call ==
  \/ Exit
  \/ \E pid \in Pids : \/ KillSelf(pid)
                       \/ KillOther(pid)
                       \/ Block(pid)
                       \/ Unblock(pid)
                       \/ IncreasePriority(pid)
                       \/ DecreasePriority(pid)
                       \/ \E prio \in 0 .. HighestPriority + 1 : nice(pid, prio)
                       \/ \E call \in VacantCalls : CallOnVacantSlot(call, pid)

Next == Tick \/ Call \/ Allocation

Spec == Init /\ [][Next]_vars

\* The timer interrupts at 100 Hz whatever the processes do.  This is
\* WF_vars(Tick) with ENABLED <<Tick>>_vars written as what it amounts to: a
\* tick changes the machine.
TickChanges == halted = "no" /\ schedule(Machine) # Machine
FairTicks == []<>~TickChanges \/ []<><<Tick>>_vars
FairSpec == Spec /\ FairTicks

-----------------------------------------------------------------------------
(***************************************************************************)
(* Properties.                                                             *)
(***************************************************************************)

Linked == ToSet(readyList)

\* Types of what schedule() itself works on.
SchedulingTypeOK ==
  /\ status \in [Pids -> Statuses]
  /\ readyList \in Seq(Pids)
  /\ currentPID \in Pids
  /\ toCleanupPID \in Pids \cup {NoPid}
  /\ processQty \in Int
  /\ priority \in [Pids -> Priorities]
  /\ roundsLeft \in [Pids -> Priorities]
  /\ dangling \in {"no", "top", "buried"}
  /\ halted \in Halts

\* Types of the whole state.
TypeOK ==
  /\ SchedulingTypeOK
  /\ parentPID \in [Pids -> Pids \cup {NoPid}]
  /\ children \in [Pids -> Seq(Pids)]
  /\ \A p \in Pids : Len(children[p]) <= MaxProcesses

\* The ready list links every process that can run or that ended and is not
\* freed yet, once each, and no other: no idle process, no blocked one, no
\* empty slot.  So removeFromQueue(), which does not look whether its node is
\* in the list, is only ever given a node that is.
ReadyListExact ==
  /\ \A i, j \in DOMAIN readyList : readyList[i] = readyList[j] => i = j
  /\ Linked = {p \in Pids \ {IDLE_PID} : status[p] \in {"READY", "RUNNING", "KILLED"}}

\* Only the process whose context is on the processor is RUNNING, and it is
\* the first process of the ready list that has not ended; before the first
\* tick nothing is RUNNING.
RunningIsFirst ==
  /\ \A p \in Pids : status[p] = "RUNNING" => p = currentPID
  /\ status[currentPID] = "RUNNING" => getNextProcess(Machine) = currentPID
  /\ status[currentPID] # "RUNNING" => currentPID = IDLE_PID

\* The shell can always run, so the ready list is never empty, the idle process
\* never gets the processor, and runIdleProcess(), which returns a stack
\* pointer read through the wrong type, is never reached.
IdleNeverRuns ==
  /\ status[SHELL_PID] \in {"READY", "RUNNING"}
  /\ status[IDLE_PID] = "READY"
  /\ halted # "idle"

\* There is one toCleanupPID and many processes: a process that has ended is
\* the one it names, so no ended process is ever forgotten.
ZombieIsPending ==
  \A p \in Pids : status[p] = "KILLED" => p = toCleanupPID

\* processQty, which createProcess() tests against MAX_PROCESSES, counts the
\* occupied slots whatever the order of kills, exits and clean-ups.
ProcessQtyExact ==
  processQty = Cardinality({p \in Pids : status[p] # "none"})

\* Round robin: a process that waits READY through a step is never overtaken
\* by another: whoever is behind it and waits too stays behind it.
NoOvertaking ==
  [][\A i, j \in DOMAIN readyList :
       /\ i < j
       /\ status[readyList[i]] = "READY" /\ status'[readyList[i]] = "READY"
       /\ readyList[j] \in ToSet(readyList')
       => \E k, l \in DOMAIN readyList' :
            k < l /\ readyList'[k] = readyList[i] /\ readyList'[l] = readyList[j]]_vars

\* No starvation: a READY process gets the processor, or stops being READY by
\* some call, or the machine halts.
NoStarvation ==
  \A p \in Pids \ {IDLE_PID} :
    status[p] = "READY" ~> status[p] # "READY" \/ halted # "no"

-----------------------------------------------------------------------------
(***************************************************************************)
(* What the tests and the shell say of these calls, and the code does not  *)
(* do (see the README's findings).                                         *)
(***************************************************************************)

\* The shell's KILL kills the process it is given, whatever family it has.
KillSucceeds == halted # "child"

\* A process that was not killed and did not exit stays in the table.
\* test_processes.c kills, blocks and unblocks by PID on that ground.
OnlyTheDeadAreFreed ==
  [][\A p \in Pids : status[p] \notin {"none", "KILLED"} /\ status'[p] = "none"
        => KillOther(p)]_vars

=============================================================================
