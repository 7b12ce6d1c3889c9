-------------------------------- MODULE Shell --------------------------------
(***************************************************************************)
(* The commands of userShell.c that act on processes, over the scheduler.  *)
(* KILL, BLOCK and NICE ask the kernel for a list of the processes, look    *)
(* the given PID up in it, decide by what the list says, make their call,   *)
(* print and give the list back: between any two of these the timer may    *)
(* give the processor to others, who create, exit, kill and block.         *)
(*                                                                         *)
(* The list is given back through freeMemoryUser(), which drops its        *)
(* argument, so that what comes to lie on top of the free blocks is no     *)
(* block ("stray"): whoever is given it writes where it should not, and    *)
(* the kernel is not followed from there.                                  *)
(***************************************************************************)
EXTENDS Scheduler

AVERAGE_PRIORITY == HighestPriority \div 2

\* The commands that act on a PID.
Commands == {"KILL", "BLOCK", "NICE"}

VARIABLES
  stage,    \* "prompt", "listed" (with the list in hand), "report" (printing)
  request,  \* while a list is in hand: the command, its PID and priority
  seen,     \* status that PID has in the list, "none" if it is not there
  stray     \* an address that is no block lies on top of the free blocks

shell == <<stage, request, seen, stray>>
shellVars == <<vars, shell>>

NoRequest == [command |-> "none", pid |-> NoPid, prio |-> 0]

ShellInit ==
  /\ Init
  /\ stage = "prompt"
  /\ request = NoRequest
  /\ seen = "none"
  /\ stray = FALSE

\* The shell has the processor.
ShellRuns == halted = "no" /\ currentPID = SHELL_PID /\ status[SHELL_PID] = "RUNNING"

-----------------------------------------------------------------------------
(***************************************************************************)
(* Lists.                                                                  *)
(***************************************************************************)

\* The block of a list, or of a report of the memory.
TakeList ==
  /\ ShellRuns
  /\ stage = "prompt"
  /\ ~stray /\ dangling # "top"
  /\ \E d \in AfterAllocation : Become([Machine EXCEPT !.dangling = d])
  /\ UNCHANGED stray

\* getProcesses() for a command, with what getIndex() finds in its list: the
\* list has an entry for every occupied slot, as they are now.
List(command, pid, prio) ==
  /\ TakeList
  /\ stage' = "listed"
  /\ request' = [command |-> command, pid |-> pid, prio |-> prio]
  /\ seen' = status[pid]

\* PS and MEM only print.
Report == TakeList /\ stage' = "report" /\ UNCHANGED <<request, seen>>

\* The kernel has no block left and writes, or returns, the address 0; or the
\* block is that of the freed node.
ListWithoutMemory ==
  /\ ShellRuns
  /\ stage = "prompt"
  /\ UseMissingBlock \/ ReuseFreedNode
  /\ UNCHANGED shell

\* Any call that is given the stray address.
UseStrayBlock ==
  /\ stray
  /\ \/ ShellRuns /\ stage = "prompt"
     \/ currentPID # SHELL_PID /\ Issues("create") /\ CanCreate
  /\ Become([Machine EXCEPT !.halted = "memory"])
  /\ UNCHANGED shell

\* freeMemoryUser(psList), and back to the prompt.
GiveBack ==
  /\ ShellRuns
  /\ stage = "report"
  /\ Become([Machine EXCEPT !.dangling = IF @ = "top" THEN "buried" ELSE @])
  /\ stage' = "prompt" /\ stray' = TRUE
  /\ UNCHANGED <<request, seen>>

-----------------------------------------------------------------------------
(***************************************************************************)
(* Commands.                                                               *)
(***************************************************************************)

\* The call a command makes, by what its list says: none for a PID that is not
\* listed, and BLOCK also unblocks.
CallMade ==
  CASE seen # "none" /\ request.command = "KILL" -> "kill"
    [] seen # "none" /\ request.command = "NICE" -> "priority"
    [] request.command = "BLOCK" /\ seen = "READY" -> "block"
    [] request.command = "BLOCK" /\ seen = "BLOCKED" -> "unblock"
    [] OTHER -> "none"

\* The kernel returns -1: the process is one of the two protected ones, or is
\* not any more what the list said.
Refused(call, pid) ==
  /\ status[pid] # "none"
  /\ \/ call \in {"kill", "block"} /\ pid \in {IDLE_PID, SHELL_PID}
     \/ call = "block" /\ status[pid] \in {"BLOCKED", "KILLED"}
     \/ call = "unblock" /\ status[pid] # "BLOCKED"
  /\ UNCHANGED vars

Makes(call, pid) ==
  \/ call = "none" /\ UNCHANGED vars
  \/ call # "none" /\ CallOnVacantSlot(call, pid)
  \/ call # "none" /\ Refused(call, pid)
  \/ call = "kill" /\ KillOther(pid)
  \/ call = "block" /\ Block(pid)
  \/ call = "unblock" /\ Unblock(pid)
  \/ call = "priority" /\ nice(pid, request.prio)

\* The command acts.  KILL forgets its list when it has made its call.
Act ==
  /\ ShellRuns
  /\ stage = "listed"
  /\ Makes(CallMade, request.pid)
  /\ stage' = IF CallMade = "kill" THEN "prompt" ELSE "report"
  /\ request' = NoRequest /\ seen' = "none"
  /\ UNCHANGED stray

\* LOOP, TESTMM, TESTPROCESS and TESTPRIO start a process of the highest
\* priority, CREATEDUMMY one of the average.
CreateCommand ==
  /\ ShellRuns
  /\ stage = "prompt"
  /\ ~stray
  /\ \/ Create(HighestPriority)
     \/ Create(AVERAGE_PRIORITY)
     \/ CreateWithoutNode
  /\ UNCHANGED shell

\* The other processes issue the calls of the user programs, and the timer
\* interrupts anybody.
Others ==
  /\ \/ Tick
     \/ currentPID # SHELL_PID /\ Call
     \/ currentPID # SHELL_PID /\ ~stray /\ Allocation
  /\ UNCHANGED shell

ShellNext ==
  \/ \E command \in Commands, pid \in Pids, prio \in Priorities : List(command, pid, prio)
  \/ Report
  \/ ListWithoutMemory
  \/ UseStrayBlock
  \/ Act
  \/ GiveBack
  \/ CreateCommand
  \/ Others

\* A shell that is given the processor again and again goes on with its
\* command: each time it executes at least one more instruction.  Written out
\* as strong fairness of Act and GiveBack.
ShellMoves == ShellRuns /\ stage # "prompt"
FairShell == <>[]~ShellMoves \/ []<><<Act \/ GiveBack>>_shellVars

ShellSpec == ShellInit /\ [][ShellNext]_shellVars /\ FairTicks /\ FairShell

-----------------------------------------------------------------------------
(***************************************************************************)
(* Properties.                                                             *)
(***************************************************************************)

\* Every command comes back to the prompt, whatever the other processes do in
\* the meantime, unless the kernel faults: nothing they can do takes the
\* processor from the shell for good.
CommandEnds == stage # "prompt" ~> stage = "prompt" \/ halted # "no"

=============================================================================
