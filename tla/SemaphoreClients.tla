-------------------------- MODULE SemaphoreClients --------------------------
(***************************************************************************)
(* Processes that share one semaphore of value 1 as my_process_inc() of    *)
(* test_sync.c does: wait, a section that yields, post, again and again.   *)
(***************************************************************************)
EXTENDS Semaphore

VARIABLE inside  \* processes between their wait and their post

ClientInit ==
  /\ inside = {}
  /\ Init
  /\ \E o \in Objects :
       /\ semaphores = [id \in Ids |-> IF id = 0 THEN o ELSE NoObject]
       /\ live = {o}
       /\ value = [p \in Objects |-> IF p = o THEN 1 ELSE 0]
  /\ availableID = 1
  /\ ownID = [o \in Objects |-> 0]
  /\ locked = {}
  /\ blockedQueue = [o \in Objects |-> <<>>]
  /\ parked = {}

Clients == Pids \ {IDLE_PID, SHELL_PID}

\* The wait returns at once, or when the caller is resumed.
Enter ==
  /\ currentPID \in Clients \ inside
  /\ WaitPasses(0) \/ ResumeWait
  /\ inside' = inside \cup {currentPID}

Wait ==
  /\ currentPID \in Clients \ inside
  /\ WaitSleeps(0)
  /\ UNCHANGED inside

Leave ==
  /\ currentPID \in Clients \cap inside
  /\ semPost(0)
  /\ inside' = inside \ {currentPID}

ClientNext == Enter \/ Wait \/ Leave \/ (SchedulerStep /\ UNCHANGED inside)

ClientSpec == ClientInit /\ [][ClientNext]_<<allVars, inside>>

=============================================================================
