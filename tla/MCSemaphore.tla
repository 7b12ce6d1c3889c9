----------------------------- MODULE MCSemaphore -----------------------------
(***************************************************************************)
(* Instances of Semaphore for TLC.  The gate of vector 0 lies at address 0 *)
(* (offset 0x10483b, selector 8, attributes 0x8E00): what is read at the   *)
(* addresses 0 to 5 is no index of the process table, and 0 is read at 7.  *)
(* The PIDs 1, 2 of IdleBytes stand for 1, 7.                              *)
(***************************************************************************)
EXTENDS Semaphore

SemCalls == {"create", "exit", "sem-init", "sem-destroy", "sem-wait", "sem-post",
             "sem-oom", "kill", "unblock"}

NoIndex == MaxProcesses
IdleBytes == [p \in Pids |-> IF p = 2 THEN IDLE_PID ELSE NoIndex]

\* Objects are compared for equality only.
ObjectSymmetry == Permutations(Objects)

=============================================================================
