-------------------------- MODULE MCSemaphoreClients --------------------------
(***************************************************************************)
(* Instances of SemaphoreClients for TLC.  The PIDs 1, 2, 3, 4 stand for   *)
(* 1, 6, 7 and 16: the gate of vector 0 lies at address 0 (see             *)
(* MCSemaphore), 16 is read at 6, which is again process 4, and 0 at 7 to  *)
(* 12.                                                                     *)
(***************************************************************************)
EXTENDS SemaphoreClients

ClientCalls == {"create", "sem-wait", "sem-post"}
NoIndex == MaxProcesses
GateBytes == [p \in Pids |-> CASE p = 2 -> 4
                               [] p = 3 -> IDLE_PID
                               [] OTHER -> NoIndex]

=============================================================================
