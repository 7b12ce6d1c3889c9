----------------------------- MODULE MCScheduler -----------------------------
(***************************************************************************)
(* Instances of Scheduler for TLC: which system calls the processes issue. *)
(***************************************************************************)
EXTENDS Scheduler

AllCalls == {"create", "create-oom", "exit", "priority"} \cup VacantCalls
KillCalls == {"create", "kill"}
EndCalls == {"create", "exit", "kill"}

=============================================================================
