------------------------------- MODULE MCShell -------------------------------
(***************************************************************************)
(* An instance of Shell for TLC: what the user programs do while the shell *)
(* executes its commands.                                                  *)
(***************************************************************************)
EXTENDS Shell

LifeCalls == {"create", "create-oom", "exit", "kill", "block", "unblock", "priority"}

=============================================================================
