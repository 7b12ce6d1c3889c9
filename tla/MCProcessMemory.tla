--------------------------- MODULE MCProcessMemory ---------------------------
(***************************************************************************)
(* An instance of ProcessMemory for TLC: processes are created, end in     *)
(* each of the three ways, and one of them takes blocks for itself.        *)
(***************************************************************************)
EXTENDS ProcessMemory

MemoryCalls == {"create", "create-oom", "alloc", "exit", "kill", "block", "unblock"}

=============================================================================
