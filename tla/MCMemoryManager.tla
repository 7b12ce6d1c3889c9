--------------------------- MODULE MCMemoryManager ---------------------------
(***************************************************************************)
(* Instances of MemoryManager for TLC.                                     *)
(***************************************************************************)
EXTENDS MemoryManager

\* One size that fits, the largest that does and the smallest that does not.
EdgeSizes == {1, BlockSize, BlockSize + 1}

=============================================================================
