------------------------------ MODULE Allocator ------------------------------
(***************************************************************************)
(* What the memory manager promises its callers: a request that fits in a  *)
(* block is given a block nobody holds, it is refused only when there is   *)
(* none, and a block given back can be given again.                        *)
(***************************************************************************)
EXTENDS Naturals

CONSTANTS
  Blocks,     \* the blocks of the heap
  BlockSize,  \* bytes in a block
  Sizes,      \* the sizes requested
  Holders,    \* the variables of the kernel that can hold a block
  NULL        \* no block

VARIABLES
  free,   \* blocks nobody holds
  held,   \* the block each holder has, or NULL
  reply   \* the last request, <<holder, size, block or NULL>>

vars == <<free, held, reply>>

Init ==
  /\ free = Blocks
  /\ held = [h \in Holders |-> NULL]
  /\ reply = <<>>

Give(h, size) ==
  /\ held[h] = NULL
  /\ size <= BlockSize
  /\ \E b \in free :
       /\ free' = free \ {b}
       /\ held' = [held EXCEPT ![h] = b]
       /\ reply' = <<h, size, b>>

Refuse(h, size) ==
  /\ held[h] = NULL
  /\ size > BlockSize \/ free = {}
  /\ reply' = <<h, size, NULL>>
  /\ UNCHANGED <<free, held>>

TakeBack(h) ==
  /\ held[h] # NULL
  /\ free' = free \cup {held[h]}
  /\ held' = [held EXCEPT ![h] = NULL]
  /\ UNCHANGED reply

Next == \E h \in Holders : \/ \E size \in Sizes : Give(h, size) \/ Refuse(h, size)
                           \/ TakeBack(h)

Spec == Init /\ [][Next]_vars

=============================================================================
