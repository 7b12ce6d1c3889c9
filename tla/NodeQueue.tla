------------------------------ MODULE NodeQueue ------------------------------
(***************************************************************************)
(* What a linked list is to the kernel: a sequence of distinct nodes that  *)
(* grows at either end, and loses its first node or any node named.        *)
(***************************************************************************)
EXTENDS SequencesExt

CONSTANT Nodes

VARIABLE contents

Init == contents = <<>>

Queue(n) == n \notin ToSet(contents) /\ contents' = Append(contents, n)
Push(n) == n \notin ToSet(contents) /\ contents' = <<n>> \o contents
Dequeue == contents # <<>> /\ contents' = Tail(contents)
Unlink(n) == n \in ToSet(contents) /\ contents' = RemoveFirst(contents, n)

Next == Dequeue \/ \E n \in Nodes : Queue(n) \/ Push(n) \/ Unlink(n)

Spec == Init /\ [][Next]_contents

=============================================================================
