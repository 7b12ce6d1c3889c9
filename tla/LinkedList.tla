------------------------------ MODULE LinkedList -----------------------------
(***************************************************************************)
(* The doubly linked list of Kernel/LinkedList.c, pointer by pointer: the  *)
(* ready list of the scheduler and the blocked queue of a semaphore.  No   *)
(* operation looks whether its node is linked; callers give queue() and    *)
(* push() a node that is not and removeFromQueue() one that is (for the    *)
(* ready list, Scheduler's ReadyListExact).  A node that leaves keeps its  *)
(* pointers.  Callers run with interrupts off, so nothing changes the list *)
(* while one of them walks through it.                                     *)
(***************************************************************************)
EXTENDS Integers, SequencesExt

CONSTANTS Nodes, NULL

ASSUME NodesAssumption == NULL \notin Nodes

VARIABLES
  next, previous,  \* the pointers of each node
  first, last, current, size,
  walking,         \* a caller is between listIterator() and its last listNext()
  visited          \* the nodes listNext() has returned to it

links == <<next, previous, first, last, size>>
vars == <<next, previous, first, last, current, size, walking, visited>>

Pointers == Nodes \cup {NULL}

\* The nodes met from f on, n of them, following the pointers nx.
WalkFrom(f, nx, n) ==
  LET at[i \in 1 .. n] ==
        IF i = 1 THEN f ELSE IF at[i - 1] \in Nodes THEN nx[at[i - 1]] ELSE NULL
  IN at

Contents == WalkFrom(first, next, size)

\* initializeLinkedList(); the pointers of a node that was never linked are
\* whatever its block held.
Init ==
  /\ next \in [Nodes -> Pointers] /\ previous = next
  /\ first = NULL /\ last = NULL /\ current = NULL /\ size = 0
  /\ walking = FALSE /\ visited = <<>>

isEmpty == size = 0

LinkOnly(n) ==
  /\ first' = n /\ last' = n
  /\ previous' = [previous EXCEPT ![n] = NULL]
  /\ next' = [next EXCEPT ![n] = NULL]

\* Mutant: the old last node is not told of its successor.
LinkLast_unlinked(n) ==
  /\ previous' = [previous EXCEPT ![n] = last]
  /\ next' = [next EXCEPT ![n] = NULL]
  /\ last' = n
  /\ UNCHANGED first

LinkLast(n) ==
  /\ previous' = [previous EXCEPT ![n] = last]
  /\ next' = [next EXCEPT ![n] = NULL, ![last] = n]
  /\ last' = n
  /\ UNCHANGED first

\* Mutant: the old first node is not told of its predecessor.
LinkFirst_oneWay(n) ==
  /\ next' = [next EXCEPT ![n] = first]
  /\ previous' = [previous EXCEPT ![n] = NULL]
  /\ first' = n
  /\ UNCHANGED last

\* Mutant: a node is pushed at the wrong end.
LinkFirst_atTheEnd(n) == LinkLast(n)

LinkFirst(n) ==
  /\ next' = [next EXCEPT ![n] = first]
  /\ previous' = [previous EXCEPT ![n] = NULL, ![first] = n]
  /\ first' = n
  /\ UNCHANGED last

queue(n) ==
  /\ ~walking /\ n \notin ToSet(Contents)
  /\ IF isEmpty THEN LinkOnly(n) ELSE LinkLast(n)
  /\ size' = size + 1
  /\ UNCHANGED <<current, walking, visited>>

push(n) ==
  /\ ~walking /\ n \notin ToSet(Contents)
  /\ IF isEmpty THEN LinkOnly(n) ELSE LinkFirst(n)
  /\ size' = size + 1
  /\ UNCHANGED <<current, walking, visited>>

\* The first node leaves and its memory is freed.
dequeue ==
  /\ ~walking /\ ~isEmpty
  /\ first' = next[first]
  /\ last' = IF first' = NULL THEN NULL ELSE last
  /\ previous' = IF first' = NULL THEN previous
                 ELSE [previous EXCEPT ![first'] = NULL]
  /\ size' = size - 1
  /\ UNCHANGED <<next, current, walking, visited>>

\* Mutant: neither the caller nor the list asks whether the node is linked.
removeFromQueue_unlinked(n) ==
  /\ ~walking
  /\ IF next[n] # NULL
     THEN previous' = [previous EXCEPT ![next[n]] = previous[n]] /\ UNCHANGED last
     ELSE last' = previous[n] /\ UNCHANGED previous
  /\ IF previous[n] # NULL
     THEN next' = [next EXCEPT ![previous[n]] = next[n]] /\ UNCHANGED first
     ELSE first' = next[n] /\ UNCHANGED next
  /\ size' = size - 1
  /\ UNCHANGED <<current, walking, visited>>

\* Mutant: the predecessor's pointer is cleared and not moved on.
removeFromQueue_cuts(n) ==
  /\ ~walking /\ n \in ToSet(Contents)
  /\ IF next[n] # NULL
     THEN previous' = [previous EXCEPT ![next[n]] = previous[n]] /\ UNCHANGED last
     ELSE last' = previous[n] /\ UNCHANGED previous
  /\ IF previous[n] # NULL
     THEN next' = [next EXCEPT ![previous[n]] = NULL] /\ UNCHANGED first
     ELSE first' = next[n] /\ UNCHANGED next
  /\ size' = size - 1
  /\ UNCHANGED <<current, walking, visited>>

removeFromQueue(n) ==
  /\ ~walking /\ n \in ToSet(Contents)
  /\ IF next[n] # NULL
     THEN previous' = [previous EXCEPT ![next[n]] = previous[n]] /\ UNCHANGED last
     ELSE last' = previous[n] /\ UNCHANGED previous
  /\ IF previous[n] # NULL
     THEN next' = [next EXCEPT ![previous[n]] = next[n]] /\ UNCHANGED first
     ELSE first' = next[n] /\ UNCHANGED next
  /\ size' = size - 1
  /\ UNCHANGED <<current, walking, visited>>

listIterator ==
  /\ ~walking
  /\ current' = first
  /\ walking' = TRUE /\ visited' = <<>>
  /\ UNCHANGED links

\* Mutant: current moves on before it is returned.
listNext_tooFar ==
  /\ walking /\ current # NULL
  /\ visited' = IF next[current] = NULL THEN visited ELSE Append(visited, next[current])
  /\ current' = next[current]
  /\ UNCHANGED <<next, previous, first, last, size, walking>>

listNext ==
  /\ walking /\ current # NULL
  /\ visited' = Append(visited, current)
  /\ current' = next[current]
  /\ UNCHANGED <<next, previous, first, last, size, walking>>

\* The caller stops: listNext() returned NULL, or the node it was looking for.
StopWalking ==
  /\ walking
  /\ walking' = FALSE /\ visited' = <<>>
  /\ UNCHANGED <<next, previous, first, last, size, current>>

Next ==
  \/ \E n \in Nodes : queue(n) \/ push(n) \/ removeFromQueue(n)
  \/ dequeue \/ listIterator \/ listNext \/ StopWalking

Spec == Init /\ [][Next]_vars

-----------------------------------------------------------------------------
(***************************************************************************)
(* Properties.                                                             *)
(***************************************************************************)

TypeOK ==
  /\ next \in [Nodes -> Pointers]
  /\ previous \in [Nodes -> Pointers]
  /\ first \in Pointers /\ last \in Pointers /\ current \in Pointers
  /\ size \in Nat
  /\ walking \in BOOLEAN

\* Following next from first meets size distinct nodes, the last of them the
\* one last names, and then NULL: a walk ends, and visits each node once.
LinkedForward ==
  /\ Contents \in Seq(Nodes)
  /\ \A i, j \in 1 .. size : Contents[i] = Contents[j] => i = j
  /\ IF size = 0 THEN first = NULL /\ last = NULL
     ELSE last = Contents[size] /\ next[last] = NULL

\* Following previous meets the same nodes in the opposite order, which is
\* what removeFromQueue() relies on.
LinkedBackward ==
  \A i \in 1 .. size :
    previous[Contents[i]] = IF i = 1 THEN NULL ELSE Contents[i - 1]

\* listNext() returns the nodes in the order of the list and NULL only when
\* every one of them was returned, so getNextProcess() overlooks no process.
WalkComplete ==
  walking => /\ IsPrefix(visited, Contents)
             /\ current = NULL => visited = Contents

\* The pointers implement the queue of nodes.
Abstract == INSTANCE NodeQueue WITH contents <- Contents
ImplementsQueue == Abstract!Spec

\* Each operation does what its namesake does: no queue() that pushes, no
\* removeFromQueue() that takes another node.
OperationSteps ==
  /\ \A n \in Nodes : /\ queue(n) => Abstract!Queue(n)
                      /\ push(n) => Abstract!Push(n)
                      /\ removeFromQueue(n) => Abstract!Unlink(n)
  /\ dequeue => Abstract!Dequeue

OperationsImplement == [][OperationSteps]_vars

=============================================================================
