-------------------------- MODULE LinkedListProofs ---------------------------
(***************************************************************************)
(* Proofs about LinkedList, for every set of nodes: the pointers, first,   *)
(* last and size always describe one sequence of distinct nodes, both ways *)
(* round; a walk returns all of it in order; and the four operations       *)
(* implement NodeQueue.                                                    *)
(***************************************************************************)
EXTENDS LinkedList, ListLemmas

-----------------------------------------------------------------------------
(***************************************************************************)
(* The inductive invariant: a sequence the pointers link, and, during a    *)
(* walk, how far it has come.                                              *)
(***************************************************************************)

\* The pointers nx and pv, first f, last l and size n are those of a list s.
Links(s, nx, pv, f, l, n) ==
  /\ s \in Seq(Nodes) /\ Distinct(s) /\ n = Len(s)
  /\ f = IF n = 0 THEN NULL ELSE s[1]
  /\ l = IF n = 0 THEN NULL ELSE s[n]
  /\ \A i \in 1 .. n : nx[s[i]] = IF i = n THEN NULL ELSE s[i + 1]
  /\ \A i \in 1 .. n : pv[s[i]] = IF i = 1 THEN NULL ELSE s[i - 1]

\* The nodes visited are the first ones, and current is the next.
Underway(seen, cur, s) ==
  /\ seen \in Seq(Nodes) /\ Len(seen) <= Len(s)
  /\ \A i \in 1 .. Len(seen) : seen[i] = s[i]
  /\ cur = IF Len(seen) = Len(s) THEN NULL ELSE s[Len(seen) + 1]

PointersOK ==
  /\ next \in [Nodes -> Pointers]
  /\ previous \in [Nodes -> Pointers]
  /\ current \in Pointers
  /\ walking \in BOOLEAN

IInv ==
  /\ PointersOK
  /\ Links(Contents, next, previous, first, last, size)
  /\ walking => Underway(visited, current, Contents)

-----------------------------------------------------------------------------
(***************************************************************************)
(* Walks.                                                                  *)
(***************************************************************************)

\* A walk along pointers that follow the sequence s returns s.
LEMMA WalkIs ==
  ASSUME NEW s, NEW nx, NEW pv, NEW f, NEW l, NEW n, Links(s, nx, pv, f, l, n)
  PROVE  WalkFrom(f, nx, n) = s
<1> DEFINE G(g) == [i \in 1 .. n |-> IF i = 1 THEN f
                                     ELSE IF g[i - 1] \in Nodes THEN nx[g[i - 1]] ELSE NULL]
           at == CHOOSE g : g = G(g)
<1>1. /\ s \in Seq(Nodes) /\ n = Len(s) /\ n \in Nat /\ s \in [1 .. n -> Nodes]
      /\ s # <<>> => f = s[1]
      /\ \A i \in 1 .. n - 1 : nx[s[i]] = s[i + 1]
  BY DEF Links
<1>2. s = G(s)
  <2>1. ASSUME NEW i \in 1 .. n PROVE s[i] = G(s)[i]
    BY <1>1, <2>1
  <2>2. QED
    BY <1>1, <2>1
<1>3. at = G(at)
  BY <1>2
<1>4. WalkFrom(f, nx, n) = at
  BY DEF WalkFrom
<1> HIDE DEF at
<1> DEFINE D == {i \in 1 .. n : at[i] # s[i]}
<1>5. D = {}
  <2> SUFFICES ASSUME D # {} PROVE FALSE
    OBVIOUS
  <2>1. D \in SUBSET Nat
    OBVIOUS
  <2> DEFINE k == Min(D)
  <2>2. k \in D /\ \A i \in D : k <= i
    BY <2>1, MinIsLeast
  <2> HIDE DEF k
  <2>3. k \in 1 .. n /\ at[k] # s[k]
    BY <2>2
  <2>4. CASE k = 1
    BY <1>1, <1>3, <2>3, <2>4
  <2>5. CASE k # 1
    <3>1. k - 1 \in 1 .. n /\ k - 1 \notin D
      BY <1>1, <2>2, <2>3, <2>5
    <3>2. at[k - 1] = s[k - 1]
      BY <3>1
    <3>3. at[k] = nx[s[k - 1]]
      BY <1>1, <1>3, <2>3, <2>5, <3>1, <3>2
    <3>4. k - 1 \in 1 .. n - 1 /\ (k - 1) + 1 = k
      BY <1>1, <2>3, <2>5
    <3>5. QED
      BY <1>1, <2>3, <3>3, <3>4
  <2>6. QED
    BY <2>4, <2>5
<1>6. at = s
  <2>1. \A i \in 1 .. n : at[i] = s[i]
    BY <1>5
  <2>2. at = [i \in 1 .. n |-> at[i]] /\ s = [i \in 1 .. n |-> s[i]]
    BY <1>1, <1>3
  <2>3. QED
    BY <2>1, <2>2
<1>7. QED
  BY <1>4, <1>6

-----------------------------------------------------------------------------
(***************************************************************************)
(* The operations on the pointers.                                         *)
(***************************************************************************)

\* queue() links its node behind the last.
LEMMA QueueLinks ==
  ASSUME IInv, NEW n \in Nodes, queue(n)
  PROVE  /\ PointersOK'
         /\ Links(Append(Contents, n), next', previous', first', last', size')
<1> DEFINE s == Contents
           t == Append(s, n)
<1>1. /\ s \in Seq(Nodes) /\ Distinct(s) /\ size = Len(s) /\ size \in Nat
      /\ PointersOK /\ NULL \notin Nodes
      /\ Links(s, next, previous, first, last, size)
  BY NodesAssumption DEF IInv, Links
<1>2. n \notin ToSet(s) /\ size' = size + 1
  BY DEF queue
<1>3. \A i \in 1 .. Len(s) : s[i] \in Nodes /\ s[i] # n
  BY <1>1, <1>2 DEF ToSet
<1>4. /\ t \in Seq(Nodes) /\ Len(t) = Len(s) + 1 /\ t[Len(s) + 1] = n
      /\ \A i \in 1 .. Len(s) : t[i] = s[i]
  BY <1>1, AppendProperties
<1>5. Distinct(t)
  BY <1>1, <1>2, AppendMember
<1> HIDE DEF s, t
<1>6. CASE size = 0
  <2>1. /\ first' = n /\ last' = n
        /\ previous' = [previous EXCEPT ![n] = NULL]
        /\ next' = [next EXCEPT ![n] = NULL]
        /\ current' = current /\ walking' = walking
    BY <1>6 DEF queue, isEmpty, LinkOnly
  <2>2. Links(t, next', previous', first', last', size')
    BY <1>1, <1>2, <1>4, <1>5, <1>6, <2>1 DEF Links, PointersOK
  <2>3. QED
    BY <1>1, <2>1, <2>2 DEF PointersOK, Pointers, t, s
<1>7. CASE size # 0
  <2>1. /\ previous' = [previous EXCEPT ![n] = last]
        /\ next' = [next EXCEPT ![n] = NULL, ![last] = n]
        /\ last' = n /\ first' = first
        /\ current' = current /\ walking' = walking
    BY <1>7 DEF queue, isEmpty, LinkLast
  <2>2. last = s[size] /\ last \in Nodes /\ last # n /\ first = s[1]
    BY <1>1, <1>3, <1>7 DEF Links
  <2>3. \A i \in 1 .. size : s[i] = last => i = size
    BY <1>1, <1>7, <2>2 DEF Distinct
  <2>4. \A i \in 1 .. size : next'[s[i]] = IF i = size THEN n ELSE s[i + 1]
    BY <1>1, <1>3, <2>1, <2>2, <2>3 DEF Links, PointersOK
  <2>5. next'[n] = NULL /\ previous'[n] = last
    BY <1>1, <2>1, <2>2 DEF PointersOK
  <2>6. \A i \in 1 .. size : previous'[s[i]] = IF i = 1 THEN NULL ELSE s[i - 1]
    BY <1>1, <1>3, <2>1 DEF Links, PointersOK
  <2>7. \A i \in 1 .. size + 1 : next'[t[i]] = IF i = size + 1 THEN NULL ELSE t[i + 1]
    BY <1>1, <1>4, <2>4, <2>5
  <2>8. \A i \in 1 .. size + 1 : previous'[t[i]] = IF i = 1 THEN NULL ELSE t[i - 1]
    BY <1>1, <1>4, <1>7, <2>2, <2>5, <2>6
  <2>9. Links(t, next', previous', first', last', size')
    <3>1. size' = Len(t) /\ size' # 0 /\ first' = t[1] /\ last' = t[size']
      BY <1>1, <1>2, <1>4, <1>7, <2>1, <2>2
    <3>2. QED
      BY <1>2, <1>4, <1>5, <2>7, <2>8, <3>1 DEF Links
  <2>10. QED
    BY <1>1, <2>1, <2>2, <2>9 DEF PointersOK, Pointers, t, s
<1>8. QED
  BY <1>6, <1>7

\* push() links its node before the first.
LEMMA PushLinks ==
  ASSUME IInv, NEW n \in Nodes, push(n)
  PROVE  /\ PointersOK'
         /\ Links(<<n>> \o Contents, next', previous', first', last', size')
<1> DEFINE s == Contents
           t == <<n>> \o s
<1>1. /\ s \in Seq(Nodes) /\ Distinct(s) /\ size = Len(s) /\ size \in Nat
      /\ PointersOK /\ NULL \notin Nodes
      /\ Links(s, next, previous, first, last, size)
  BY NodesAssumption DEF IInv, Links
<1>2. n \notin ToSet(s) /\ size' = size + 1
  BY DEF push
<1>3. \A i \in 1 .. Len(s) : s[i] \in Nodes /\ s[i] # n
  BY <1>1, <1>2 DEF ToSet
<1>4. /\ t \in Seq(Nodes) /\ Len(t) = Len(s) + 1 /\ t[1] = n
      /\ \A i \in 2 .. Len(s) + 1 : t[i] = s[i - 1]
  <2>1. <<n>> \in Seq(Nodes) /\ Len(<<n>>) = 1 /\ <<n>>[1] = n
    OBVIOUS
  <2>2. QED
    BY <1>1, <2>1, ConcatProperties
<1> HIDE DEF s, t
<1>5. Distinct(t)
  <2>1. ASSUME NEW i \in 2 .. Len(s) + 1
        PROVE  t[i] = s[i - 1] /\ i - 1 \in 1 .. Len(s) /\ t[i] # n
    BY <1>1, <1>3, <1>4
  <2>2. ASSUME NEW i \in 1 .. Len(s) + 1, NEW j \in 1 .. Len(s) + 1, t[i] = t[j]
        PROVE  i = j
    <3>1. CASE i = 1 \/ j = 1
      BY <1>1, <1>4, <2>1, <2>2, <3>1
    <3>2. CASE i # 1 /\ j # 1
      <4>1. i \in 2 .. Len(s) + 1 /\ j \in 2 .. Len(s) + 1
        BY <1>1, <3>2
      <4>2. s[i - 1] = s[j - 1] /\ i - 1 \in 1 .. Len(s) /\ j - 1 \in 1 .. Len(s)
        BY <2>1, <2>2, <4>1
      <4>3. i - 1 = j - 1
        BY <1>1, <4>2 DEF Distinct
      <4>4. QED
        BY <4>1, <4>3
    <3>3. QED
      BY <3>1, <3>2
  <2>3. QED
    BY <1>4, <2>2 DEF Distinct
<1>6. CASE size = 0
  <2>1. /\ first' = n /\ last' = n
        /\ previous' = [previous EXCEPT ![n] = NULL]
        /\ next' = [next EXCEPT ![n] = NULL]
        /\ current' = current /\ walking' = walking
    BY <1>6 DEF push, isEmpty, LinkOnly
  <2>2. Links(t, next', previous', first', last', size')
    BY <1>1, <1>2, <1>4, <1>5, <1>6, <2>1 DEF Links, PointersOK
  <2>3. QED
    BY <1>1, <2>1, <2>2 DEF PointersOK, Pointers, t, s
<1>7. CASE size # 0
  <2>1. /\ next' = [next EXCEPT ![n] = first]
        /\ previous' = [previous EXCEPT ![n] = NULL, ![first] = n]
        /\ first' = n /\ last' = last
        /\ current' = current /\ walking' = walking
    BY <1>7 DEF push, isEmpty, LinkFirst
  <2>2. first = s[1] /\ first \in Nodes /\ first # n /\ last = s[size]
    BY <1>1, <1>3, <1>7 DEF Links
  <2>3. \A i \in 1 .. size : s[i] = first => i = 1
    BY <1>1, <1>7, <2>2 DEF Distinct
  <2>4. \A i \in 1 .. size : previous'[s[i]] = IF i = 1 THEN n ELSE s[i - 1]
    BY <1>1, <1>3, <2>1, <2>2, <2>3 DEF Links, PointersOK
  <2>5. next'[n] = first /\ previous'[n] = NULL
    BY <1>1, <2>1, <2>2 DEF PointersOK
  <2>6. \A i \in 1 .. size : next'[s[i]] = IF i = size THEN NULL ELSE s[i + 1]
    BY <1>1, <1>3, <2>1 DEF Links, PointersOK
  <2>7. \A i \in 1 .. size + 1 : next'[t[i]] = IF i = size + 1 THEN NULL ELSE t[i + 1]
    <3> SUFFICES ASSUME NEW i \in 1 .. size + 1
                 PROVE  next'[t[i]] = IF i = size + 1 THEN NULL ELSE t[i + 1]
      OBVIOUS
    <3>1. i # size + 1 => t[i + 1] = s[i]
      <4> HAVE i # size + 1
      <4>1. i + 1 \in 2 .. Len(s) + 1 /\ (i + 1) - 1 = i
        BY <1>1
      <4>2. QED
        BY <1>4, <4>1
    <3>2. CASE i = 1
      BY <1>1, <1>4, <1>7, <2>2, <2>5, <3>1, <3>2
    <3>3. CASE i # 1
      <4>1. i - 1 \in 1 .. size /\ (i - 1) + 1 = i /\ t[i] = s[i - 1]
        BY <1>1, <1>4, <3>3
      <4>2. next'[s[i - 1]] = IF i - 1 = size THEN NULL ELSE s[i]
        BY <2>6, <4>1
      <4>3. QED
        BY <1>1, <3>1, <4>1, <4>2
    <3>4. QED
      BY <3>2, <3>3
  <2>8. \A i \in 1 .. size + 1 : previous'[t[i]] = IF i = 1 THEN NULL ELSE t[i - 1]
    <3> SUFFICES ASSUME NEW i \in 2 .. size + 1 PROVE previous'[t[i]] = t[i - 1]
      BY <1>1, <1>4, <2>5
    <3>1. i - 1 \in 1 .. size /\ t[i] = s[i - 1]
      BY <1>1, <1>4
    <3>2. previous'[t[i]] = IF i = 2 THEN n ELSE s[i - 2]
      BY <1>1, <2>4, <3>1
    <3>3. CASE i = 2
      BY <1>4, <3>2, <3>3
    <3>4. CASE i # 2
      <4>1. i - 1 \in 2 .. Len(s) + 1 /\ (i - 1) - 1 = i - 2
        BY <1>1, <3>4
      <4>2. QED
        BY <1>4, <3>2, <3>4, <4>1
    <3>5. QED
      BY <3>3, <3>4
  <2>9. Links(t, next', previous', first', last', size')
    <3>1. size' = Len(t) /\ size' # 0 /\ first' = t[1]
      BY <1>1, <1>2, <1>4, <1>7, <2>1, <2>2
    <3>2. last' = t[size']
      BY <1>1, <1>2, <1>4, <1>7, <2>1, <2>2
    <3>3. QED
      BY <1>2, <1>4, <1>5, <2>7, <2>8, <3>1, <3>2 DEF Links
  <2>10. QED
    BY <1>1, <2>1, <2>2, <2>9 DEF PointersOK, Pointers, t, s
<1>8. QED
  BY <1>6, <1>7

\* dequeue() unlinks the first node.
LEMMA DequeueLinks ==
  ASSUME IInv, dequeue
  PROVE  /\ PointersOK' /\ Contents # <<>>
         /\ Links(Tail(Contents), next', previous', first', last', size')
<1> DEFINE s == Contents
           t == Tail(s)
<1>1. /\ s \in Seq(Nodes) /\ Distinct(s) /\ size = Len(s) /\ size \in Nat
      /\ PointersOK /\ NULL \notin Nodes
      /\ Links(s, next, previous, first, last, size)
  BY NodesAssumption DEF IInv, Links
<1>2. /\ size # 0 /\ size' = size - 1 /\ first' = next[first] /\ next' = next
      /\ last' = IF first' = NULL THEN NULL ELSE last
      /\ previous' = IF first' = NULL THEN previous ELSE [previous EXCEPT ![first'] = NULL]
      /\ current' = current /\ walking' = walking
  BY DEF dequeue, isEmpty
<1>3. s # <<>>
  BY <1>1, <1>2
<1>4. /\ t \in Seq(Nodes) /\ Len(t) = size - 1
      /\ \A i \in 1 .. size - 1 : t[i] = s[i + 1]
  BY <1>1, <1>3, HeadTailProperties
<1>5. \A i \in 1 .. size : s[i] \in Nodes
  BY <1>1
<1> HIDE DEF s, t
<1>6. Distinct(t)
  <2>1. ASSUME NEW i \in 1 .. Len(t), NEW j \in 1 .. Len(t), t[i] = t[j]
        PROVE  i = j
    <3>1. i + 1 \in 1 .. Len(s) /\ j + 1 \in 1 .. Len(s)
      BY <1>1, <1>4
    <3>2. s[i + 1] = s[j + 1]
      BY <1>4, <2>1
    <3>3. i + 1 = j + 1
      BY <1>1, <3>1, <3>2 DEF Distinct
    <3>4. QED
      BY <1>1, <1>4, <3>3
  <2>2. QED
    BY <2>1 DEF Distinct
<1>7. first = s[1] /\ last = s[size] /\ first' = IF size = 1 THEN NULL ELSE s[2]
  BY <1>1, <1>2 DEF Links
<1>8. CASE size = 1
  <2>1. Links(t, next', previous', first', last', size')
    BY <1>1, <1>2, <1>4, <1>6, <1>7, <1>8 DEF Links
  <2>2. QED
    BY <1>1, <1>2, <1>3, <1>7, <1>8, <2>1 DEF PointersOK, Pointers, t, s
<1>9. CASE size # 1
  <2>1. /\ first' = s[2] /\ s[2] \in Nodes /\ s[2] # NULL /\ last' = last
        /\ previous' = [previous EXCEPT ![s[2]] = NULL]
    <3>1. 2 \in 1 .. size
      BY <1>1, <1>2, <1>9
    <3>2. first' = s[2] /\ s[2] \in Nodes /\ s[2] # NULL
      BY <1>1, <1>5, <1>7, <1>9, <3>1
    <3>3. QED
      BY <1>2, <3>2
  <2>2. \A i \in 1 .. size : s[i] = s[2] => i = 2
    BY <1>1, <1>2, <1>9 DEF Distinct
  <2>3. ASSUME NEW i \in 2 .. size
        PROVE  previous'[s[i]] = IF i = 2 THEN NULL ELSE s[i - 1]
    <3>1. i \in 1 .. size /\ i # 1
      BY <1>1
    <3>2. s[i] \in Nodes /\ previous[s[i]] = s[i - 1] /\ (i # 2 => s[i] # s[2])
      BY <1>1, <1>5, <2>2, <3>1 DEF Links
    <3>3. QED
      BY <1>1, <2>1, <3>2 DEF PointersOK
  <2>4. \A i \in 1 .. size - 1 : previous'[t[i]] = IF i = 1 THEN NULL ELSE t[i - 1]
    <3> SUFFICES ASSUME NEW i \in 1 .. size - 1
                 PROVE  previous'[t[i]] = IF i = 1 THEN NULL ELSE t[i - 1]
      OBVIOUS
    <3>1. t[i] = s[i + 1] /\ i + 1 \in 2 .. size
      BY <1>1, <1>4
    <3>2. previous'[s[i + 1]] = IF i = 1 THEN NULL ELSE s[i]
      BY <1>1, <2>3, <3>1
    <3>3. i # 1 => t[i - 1] = s[i]
      <4> HAVE i # 1
      <4>1. i - 1 \in 1 .. size - 1 /\ (i - 1) + 1 = i
        BY <1>1
      <4>2. QED
        BY <1>4, <4>1
    <3>4. QED
      BY <3>1, <3>2, <3>3
  <2>5. ASSUME NEW i \in 1 .. size - 1
        PROVE  next'[t[i]] = IF i = size - 1 THEN NULL ELSE t[i + 1]
    <3>1. t[i] = s[i + 1] /\ i + 1 \in 1 .. size
      BY <1>1, <1>4
    <3>2. next'[s[i + 1]] = IF i = size - 1 THEN NULL ELSE s[(i + 1) + 1]
      BY <1>1, <1>2, <3>1 DEF Links
    <3>3. i # size - 1 => t[i + 1] = s[(i + 1) + 1]
      BY <1>1, <1>4
    <3>4. QED
      BY <3>1, <3>2, <3>3
  <2>6. t[1] = s[2] /\ t[size - 1] = s[size]
    BY <1>1, <1>2, <1>4, <1>9
  <2>7. Links(t, next', previous', first', last', size')
    BY <1>1, <1>2, <1>4, <1>6, <1>7, <1>9, <2>1, <2>4, <2>5, <2>6 DEF Links
  <2>8. QED
    BY <1>1, <1>2, <1>3, <2>1, <2>7 DEF PointersOK, Pointers, t, s
<1>10. QED
  BY <1>8, <1>9

\* removeFromQueue() joins the neighbours of its node, wherever it is.
LEMMA RemoveLinks ==
  ASSUME IInv, NEW n \in Nodes, removeFromQueue(n)
  PROVE  /\ PointersOK'
         /\ Links(RemoveFirst(Contents, n), next', previous', first', last', size')
<1> DEFINE s == Contents
           t == RemoveFirst(s, n)
<1>1. /\ s \in Seq(Nodes) /\ Distinct(s) /\ size = Len(s) /\ size \in Nat
      /\ PointersOK /\ NULL \notin Nodes
      /\ Links(s, next, previous, first, last, size)
  BY NodesAssumption DEF IInv, Links
<1>2. n \in ToSet(s) /\ size' = size - 1 /\ current' = current /\ walking' = walking
  BY DEF removeFromQueue
<1>3. PICK k \in 1 .. Len(s) :
        /\ s[k] = n
        /\ t \in Seq(Nodes)
        /\ Len(t) = Len(s) - 1
        /\ \A i \in 1 .. Len(s) - 1 : t[i] = IF i < k THEN s[i] ELSE s[i + 1]
  <2>1. s \in Seq(Nodes) /\ n \in ToSet(s)
    BY <1>1, <1>2
  <2> HIDE DEF s
  <2>2. QED
    BY <2>1, RemoveMemberPlaces, Zenon
<1>4. Distinct(t)
  BY <1>1, <1>2, RemoveMember
<1>5. \A i \in 1 .. size : s[i] \in Nodes /\ s[i] # NULL
  BY <1>1
<1>6. /\ IF next[n] # NULL
         THEN previous' = [previous EXCEPT ![next[n]] = previous[n]] /\ last' = last
         ELSE last' = previous[n] /\ previous' = previous
      /\ IF previous[n] # NULL
         THEN next' = [next EXCEPT ![previous[n]] = next[n]] /\ first' = first
         ELSE first' = next[n] /\ next' = next
  BY DEF removeFromQueue
<1> HIDE DEF s, t
<1>7. /\ next[n] = IF k = size THEN NULL ELSE s[k + 1]
      /\ previous[n] = IF k = 1 THEN NULL ELSE s[k - 1]
  BY <1>1, <1>3 DEF Links
<1>8. \A i, j \in 1 .. size : s[i] = s[j] => i = j
  BY <1>1 DEF Distinct
<1>9. \A i \in 1 .. size : i # k =>
        previous'[s[i]] = IF i = k + 1 THEN previous[n] ELSE previous[s[i]]
  <2>1. CASE k = size
    BY <1>1, <1>3, <1>6, <1>7, <2>1
  <2>2. CASE k # size
    <3>1. k + 1 \in 1 .. size /\ next[n] = s[k + 1] /\ next[n] # NULL
      BY <1>1, <1>3, <1>5, <1>7, <2>2
    <3>2. previous' = [previous EXCEPT ![s[k + 1]] = previous[n]]
      BY <1>6, <3>1
    <3>3. QED
      BY <1>1, <1>5, <1>8, <3>1, <3>2 DEF PointersOK
  <2>3. QED
    BY <2>1, <2>2
<1>10. \A i \in 1 .. size : i # k =>
         next'[s[i]] = IF i = k - 1 THEN next[n] ELSE next[s[i]]
  <2>1. CASE k = 1
    BY <1>1, <1>3, <1>6, <1>7, <2>1
  <2>2. CASE k # 1
    <3>1. k - 1 \in 1 .. size /\ previous[n] = s[k - 1] /\ previous[n] # NULL
      BY <1>1, <1>3, <1>5, <1>7, <2>2
    <3>2. next' = [next EXCEPT ![s[k - 1]] = next[n]]
      BY <1>6, <3>1
    <3>3. QED
      BY <1>1, <1>5, <1>8, <3>1, <3>2 DEF PointersOK
  <2>3. QED
    BY <2>1, <2>2
<1>11. \A i \in 1 .. size - 1 : next'[t[i]] = IF i = size - 1 THEN NULL ELSE t[i + 1]
  <2> SUFFICES ASSUME NEW i \in 1 .. size - 1
               PROVE  next'[t[i]] = IF i = size - 1 THEN NULL ELSE t[i + 1]
    OBVIOUS
  <2>1. i \in 1 .. size /\ i + 1 \in 1 .. size /\ k \in 1 .. size
    BY <1>1, <1>3
  <2>2. /\ next[s[i]] = s[i + 1]
        /\ next[s[i + 1]] = IF i + 1 = size THEN NULL ELSE s[i + 2]
    BY <1>1, <2>1 DEF Links
  <2>3. CASE i < k - 1
    <3>1. t[i] = s[i] /\ t[i + 1] = s[i + 1] /\ i # size - 1
      BY <1>1, <1>3, <2>1, <2>3
    <3>2. next'[s[i]] = next[s[i]]
      BY <1>10, <2>1, <2>3
    <3>3. QED
      BY <2>2, <3>1, <3>2
  <2>4. CASE i = k - 1
    <3>1. t[i] = s[i] /\ i # k /\ k = i + 1
      BY <1>1, <1>3, <2>1, <2>4
    <3>2. next'[s[i]] = next[n]
      BY <1>10, <2>1, <2>4, <3>1
    <3>3. i # size - 1 => t[i + 1] = s[i + 2]
      BY <1>1, <1>3, <2>1, <3>1
    <3>4. QED
      BY <1>1, <1>3, <2>1, <2>2, <3>1, <3>2, <3>3
  <2>5. CASE i >= k
    <3>1. t[i] = s[i + 1] /\ i + 1 # k /\ i + 1 # k - 1
      BY <1>1, <1>3, <2>1, <2>5
    <3>2. next'[s[i + 1]] = next[s[i + 1]]
      BY <1>10, <2>1, <3>1
    <3>3. i # size - 1 => t[i + 1] = s[i + 2]
      BY <1>1, <1>3, <2>1, <2>5
    <3>4. QED
      BY <1>1, <2>1, <2>2, <3>1, <3>2, <3>3
  <2>6. QED
    BY <1>1, <2>1, <2>3, <2>4, <2>5
<1>12. \A i \in 1 .. size - 1 : previous'[t[i]] = IF i = 1 THEN NULL ELSE t[i - 1]
  <2> SUFFICES ASSUME NEW i \in 1 .. size - 1
               PROVE  previous'[t[i]] = IF i = 1 THEN NULL ELSE t[i - 1]
    OBVIOUS
  <2>1. i \in 1 .. size /\ i + 1 \in 1 .. size /\ k \in 1 .. size
    BY <1>1, <1>3
  <2>2. /\ previous[s[i]] = IF i = 1 THEN NULL ELSE s[i - 1]
        /\ previous[s[i + 1]] = s[i]
    BY <1>1, <2>1 DEF Links
  <2>3. CASE i < k
    <3>1. t[i] = s[i] /\ i # k /\ i # k + 1 /\ (i # 1 => t[i - 1] = s[i - 1])
      BY <1>1, <1>3, <2>1, <2>3
    <3>2. previous'[s[i]] = previous[s[i]]
      BY <1>9, <2>1, <3>1
    <3>3. QED
      BY <2>2, <3>1, <3>2
  <2>4. CASE i = k
    <3>1. t[i] = s[i + 1] /\ i + 1 # k /\ (i # 1 => t[i - 1] = s[i - 1])
      BY <1>1, <1>3, <2>1, <2>4
    <3>2. previous'[s[i + 1]] = previous[n]
      BY <1>9, <2>1, <2>4, <3>1
    <3>3. QED
      BY <1>3, <2>2, <2>4, <3>1, <3>2
  <2>5. CASE i > k
    <3>1. t[i] = s[i + 1] /\ i + 1 # k /\ i + 1 # k + 1 /\ i # 1 /\ t[i - 1] = s[i]
      BY <1>1, <1>3, <2>1, <2>5
    <3>2. previous'[s[i + 1]] = previous[s[i + 1]]
      BY <1>9, <2>1, <3>1
    <3>3. QED
      BY <2>2, <3>1, <3>2
  <2>6. QED
    BY <1>1, <2>1, <2>3, <2>4, <2>5
<1>13. first' = IF size - 1 = 0 THEN NULL ELSE t[1]
  <2>1. CASE k = 1
    BY <1>1, <1>3, <1>6, <1>7, <2>1
  <2>2. CASE k # 1
    <3>1. previous[n] = s[k - 1] /\ previous[n] # NULL
      BY <1>1, <1>3, <1>5, <1>7, <2>2
    <3>2. first' = first /\ first = s[1]
      BY <1>1, <1>3, <1>6, <2>2, <3>1 DEF Links
    <3>3. size # 1 /\ 1 \in 1 .. Len(s) - 1 /\ t[1] = s[1]
      BY <1>1, <1>3, <2>2
    <3>4. QED
      BY <1>1, <3>2, <3>3
  <2>3. QED
    BY <2>1, <2>2
<1>14. last' = IF size - 1 = 0 THEN NULL ELSE t[size - 1]
  <2>1. CASE k = size
    BY <1>1, <1>3, <1>6, <1>7, <2>1
  <2>2. CASE k # size
    <3>1. next[n] = s[k + 1] /\ next[n] # NULL
      BY <1>1, <1>3, <1>5, <1>7, <2>2
    <3>2. last' = last /\ last = s[size]
      BY <1>1, <1>3, <1>6, <2>2, <3>1 DEF Links
    <3>3. size # 1 /\ size - 1 \in 1 .. Len(s) - 1 /\ t[size - 1] = s[size]
      BY <1>1, <1>3, <2>2
    <3>4. QED
      BY <1>1, <3>2, <3>3
  <2>3. QED
    BY <2>1, <2>2
<1>15. Links(t, next', previous', first', last', size')
  BY <1>1, <1>2, <1>3, <1>4, <1>11, <1>12, <1>13, <1>14 DEF Links
<1>16. next' \in [Nodes -> Pointers] /\ previous' \in [Nodes -> Pointers]
  BY <1>1, <1>6 DEF PointersOK
<1>17. QED
  BY <1>1, <1>2, <1>15, <1>16 DEF PointersOK, t, s

-----------------------------------------------------------------------------
(***************************************************************************)
(* Every step keeps the invariant.                                         *)
(***************************************************************************)

\* The empty list links no node.
LEMMA InitSound == Init => IInv
<1> SUFFICES ASSUME Init PROVE IInv
  OBVIOUS
<1>1. Links(<<>>, next, previous, first, last, size)
  BY DEF Init, Links, Distinct
<1>2. Contents = <<>>
  BY <1>1, WalkIs DEF Contents
<1>3. next \in [Nodes -> Pointers] /\ previous \in [Nodes -> Pointers]
      /\ current \in Pointers
  BY DEF Init, Pointers
<1>4. walking = FALSE
  BY DEF Init
<1>5. QED
  BY <1>1, <1>2, <1>3, <1>4 DEF IInv, PointersOK

\* An operation that leaves the pointers linking s leaves the invariant, when
\* nobody is walking.
LEMMA OperationSound ==
  ASSUME PointersOK', ~walking', NEW s, Links(s, next', previous', first', last', size')
  PROVE  IInv' /\ Contents' = s
<1>1. WalkFrom(first', next', size') = s
  BY WalkIs
<1>2. Contents' = s
  BY <1>1 DEF Contents
<1>3. QED
  BY <1>2 DEF IInv

\* A walk does not touch the list.
LEMMA WalkSound ==
  ASSUME IInv, UNCHANGED links, current' \in Pointers, walking' \in BOOLEAN,
         walking' => Underway(visited', current', Contents)
  PROVE  IInv' /\ Contents' = Contents
<1>1. Contents' = Contents
  BY DEF Contents, links
<1>2. QED
  BY <1>1 DEF IInv, PointersOK, Pointers, links

\* listIterator() goes to the first node.
LEMMA IteratorSound == ASSUME IInv, listIterator PROVE IInv' /\ Contents' = Contents
<1>1. /\ Links(Contents, next, previous, first, last, size)
      /\ current' = first /\ visited' = <<>> /\ UNCHANGED links
      /\ walking' = TRUE
  BY DEF IInv, listIterator
<1>2. Underway(visited', current', Contents)
  BY <1>1 DEF Underway, Links
<1>3. current' \in Pointers /\ walking' \in BOOLEAN
  BY <1>1 DEF Links, Pointers
<1>4. QED
  BY <1>1, <1>2, <1>3, WalkSound

\* listNext() returns the node after those it has returned.
LEMMA ListNextSound == ASSUME IInv, listNext PROVE IInv' /\ Contents' = Contents
<1> DEFINE s == Contents
           v == visited
<1>1. /\ Links(s, next, previous, first, last, size) /\ Underway(v, current, s)
      /\ current # NULL /\ visited' = Append(v, current)
      /\ current' = next[current] /\ UNCHANGED links /\ walking' = walking
      /\ walking \in BOOLEAN
  BY DEF IInv, listNext, links, PointersOK
<1>2. /\ s \in Seq(Nodes) /\ v \in Seq(Nodes) /\ size = Len(s)
      /\ Len(v) \in Nat /\ Len(s) \in Nat
      /\ \A i \in 1 .. Len(s) : next[s[i]] = IF i = Len(s) THEN NULL ELSE s[i + 1]
      /\ Len(v) < Len(s) /\ current = s[Len(v) + 1]
      /\ \A i \in 1 .. Len(v) : v[i] = s[i]
  BY <1>1 DEF Links, Underway
<1> HIDE DEF s, v
<1>3. Len(v) + 1 \in 1 .. Len(s) /\ current \in Nodes
  BY <1>2
<1>4. /\ visited' \in Seq(Nodes) /\ Len(visited') = Len(v) + 1
      /\ visited'[Len(v) + 1] = current
      /\ \A i \in 1 .. Len(v) : visited'[i] = v[i]
  BY <1>1, <1>2, <1>3, AppendProperties
<1>5. current' = IF Len(v) + 1 = Len(s) THEN NULL ELSE s[Len(v) + 2]
  BY <1>1, <1>2, <1>3
<1>6. ASSUME NEW i \in 1 .. Len(visited') PROVE visited'[i] = s[i]
  <2>1. i \in 1 .. Len(v) \/ i = Len(v) + 1
    BY <1>2, <1>4
  <2>2. CASE i \in 1 .. Len(v)
    BY <1>2, <1>4, <2>2
  <2>3. CASE i = Len(v) + 1
    BY <1>2, <1>4, <2>3
  <2>4. QED
    BY <2>1, <2>2, <2>3
<1>7. Underway(visited', current', s)
  BY <1>2, <1>3, <1>4, <1>5, <1>6 DEF Underway
<1>8. current' \in Pointers
  BY <1>2, <1>3, <1>5 DEF Pointers
<1>9. QED
  BY <1>1, <1>7, <1>8, WalkSound DEF s

\* Every step keeps the invariant.
LEMMA NextSound == IInv /\ [Next]_vars => IInv'
<1> SUFFICES ASSUME IInv, [Next]_vars PROVE IInv'
  OBVIOUS
<1>1. ASSUME NEW n \in Nodes, queue(n) PROVE IInv'
  <2>1. ~walking'
    BY <1>1 DEF queue
  <2>2. QED
    BY <1>1, <2>1, QueueLinks, OperationSound
<1>2. ASSUME NEW n \in Nodes, push(n) PROVE IInv'
  <2>1. ~walking'
    BY <1>2 DEF push
  <2>2. QED
    BY <1>2, <2>1, PushLinks, OperationSound
<1>3. ASSUME NEW n \in Nodes, removeFromQueue(n) PROVE IInv'
  <2>1. ~walking'
    BY <1>3 DEF removeFromQueue
  <2>2. QED
    BY <1>3, <2>1, RemoveLinks, OperationSound
<1>4. CASE dequeue
  <2>1. ~walking'
    BY <1>4 DEF dequeue
  <2>2. QED
    BY <1>4, <2>1, DequeueLinks, OperationSound
<1>5. CASE listIterator
  BY <1>5, IteratorSound
<1>6. CASE listNext
  BY <1>6, ListNextSound
<1>7. CASE StopWalking
  <2>1. UNCHANGED links /\ current' = current
    BY <1>7 DEF StopWalking, links
  <2>2. walking' = FALSE
    BY <1>7 DEF StopWalking
  <2>3. current' \in Pointers /\ walking' \in BOOLEAN
    BY <2>1, <2>2 DEF IInv, PointersOK
  <2>4. QED
    BY <2>1, <2>2, <2>3, WalkSound
<1>8. CASE UNCHANGED vars
  <2>1. /\ UNCHANGED links /\ current' = current /\ visited' = visited
        /\ walking' = walking
    BY <1>8 DEF vars, links
  <2>2. /\ current' \in Pointers /\ walking' \in BOOLEAN
        /\ walking' => Underway(visited', current', Contents)
    BY <2>1 DEF IInv, PointersOK
  <2>3. QED
    BY <2>1, <2>2, WalkSound
<1>9. QED
  BY <1>1, <1>2, <1>3, <1>4, <1>5, <1>6, <1>7, <1>8 DEF Next

-----------------------------------------------------------------------------
(***************************************************************************)
(* The theorems.                                                           *)
(***************************************************************************)

\* The pointers always link one sequence of distinct nodes.
THEOREM InductiveInvariant == Spec => []IInv
BY InitSound, NextSound, PTL DEF Spec

\* Every pointer is a node or NULL, and size, which isEmpty() tests, is never
\* negative.
THEOREM TypeCorrect == Spec => []TypeOK
<1>1. IInv => TypeOK
  <2> SUFFICES ASSUME IInv PROVE TypeOK
    OBVIOUS
  <2>1. first \in Pointers /\ last \in Pointers /\ size \in Nat
    BY DEF IInv, Links, Pointers
  <2>2. QED
    BY <2>1 DEF IInv, PointersOK, TypeOK
<1>2. QED
  BY <1>1, InductiveInvariant, PTL

\* From first along next: size distinct nodes, the last of them last, then NULL.
THEOREM ForwardLinksHold == Spec => []LinkedForward
<1>1. IInv => LinkedForward
  <2> SUFFICES ASSUME IInv PROVE LinkedForward
    OBVIOUS
  <2> DEFINE s == Contents
  <2>1. /\ s \in Seq(Nodes) /\ Distinct(s) /\ size = Len(s) /\ size \in Nat
        /\ NULL \notin Nodes
        /\ size = 0 => first = NULL /\ last = NULL
        /\ size # 0 => last = s[size] /\ next[s[size]] = NULL
    BY NodesAssumption DEF IInv, Links
  <2>2. \A i, j \in 1 .. size : s[i] = s[j] => i = j
    BY <2>1 DEF Distinct
  <2>3. QED
    BY <2>1, <2>2 DEF LinkedForward
<1>2. QED
  BY <1>1, InductiveInvariant, PTL

\* previous is the inverse of next: removeFromQueue() finds the neighbours.
THEOREM BackwardLinksHold == Spec => []LinkedBackward
<1>1. IInv => LinkedBackward
  BY DEF IInv, Links, LinkedBackward
<1>2. QED
  BY <1>1, InductiveInvariant, PTL

\* A walk returns the nodes in order, all of them before it returns NULL.
THEOREM WalksAreComplete == Spec => []WalkComplete
<1>1. IInv => WalkComplete
  <2> SUFFICES ASSUME IInv, walking PROVE IsPrefix(visited, Contents)
                                          /\ (current = NULL => visited = Contents)
    BY DEF WalkComplete
  <2> DEFINE s == Contents
             v == visited
  <2>1. /\ s \in Seq(Nodes) /\ v \in Seq(Nodes) /\ Len(v) <= Len(s)
        /\ Len(v) \in Nat /\ Len(s) \in Nat
        /\ \A i \in 1 .. Len(v) : v[i] = s[i]
        /\ current = IF Len(v) = Len(s) THEN NULL ELSE s[Len(v) + 1]
        /\ NULL \notin Nodes
    BY NodesAssumption DEF IInv, Links, Underway
  <2> HIDE DEF s, v
  <2>2. IsPrefix(v, s)
    <3> DEFINE a == SubSeq(v, 1, Len(v))
               b == SubSeq(s, 1, Len(v))
    <3>1. a \in Seq(Nodes) /\ Len(a) = Len(v) /\ \A i \in 1 .. Len(v) : a[i] = v[i]
      BY <2>1, SubSeqProperties
    <3>2. b \in Seq(Nodes) /\ Len(b) = Len(v) /\ \A i \in 1 .. Len(v) : b[i] = s[i]
      BY <2>1, SubSeqProperties
    <3> HIDE DEF a, b
    <3>3. a = b
      BY <2>1, <3>1, <3>2, SeqEqual
    <3>4. QED
      BY <2>1, <3>3 DEF IsPrefix, a, b
  <2>3. current = NULL => v = s
    <3> HAVE current = NULL
    <3>1. Len(v) = Len(s)
      BY <2>1
    <3>2. QED
      BY <2>1, <3>1, SeqEqual
  <2>4. QED
    BY <2>2, <2>3 DEF s, v
<1>2. QED
  BY <1>1, InductiveInvariant, PTL

\* Under the invariant each operation takes its own step of the queue.
LEMMA OperationsStep == ASSUME IInv PROVE OperationSteps
<1>1. ASSUME NEW n \in Nodes, queue(n) PROVE Abstract!Queue(n)
  <2>1. ~walking' /\ n \notin ToSet(Contents)
    BY <1>1 DEF queue
  <2>2. Contents' = Append(Contents, n)
    BY <1>1, <2>1, QueueLinks, OperationSound
  <2>3. QED
    BY <2>1, <2>2 DEF Abstract!Queue, Abstract!ToSet, ToSet
<1>2. ASSUME NEW n \in Nodes, push(n) PROVE Abstract!Push(n)
  <2>1. ~walking' /\ n \notin ToSet(Contents)
    BY <1>2 DEF push
  <2>2. Contents' = <<n>> \o Contents
    BY <1>2, <2>1, PushLinks, OperationSound
  <2>3. QED
    BY <2>1, <2>2 DEF Abstract!Push, Abstract!ToSet, ToSet
<1>3. ASSUME NEW n \in Nodes, removeFromQueue(n) PROVE Abstract!Unlink(n)
  <2>1. ~walking' /\ n \in ToSet(Contents)
    BY <1>3 DEF removeFromQueue
  <2>2. Contents' = RemoveFirst(Contents, n)
    BY <1>3, <2>1, RemoveLinks, OperationSound
  <2>3. Abstract!RemoveFirst(Contents, n) = RemoveFirst(Contents, n)
    BY DEF Abstract!RemoveFirst, RemoveFirst, Abstract!RemoveAt, RemoveAt,
           Abstract!SelectInSeq, SelectInSeq, Abstract!Min, Min
  <2>4. QED
    BY <2>1, <2>2, <2>3 DEF Abstract!Unlink, Abstract!ToSet, ToSet
<1>4. ASSUME dequeue PROVE Abstract!Dequeue
  <2>1. ~walking' /\ Contents # <<>>
    BY <1>4, DequeueLinks DEF dequeue
  <2>2. Contents' = Tail(Contents)
    BY <1>4, <2>1, DequeueLinks, OperationSound
  <2>3. QED
    BY <2>1, <2>2 DEF Abstract!Dequeue
<1>5. QED
  BY <1>1, <1>2, <1>3, <1>4 DEF OperationSteps

\* Each operation does what its namesake of NodeQueue does.
THEOREM OperationsAreExact == Spec => OperationsImplement
<1>1. IInv /\ [Next]_vars => [OperationSteps]_vars
  BY OperationsStep
<1>2. QED
  BY <1>1, InductiveInvariant, PTL DEF Spec, OperationsImplement

\* The pointers implement a queue of nodes: queue() appends, push() prepends,
\* dequeue() takes the first node and removeFromQueue() the one it is given.
THEOREM Implementation == Spec => ImplementsQueue
<1>1. Init => Abstract!Init
  <2> SUFFICES ASSUME Init PROVE Contents = <<>>
    BY DEF Abstract!Init
  <2>1. Links(<<>>, next, previous, first, last, size)
    BY DEF Init, Links, Distinct
  <2>2. QED
    BY <2>1, WalkIs DEF Contents
<1>2. IInv /\ [Next]_vars => [Abstract!Next]_Contents
  <2> SUFFICES ASSUME IInv, [Next]_vars PROVE [Abstract!Next]_Contents
    OBVIOUS
  <2>1. CASE dequeue \/ \E n \in Nodes : queue(n) \/ push(n) \/ removeFromQueue(n)
    BY <2>1, OperationsStep DEF OperationSteps, Abstract!Next
  <2>2. CASE listIterator
    BY <2>2, IteratorSound
  <2>3. CASE listNext
    BY <2>3, ListNextSound
  <2>4. CASE StopWalking \/ UNCHANGED vars
    BY <2>4 DEF StopWalking, vars, Contents
  <2>5. QED
    BY <2>1, <2>2, <2>3, <2>4 DEF Next
<1>3. QED
  BY <1>1, <1>2, InductiveInvariant, PTL DEF Spec, ImplementsQueue, Abstract!Spec

=============================================================================
