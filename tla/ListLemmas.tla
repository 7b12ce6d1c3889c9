----------------------------- MODULE ListLemmas -----------------------------
(***************************************************************************)
(* Facts about the list operators the models use, for lists of any length. *)
(***************************************************************************)
EXTENDS Integers, Sequences, SequencesExt, SequenceTheorems,
        WellFoundedInduction, TLAPS

(***************************************************************************)
(* Lists without repetition.                                               *)
(***************************************************************************)

Distinct(s) == \A i, j \in DOMAIN s : s[i] = s[j] => i = j

\* A non-empty set of naturals has a least element, the one Min chooses.
LEMMA MinIsLeast ==
  ASSUME NEW S \in SUBSET Nat, S # {}
  PROVE  Min(S) \in S /\ \A n \in S : Min(S) <= n
<1> DEFINE R == OpToRel(<, Nat)
<1>1. \A i, j \in Nat : <<i, j>> \in R <=> i < j
  BY Zenon DEF OpToRel
<1> HIDE DEF R
<1>2. IsWellFoundedOn(R, Nat)
  BY NatLessThanWellFounded, Zenon DEF R
<1>3. PICK x \in S : \A y \in S : ~(<<y, x>> \in R)
  BY <1>2, WFMin, Zenon
<1>4. \A y \in S : ~(y < x)
  BY <1>1, <1>3
<1>5. \A y \in S : x <= y
  BY <1>4
<1>6. QED
  BY <1>5 DEF Min

\* What RemoveAt does to each place of a list.
LEMMA RemoveAtPlaces ==
  ASSUME NEW S, NEW s \in Seq(S), NEW k \in 1 .. Len(s)
  PROVE  /\ RemoveAt(s, k) \in Seq(S)
         /\ Len(RemoveAt(s, k)) = Len(s) - 1
         /\ \A i \in 1 .. Len(s) - 1 :
              RemoveAt(s, k)[i] = IF i < k THEN s[i] ELSE s[i + 1]
<1> DEFINE a == SubSeq(s, 1, k - 1)
           b == SubSeq(s, k + 1, Len(s))
<1>1. a \in Seq(S) /\ Len(a) = k - 1 /\ \A i \in 1 .. k - 1 : a[i] = s[i]
  BY SubSeqProperties
<1>2. b \in Seq(S) /\ Len(b) = Len(s) - k /\ \A i \in 1 .. Len(s) - k : b[i] = s[i + k]
  BY SubSeqProperties
<1>3. RemoveAt(s, k) = a \o b
  BY DEF RemoveAt
<1> HIDE DEF a, b
<1>4. /\ (a \o b) \in Seq(S)
      /\ Len(a \o b) = Len(a) + Len(b)
      /\ \A i \in 1 .. Len(a) + Len(b) :
           (a \o b)[i] = IF i <= Len(a) THEN a[i] ELSE b[i - Len(a)]
  <2>1. a \in Seq(S) /\ b \in Seq(S)
    BY <1>1, <1>2
  <2>2. QED
    BY <2>1, ConcatProperties, Zenon
<1>5. \A i \in 1 .. Len(s) - 1 : (a \o b)[i] = IF i < k THEN s[i] ELSE s[i + 1]
  BY <1>1, <1>2, <1>4
<1>6. QED
  BY <1>1, <1>2, <1>3, <1>4, <1>5

\* Removing a member of a list.
LEMMA RemoveMemberPlaces ==
  ASSUME NEW S, NEW s \in Seq(S), NEW p \in ToSet(s)
  PROVE  \E k \in 1 .. Len(s) :
           /\ s[k] = p
           /\ RemoveFirst(s, p) \in Seq(S)
           /\ Len(RemoveFirst(s, p)) = Len(s) - 1
           /\ \A i \in 1 .. Len(s) - 1 :
                RemoveFirst(s, p)[i] = IF i < k THEN s[i] ELSE s[i + 1]
<1> DEFINE I == {i \in 1 .. Len(s) : s[i] = p}
           k == Min(I)
<1>1. I \in SUBSET Nat /\ I # {}
  BY DEF ToSet
<1>2. k \in 1 .. Len(s) /\ s[k] = p
  <2>1. k \in I
    BY <1>1, MinIsLeast
  <2>2. QED
    BY <2>1
<1>3. RemoveFirst(s, p) = RemoveAt(s, k)
  BY <1>1 DEF RemoveFirst, SelectInSeq
<1> HIDE DEF k
<1>4. QED
  BY <1>2, <1>3, RemoveAtPlaces

\* The same, for a list without repetition, as sets.
LEMMA RemoveMember ==
  ASSUME NEW S, NEW s \in Seq(S), Distinct(s), NEW p \in ToSet(s)
  PROVE  /\ RemoveFirst(s, p) \in Seq(S)
         /\ Distinct(RemoveFirst(s, p))
         /\ ToSet(RemoveFirst(s, p)) = ToSet(s) \ {p}
<1> DEFINE r == RemoveFirst(s, p)
<1>1. PICK k \in 1 .. Len(s) :
        /\ s[k] = p
        /\ r \in Seq(S)
        /\ Len(r) = Len(s) - 1
        /\ \A i \in 1 .. Len(s) - 1 : r[i] = IF i < k THEN s[i] ELSE s[i + 1]
  BY RemoveMemberPlaces
<1> HIDE DEF r
<1>2. ASSUME NEW i \in 1 .. Len(r)
      PROVE  \E a \in 1 .. Len(s) :
               /\ r[i] = s[a] /\ a # k
               /\ a = IF i < k THEN i ELSE i + 1
  BY <1>1
<1>3. Distinct(r) /\ ToSet(r) \subseteq ToSet(s) \ {p}
  <2>1. ASSUME NEW i \in 1 .. Len(r), NEW j \in 1 .. Len(r), r[i] = r[j]
        PROVE  i = j
    <3>1. PICK a \in 1 .. Len(s) : r[i] = s[a] /\ a = IF i < k THEN i ELSE i + 1
      BY <1>2
    <3>2. PICK b \in 1 .. Len(s) : r[j] = s[b] /\ b = IF j < k THEN j ELSE j + 1
      BY <1>2
    <3>3. s[a] = s[b]
      BY <2>1, <3>1, <3>2, Zenon
    <3>4. a = b
      <4>1. DOMAIN s = 1 .. Len(s)
        OBVIOUS
      <4>2. QED
        BY <3>3, <4>1, Zenon DEF Distinct
    <3>5. i \in Int /\ j \in Int /\ k \in Int
      BY <1>1
    <3>6. QED
      BY <3>1, <3>2, <3>4, <3>5
  <2>2. ASSUME NEW i \in 1 .. Len(r)
        PROVE  r[i] \in ToSet(s) \ {p}
    <3>1. PICK a \in 1 .. Len(s) : r[i] = s[a] /\ a # k
      BY <1>2
    <3>2. s[a] # p
      BY <1>1, <3>1 DEF Distinct
    <3>3. QED
      BY <3>1, <3>2 DEF ToSet
  <2>3. QED
    BY <2>1, <2>2 DEF Distinct, ToSet
<1>4. ASSUME NEW q \in ToSet(s) \ {p}
      PROVE  q \in ToSet(r)
  <2>1. PICK j \in 1 .. Len(s) : s[j] = q
    BY DEF ToSet
  <2>2. j # k
    BY <1>1, <2>1
  <2>3. CASE j < k
    BY <1>1, <2>1, <2>3 DEF ToSet
  <2>4. CASE j > k
    <3>1. r[j - 1] = q /\ j - 1 \in DOMAIN r
      BY <1>1, <2>1, <2>4
    <3>2. QED
      BY <3>1 DEF ToSet
  <2>5. QED
    BY <2>2, <2>3, <2>4
<1>5. QED
  BY <1>1, <1>3, <1>4 DEF r

\* Adding a new member at the tail.
LEMMA AppendMember ==
  ASSUME NEW S, NEW s \in Seq(S), Distinct(s), NEW p \in S, p \notin ToSet(s)
  PROVE  /\ Append(s, p) \in Seq(S)
         /\ Distinct(Append(s, p))
         /\ ToSet(Append(s, p)) = ToSet(s) \cup {p}
<1> DEFINE t == Append(s, p)
<1>1. /\ t \in Seq(S) /\ Len(t) = Len(s) + 1 /\ t[Len(s) + 1] = p
      /\ \A i \in 1 .. Len(s) : t[i] = s[i]
  BY AppendProperties
<1> HIDE DEF t
<1>2. Distinct(t)
  BY <1>1 DEF Distinct, ToSet
<1>3. ToSet(t) \subseteq ToSet(s) \cup {p}
  BY <1>1 DEF ToSet
<1>4. ToSet(s) \subseteq ToSet(t) /\ p \in ToSet(t)
  <2>1. Len(s) + 1 \in DOMAIN t /\ \A i \in DOMAIN s : i \in DOMAIN t
    BY <1>1
  <2>2. QED
    BY <1>1, <2>1 DEF ToSet
<1>5. QED
  BY <1>1, <1>2, <1>3, <1>4 DEF t

-----------------------------------------------------------------------------
(***************************************************************************)
(* The order of a list.                                                    *)
(***************************************************************************)

\* p stands somewhere before q.
Before(s, p, q) == \E k, l \in DOMAIN s : k < l /\ s[k] = p /\ s[l] = q

\* From s to t no member of W is overtaken: who is behind it, and is still
\* there, stays behind it.
KeepsOrder(s, t, W) ==
  \A p \in W : \A q \in ToSet(t) : Before(s, p, q) => Before(t, p, q)

\* A new node at the tail overtakes nobody.
LEMMA AppendKeepsOrder ==
  ASSUME NEW S, NEW s \in Seq(S), NEW x \in S, NEW W
  PROVE  KeepsOrder(s, Append(s, x), W)
<1> DEFINE t == Append(s, x)
<1>1. t \in Seq(S) /\ Len(t) = Len(s) + 1 /\ \A i \in 1 .. Len(s) : t[i] = s[i]
  BY AppendProperties
<1> HIDE DEF t
<1>2. ASSUME NEW p, NEW q, Before(s, p, q) PROVE Before(t, p, q)
  BY <1>1, <1>2 DEF Before
<1>3. QED
  BY <1>2 DEF KeepsOrder, t

\* The order of the others is that of the list a node is taken from.
LEMMA RemovedOrder ==
  ASSUME NEW S, NEW s \in Seq(S), NEW x \in ToSet(s),
         NEW p, NEW q, p # x, q # x, Before(s, p, q)
  PROVE  Before(RemoveFirst(s, x), p, q)
<1> DEFINE r == RemoveFirst(s, x)
<1>1. PICK a \in 1 .. Len(s) :
        /\ s[a] = x
        /\ r \in Seq(S)
        /\ Len(r) = Len(s) - 1
        /\ \A i \in 1 .. Len(s) - 1 : r[i] = IF i < a THEN s[i] ELSE s[i + 1]
  BY RemoveMemberPlaces
<1> HIDE DEF r
<1>2. PICK k, l \in 1 .. Len(s) : k < l /\ s[k] = p /\ s[l] = q
  BY DEF Before
<1>3. k # a /\ l # a
  BY <1>1, <1>2
<1> DEFINE at(i) == IF i < a THEN i ELSE i - 1
<1>4. ASSUME NEW i \in 1 .. Len(s), i # a
      PROVE  at(i) \in 1 .. Len(r) /\ r[at(i)] = s[i]
  <2>1. CASE i < a
    BY <1>1, <2>1
  <2>2. CASE i > a
    <3>1. i - 1 \in 1 .. Len(s) - 1 /\ ~(i - 1 < a) /\ (i - 1) + 1 = i
      BY <1>1, <2>2
    <3>2. QED
      BY <1>1, <2>2, <3>1
  <2>3. QED
    BY <1>4, <2>1, <2>2
<1>5. at(k) < at(l)
  BY <1>2, <1>3
<1>6. DOMAIN r = 1 .. Len(r)
  BY <1>1
<1>7. at(k) \in 1 .. Len(r) /\ at(l) \in 1 .. Len(r) /\ r[at(k)] = p /\ r[at(l)] = q
  BY <1>2, <1>3, <1>4
<1> HIDE DEF at
<1>8. QED
  BY <1>5, <1>6, <1>7 DEF Before, r

\* A node that leaves the list lets nobody but itself be overtaken.
LEMMA RemoveKeepsOrder ==
  ASSUME NEW S, NEW s \in Seq(S), Distinct(s), NEW x \in ToSet(s), NEW W, x \notin W
  PROVE  KeepsOrder(s, RemoveFirst(s, x), W)
<1>1. x \notin ToSet(RemoveFirst(s, x))
  BY RemoveMember
<1>2. QED
  BY <1>1, RemovedOrder DEF KeepsOrder

\* Nor does one that goes from its place to the tail.
LEMMA RequeueKeepsOrder ==
  ASSUME NEW S, NEW s \in Seq(S), Distinct(s), NEW x \in ToSet(s), NEW W, x \notin W
  PROVE  KeepsOrder(s, Append(RemoveFirst(s, x), x), W)
<1> DEFINE r == RemoveFirst(s, x)
           t == Append(r, x)
<1>1. r \in Seq(S) /\ ToSet(r) = ToSet(s) \ {x} /\ x \in S
  <2>1. x \in S
    BY DEF ToSet
  <2>2. QED
    BY <2>1, RemoveMember
<1>2. /\ t \in Seq(S) /\ Len(t) = Len(r) + 1 /\ t[Len(r) + 1] = x
      /\ \A i \in 1 .. Len(r) : t[i] = r[i]
  <2> HIDE DEF r
  <2>1. QED
    BY <1>1, AppendProperties
<1> HIDE DEF r, t
<1>3. ASSUME NEW p \in W, NEW q, Before(s, p, q)
      PROVE  Before(t, p, q)
  <2>1. p # x /\ p \in ToSet(s)
    BY <1>3 DEF Before, ToSet
  <2>2. CASE q = x
    <3>1. PICK k \in DOMAIN r : r[k] = p
      BY <1>1, <2>1 DEF ToSet
    <3>2. k \in DOMAIN t /\ Len(r) + 1 \in DOMAIN t /\ k < Len(r) + 1 /\ t[k] = p
      BY <1>1, <1>2, <3>1
    <3>3. QED
      BY <1>2, <2>2, <3>2 DEF Before
  <2>3. CASE q # x
    <3>1. Before(r, p, q)
      BY <1>3, <2>1, <2>3, RemovedOrder DEF r
    <3>2. QED
      BY <1>1, <1>2, <3>1 DEF Before
  <2>4. QED
    BY <2>2, <2>3
<1>4. QED
  BY <1>3 DEF KeepsOrder, r, t

\* Two steps, the second of which brings nobody into the list.
LEMMA KeepsOrderTwice ==
  ASSUME NEW s, NEW t, NEW u, NEW W,
         KeepsOrder(s, t, W), KeepsOrder(t, u, W), ToSet(u) \subseteq ToSet(t)
  PROVE  KeepsOrder(s, u, W)
BY DEF KeepsOrder

-----------------------------------------------------------------------------
(***************************************************************************)
(* Loops.                                                                  *)
(***************************************************************************)

\* A loop of n turns, whose turn i computes from i and the value so far, which
\* is a at the start: g is the value after each turn.
Runs(g, T, n, a, turn) ==
  /\ g \in [0 .. n -> T]
  /\ g[0] = a
  /\ \A i \in 1 .. n : g[i] = turn[<<i, g[i - 1]>>]

\* Such a loop over values of a set T has a value in T after every turn.
LEMMA IterationExists ==
  ASSUME NEW T, NEW n \in Nat, NEW a \in T, NEW turn \in [(1 .. n) \X T -> T]
  PROVE  \E g : Runs(g, T, n, a, turn)
<1> DEFINE D == {k \in 0 .. n : ~ \E g : Runs(g, T, k, a, turn)}
<1>1. D = {}
  <2> SUFFICES ASSUME D # {} PROVE FALSE
    OBVIOUS
  <2> DEFINE k == Min(D)
  <2>1. k \in D /\ \A i \in D : k <= i
    <3>1. D \in SUBSET Nat
      OBVIOUS
    <3> HIDE DEF D
    <3>2. QED
      BY <3>1, MinIsLeast
  <2> HIDE DEF k
  <2>2. CASE k = 0
    <3>1. Runs([i \in 0 .. 0 |-> a], T, 0, a, turn)
      BY DEF Runs
    <3>2. QED
      BY <2>1, <2>2, <3>1
  <2>3. CASE k # 0
    <3>1. k \in 1 .. n /\ k - 1 \in 0 .. n /\ k - 1 \notin D
      BY <2>1, <2>3
    <3>2. PICK h : Runs(h, T, k - 1, a, turn)
      BY <3>1
    <3> DEFINE g == [i \in 0 .. k |-> IF i = k THEN turn[<<k, h[k - 1]>>] ELSE h[i]]
    <3>3. turn[<<k, h[k - 1]>>] \in T
      BY <3>1, <3>2 DEF Runs
    <3>4. g \in [0 .. k -> T] /\ g[0] = a
      BY <3>1, <3>2, <3>3 DEF Runs
    <3>5. ASSUME NEW i \in 1 .. k
          PROVE  g[i] = turn[<<i, g[i - 1]>>]
      <4>1. CASE i = k
        <5>1. i - 1 \in 0 .. k /\ i - 1 # k /\ i \in 0 .. k
          BY <3>1, <4>1
        <5>2. g[i - 1] = h[k - 1]
          BY <4>1, <5>1
        <5>3. QED
          BY <4>1, <5>1, <5>2
      <4>2. CASE i # k
        <5>1. i \in 1 .. k - 1 /\ i - 1 \in 0 .. k /\ i - 1 # k /\ i \in 0 .. k
          BY <3>1, <4>2
        <5>2. g[i] = h[i] /\ g[i - 1] = h[i - 1]
          BY <4>2, <5>1
        <5>3. QED
          BY <3>2, <5>1, <5>2 DEF Runs
      <4>3. QED
        BY <4>1, <4>2
    <3>6. Runs(g, T, k, a, turn)
      BY <3>4, <3>5 DEF Runs
    <3>7. QED
      BY <2>1, <3>6
  <2>4. QED
    BY <2>2, <2>3
<1>2. n \in 0 .. n /\ n \notin D
  BY <1>1
<1>3. QED
  BY <1>2

=============================================================================
