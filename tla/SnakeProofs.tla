----------------------------- MODULE SnakeProofs -----------------------------
(***************************************************************************)
(* Proofs about Snake, for boards, starts and lists of numbers of any      *)
(* size, and snakes of any length.                                         *)
(***************************************************************************)
EXTENDS Snake, ListLemmas, FiniteSetTheorems

(***************************************************************************)
(* What the fields of a game hold.                                         *)
(***************************************************************************)

Steps == {Vector[k] : k \in Turns}
Around == (-1 .. Width) \X (-1 .. Height)
Points == Int \X Int

IsGame(g) ==
  DOMAIN g = {"player", "direction", "head", "tail", "dir", "len", "fruit", "rand", "second"}

\* The board of a game of n players.
Board(g, n) ==
  /\ g.player \in [Squares -> 0 .. n]
  /\ g.direction \in [Squares -> Steps \cup {Still}]
  /\ g.fruit \in Squares \cup {NoSquare}
  /\ g.rand \in 0 .. RandQty
  /\ g.second \in 0 .. 1

\* The snakes of the first n players.
Snakes(g, n) ==
  /\ g.head \in [1 .. n -> Points]
  /\ g.tail \in [1 .. n -> Around]
  /\ g.dir \in [1 .. n -> Steps]
  /\ g.len \in [1 .. n -> Nat]

Typed(g, n) == IsGame(g) /\ Board(g, n) /\ Snakes(g, n)

LEMMA Sizes == Width \in Nat \ {0} /\ Height \in Nat \ {0} /\ DeclaredColumns \in 1 .. Width - 1
BY SnakeAssumption

LEMMA StepsAre ==
  /\ Steps = {<<-1, 0>>, <<1, 0>>, <<0, -1>>, <<0, 1>>}
  /\ \A k \in Turns : Vector[k] \in Steps
  /\ \A p \in Players : Heading(p) \in Steps
<1>1. Steps = {Vector.left, Vector.right, Vector.up, Vector.down}
  BY DEF Steps, Turns
<1>2. QED
  BY <1>1 DEF Steps, Vector, Heading

\* A point and its neighbours.
LEMMA Neighbours ==
  ASSUME NEW v \in Steps \cup {Still}
  PROVE  /\ \A a \in Points : Plus(a, v) \in Points
         /\ \A a \in Squares : Plus(a, v) \in Around
<1>1. v[1] \in -1 .. 1 /\ v[2] \in -1 .. 1
  BY StepsAre DEF Still
<1>2. ASSUME NEW a \in Points PROVE Plus(a, v) \in Points
  BY <1>1 DEF Plus, Points
<1>3. ASSUME NEW a \in Squares PROVE Plus(a, v) \in Around
  <2>1. a[1] \in 0 .. Width - 1 /\ a[2] \in 0 .. Height - 1
    BY DEF Squares
  <2>2. a[1] + v[1] \in -1 .. Width /\ a[2] + v[2] \in -1 .. Height
    BY <1>1, <2>1, Sizes
  <2>3. QED
    BY <2>2 DEF Plus, Around
<1>4. QED
  BY <1>2, <1>3, Zenon

\* Where the squares lie.
LEMMA SquaresAre ==
  /\ FlagSquare \in Squares /\ NoSquare \notin Squares
  /\ Squares \subseteq Around /\ Squares \subseteq Points
  /\ \A p \in Players, k \in 0 .. 2 : StartSquare(p, k) \in Squares
<1> USE Sizes
<1>1. FlagSquare \in Squares /\ NoSquare \notin Squares
  BY DEF FlagSquare, NoSquare, Squares
<1>2. Squares \subseteq Around /\ Squares \subseteq Points
  BY DEF Squares, Around, Points
<1>3. ASSUME NEW p \in Players, NEW k \in 0 .. 2 PROVE StartSquare(p, k) \in Squares
  <2> DEFINE x == StartHead[p][1]
             d == Heading(p)[1]
  <2>1. StartHead[p] \in Squares /\ StartSquare(p, 2) \in Squares
    BY SnakeAssumption
  <2>2. /\ x \in Int /\ 0 <= x /\ x < Width /\ StartHead[p][2] \in 0 .. Height - 1
        /\ 0 <= x - 2 * d /\ x - 2 * d < Width
    BY <2>1 DEF StartSquare, Squares
  <2>3. d \in {1, -1}
    BY DEF Heading, Vector
  <2> HIDE DEF x, d
  <2>4. x - k * d \in 0 .. Width - 1
    <3>1. CASE d = 1
      BY <2>2, <3>1
    <3>2. CASE d = -1
      BY <2>2, <3>2
    <3>3. QED
      BY <2>3, <3>1, <3>2
  <2>5. QED
    BY <2>2, <2>4 DEF StartSquare, Squares, x, d
<1>4. QED
  BY <1>1, <1>2, <1>3

\* Every number of the list, and the one after its end, is that of a square.
LEMMA SquareAtIsSquare == \A i \in 0 .. RandQty : SquareAt(i) \in Squares
<1> SUFFICES ASSUME NEW i \in 0 .. RandQty PROVE SquareAt(i) \in Squares
  OBVIOUS
<1>1. Width \in Nat \ {0} /\ Height \in Nat \ {0} /\ NumberAt(i) \in 0 .. Width * Height - 1
  BY SnakeAssumption DEF NumberAt
<1>2. \A w, h \in Nat \ {0} : \A x \in 0 .. w * h - 1 : x % w \in 0 .. w - 1 /\ x \div w \in 0 .. h - 1
  OBVIOUS
<1>3. QED
  BY <1>1, <1>2 DEF SquareAt, Squares

-----------------------------------------------------------------------------
(***************************************************************************)
(* The next fruit.                                                         *)
(***************************************************************************)

\* The squares of the list.
Listed == {SquareAt(i) : i \in 0 .. RandQty}

\* The fruit is eaten: a new one lies on a free square of the list, if any.
Refreshed(g, h) ==
  /\ \/ h.fruit \in Listed /\ g.player[h.fruit] = 0
     \/ h.fruit = NoSquare /\ \A s \in Listed : g.player[s] # 0
  /\ h.player = g.player /\ h.direction = g.direction /\ h.head = g.head
  /\ h.tail = g.tail /\ h.dir = g.dir /\ h.len = g.len /\ h.second = g.second

\* From any index the search meets every index.
LEMMA EveryIndexIsMet ==
  ASSUME NEW r \in 0 .. RandQty
  PROVE  /\ \A k \in 0 .. RandQty : (r + k) % (RandQty + 1) \in 0 .. RandQty
         /\ \A k \in 0 .. RandQty : (r + (k + 1)) % (RandQty + 1) \in 0 .. RandQty
         /\ \A i \in 0 .. RandQty : \E k \in 0 .. RandQty : (r + k) % (RandQty + 1) = i
<1> DEFINE M == RandQty + 1
<1>1. M \in Nat \ {0} /\ RandQty = M - 1 /\ RandQty \in Nat
  BY SnakeAssumption
<1> HIDE DEF M
<1>2. \A x \in Nat : x % M \in 0 .. M - 1
  BY <1>1
<1>3. \A i \in 0 .. M - 1 : i % M = i /\ (i + M) % M = i
  BY <1>1
<1>4. ASSUME NEW i \in 0 .. RandQty
      PROVE  \E k \in 0 .. RandQty : (r + k) % M = i
  <2>1. CASE r <= i
    <3>1. i - r \in 0 .. RandQty /\ r + (i - r) = i
      BY <1>1, <2>1
    <3>2. QED
      BY <1>1, <1>3, <3>1
  <2>2. CASE i < r
    <3>1. (i + M) - r \in 0 .. RandQty /\ r + ((i + M) - r) = i + M
      BY <1>1, <2>2
    <3>2. QED
      BY <1>1, <1>3, <3>1
  <2>3. QED
    BY <1>1, <2>1, <2>2
<1>5. \A k \in 0 .. RandQty : r + k \in Nat /\ r + (k + 1) \in Nat
  BY <1>1
<1>6. QED
  BY <1>1, <1>2, <1>4, <1>5 DEF M

\* resetFruit() touches the fruit and the index only, and finds a free square
\* of the list if there is one.
LEMMA FruitEffect ==
  ASSUME NEW n \in Nat, NEW g, IsGame(g), Board(g, n)
  PROVE  IsGame(resetFruit(g)) /\ Board(resetFruit(g), n) /\ Refreshed(g, resetFruit(g))
<1> DEFINE Index(k) == (g.rand + k) % (RandQty + 1)
           Free(k) == g.player[SquareAt(Index(k))] = 0
           h == resetFruit(g)
<1>1. g.rand \in 0 .. RandQty
  BY DEF Board
<1>2. \A k \in 0 .. RandQty : Index(k) \in 0 .. RandQty /\ Index(k + 1) \in 0 .. RandQty
  BY <1>1, EveryIndexIsMet
<1>3. \A i \in 0 .. RandQty : \E k \in 0 .. RandQty : Index(k) = i
  BY <1>1, EveryIndexIsMet
<1>4. CASE \A k \in 0 .. RandQty : ~Free(k)
  <2>1. h = [g EXCEPT !.fruit = NoSquare]
    BY <1>4 DEF resetFruit
  <2>2. \A s \in Listed : g.player[s] # 0
    BY <1>3, <1>4 DEF Listed
  <2> HIDE DEF h, Index, Free
  <2>3. QED
    BY <2>1, <2>2 DEF IsGame, Board, Refreshed, h
<1>5. CASE \E k \in 0 .. RandQty : Free(k)
  <2> DEFINE S == {k \in 0 .. RandQty : Free(k)}
             First(k) == Free(k) /\ \A j \in 0 .. k - 1 : ~Free(j)
             m == CHOOSE k \in 0 .. RandQty : First(k)
  <2> DEFINE found == [g EXCEPT !.fruit = SquareAt(Index(m)), !.rand = Index(m + 1)]
  <2>1. h = found
    <3>1. h = IF \A k \in 0 .. RandQty : ~Free(k)
              THEN [g EXCEPT !.fruit = NoSquare] ELSE found
      BY Zenon DEF resetFruit
    <3> HIDE DEF h, found, Free
    <3>2. QED
      BY <1>5, <3>1
  <2>2. S \in SUBSET Nat /\ S # {}
    BY <1>5
  <2>3. Min(S) \in S /\ \A k \in S : Min(S) <= k
    BY <2>2, MinIsLeast
  <2>4. \E k \in 0 .. RandQty : First(k)
    <3>1. PICK k \in S : \A j \in S : k <= j
      BY <2>3
    <3>2. k \in 0 .. RandQty /\ RandQty \in Nat /\ Free(k)
      BY SnakeAssumption
    <3>3. ASSUME NEW j \in 0 .. k - 1 PROVE ~Free(j)
      <4>1. j \in 0 .. RandQty /\ ~(k <= j)
        BY <3>2
      <4> HIDE DEF Free
      <4>2. QED
        BY <3>1, <4>1
    <3>4. QED
      BY <3>2, <3>3
  <2> HIDE DEF S, First
  <2>5. m \in 0 .. RandQty /\ First(m)
    BY <2>4
  <2>6. Free(m)
    BY <2>5 DEF First
  <2> HIDE DEF m, h, Index
  <2>7. /\ SquareAt(Index(m)) \in Squares /\ SquareAt(Index(m)) \in Listed
        /\ Index(m + 1) \in 0 .. RandQty
    BY <1>2, <2>5, SquareAtIsSquare DEF Listed
  <2>8. g.player[SquareAt(Index(m))] = 0
    BY <2>6 DEF Free
  <2>9. QED
    BY <2>1, <2>7, <2>8 DEF IsGame, Board, Refreshed, h
<1>6. QED
  BY <1>4, <1>5

-----------------------------------------------------------------------------
(***************************************************************************)
(* The parts of a tick: what each changes of a game.                       *)
(***************************************************************************)

\* gameNotOver = 0, gameNotOver2 = 0: from g to h, the game is over for p.
Ended(g, h, p) ==
  /\ h.player = IF p = 1 THEN [g.player EXCEPT ![FlagSquare] = 0] ELSE g.player
  /\ h.second = IF p = 1 THEN g.second ELSE 0

\* The key of p is interpreted: it turns his snake to the side or nowhere, and
\* Tab ends his game.
Steered(g, h, p) ==
  /\ IF input[p] = "tab" THEN Ended(g, h, p) ELSE h.player = g.player /\ h.second = g.second
  /\ \E v \in Steps : Plus(g.dir[p], v) # Still /\ h.dir = [g.dir EXCEPT ![p] = v]
  /\ h.direction = g.direction /\ h.head = g.head /\ h.tail = g.tail /\ h.len = g.len
  /\ h.fruit = g.fruit /\ h.rand = g.rand

\* The head of p moves on and leaves its direction behind.
Advanced(g, h, p) ==
  /\ h.head = [g.head EXCEPT ![p] = Plus(g.head[p], g.dir[p])]
  /\ h.direction = IF g.head[p] \in Squares
                   THEN [g.direction EXCEPT ![g.head[p]] = g.dir[p]] ELSE g.direction
  /\ h.player = g.player /\ h.second = g.second /\ h.tail = g.tail /\ h.dir = g.dir
  /\ h.len = g.len /\ h.fruit = g.fruit /\ h.rand = g.rand

\* The tail of p moves on and frees its square.
Retracted(g, h, p) ==
  /\ h.tail = [g.tail EXCEPT ![p] = Plus(g.tail[p], g.direction[g.tail[p]])]
  /\ h.player = [g.player EXCEPT ![g.tail[p]] = 0]
  /\ h.direction = [g.direction EXCEPT ![g.tail[p]] = Still]
  /\ h.second = g.second /\ h.head = g.head /\ h.dir = g.dir
  /\ h.len = g.len /\ h.fruit = g.fruit /\ h.rand = g.rand

Grown(g, h, p) ==
  /\ h.len = [g.len EXCEPT ![p] = g.len[p] + 1]
  /\ h.player = g.player /\ h.direction = g.direction /\ h.second = g.second
  /\ h.head = g.head /\ h.tail = g.tail /\ h.dir = g.dir
  /\ h.fruit = g.fruit /\ h.rand = g.rand

\* The head of p is on no square, or on one that is marked.
Crashes(g, p) == g.head[p] \notin Squares \/ g.player[g.head[p]] # 0

\* The head of p is checked, and marks its square.
Landed(g, h, p) ==
  /\ LET m == IF Crashes(g, p) /\ p = 1 THEN [g.player EXCEPT ![FlagSquare] = 0] ELSE g.player
     IN h.player = IF g.head[p] \in Squares THEN [m EXCEPT ![g.head[p]] = p] ELSE m
  /\ h.second = IF Crashes(g, p) /\ p = 2 THEN 0 ELSE g.second
  /\ h.direction = g.direction /\ h.head = g.head /\ h.tail = g.tail /\ h.dir = g.dir
  /\ h.len = g.len /\ h.fruit = g.fruit /\ h.rand = g.rand

\* A mark of a player, or none, on one square more.
LEMMA MarkTyped ==
  ASSUME NEW n \in {1, 2}, NEW f \in [Squares -> 0 .. n], NEW s, NEW p \in 0 .. n
  PROVE  [f EXCEPT ![s] = p] \in [Squares -> 0 .. n]
OBVIOUS

LEMMA EndGameEffect ==
  ASSUME NEW n \in {1, 2}, NEW g, Typed(g, n), NEW p \in 1 .. n
  PROVE  LET h == EndGame(g, p)
         IN /\ Typed(h, n) /\ Ended(g, h, p)
            /\ h.direction = g.direction /\ h.head = g.head /\ h.tail = g.tail
            /\ h.dir = g.dir /\ h.len = g.len /\ h.fruit = g.fruit /\ h.rand = g.rand
<1> DEFINE h == EndGame(g, p)
<1>1. CASE p = 1
  <2> DEFINE m == [g.player EXCEPT ![FlagSquare] = 0]
  <2>1. h = [g EXCEPT !.player = m]
    BY <1>1 DEF EndGame
  <2>2. m \in [Squares -> 0 .. n]
    <3>1. 0 \in 0 .. n /\ g.player \in [Squares -> 0 .. n]
      BY DEF Typed, Board
    <3>2. QED
      BY <3>1, MarkTyped
  <2> HIDE DEF h, m
  <2>3. /\ IsGame(h) /\ h.player = m /\ h.second = g.second
        /\ h.direction = g.direction /\ h.head = g.head /\ h.tail = g.tail
        /\ h.dir = g.dir /\ h.len = g.len /\ h.fruit = g.fruit /\ h.rand = g.rand
    BY <2>1 DEF Typed, IsGame
  <2>4. QED
    BY <1>1, <2>2, <2>3 DEF Typed, Board, Snakes, Ended, h, m
<1>2. CASE p # 1
  <2>1. h = [g EXCEPT !.second = 0]
    BY <1>2 DEF EndGame
  <2> HIDE DEF h
  <2>2. QED
    BY <1>2, <2>1 DEF Typed, IsGame, Board, Snakes, Ended, h
<1>3. QED
  BY <1>1, <1>2

\* A turn to the side is never one back.
LEMMA TurnsAside ==
  ASSUME NEW d \in Steps,
         NEW k \in IF d[1] = 0 THEN {"left", "right"} ELSE {"up", "down"}
  PROVE  k \in Turns /\ Plus(d, Vector[k]) # Still /\ Plus(d, d) # Still
BY StepsAre DEF Turns, Vector, Plus, Still

LEMMA SteerEffect ==
  ASSUME NEW n \in {1, 2}, NEW g, Typed(g, n), NEW p \in 1 .. n
  PROVE  Typed(interpretInput(g, p), n) /\ Steered(g, interpretInput(g, p), p)
<1> DEFINE e == IF input[p] = "tab" THEN EndGame(g, p) ELSE g
           across == IF g.dir[p][1] = 0 THEN {"left", "right"} ELSE {"up", "down"}
           h == interpretInput(g, p)
<1>1. /\ Typed(e, n)
      /\ IF input[p] = "tab" THEN Ended(g, e, p) ELSE e.player = g.player /\ e.second = g.second
      /\ e.direction = g.direction /\ e.head = g.head /\ e.tail = g.tail
      /\ e.dir = g.dir /\ e.len = g.len /\ e.fruit = g.fruit /\ e.rand = g.rand
  BY EndGameEffect
<1>2. h = IF input[p] \in across THEN [e EXCEPT !.dir[p] = Vector[input[p]]] ELSE e
  BY DEF interpretInput
<1>3. g.dir[p] \in Steps /\ g.dir \in [1 .. n -> Steps]
  BY DEF Typed, Snakes
<1> HIDE DEF e, h
<1>4. /\ IsGame(h) /\ h.player = e.player /\ h.direction = e.direction /\ h.head = e.head
      /\ h.tail = e.tail /\ h.len = e.len /\ h.fruit = e.fruit /\ h.rand = e.rand
      /\ h.second = e.second
      /\ h.dir = IF input[p] \in across THEN [g.dir EXCEPT ![p] = Vector[input[p]]] ELSE g.dir
  BY <1>1, <1>2 DEF Typed, IsGame
<1>5. PICK v \in Steps : Plus(g.dir[p], v) # Still /\ h.dir = [g.dir EXCEPT ![p] = v]
  <2>1. CASE input[p] \in across
    BY <1>3, <1>4, <2>1, TurnsAside, StepsAre
  <2>2. CASE input[p] \notin across
    <3>1. \E k : k \in across
      OBVIOUS
    <3>2. Plus(g.dir[p], g.dir[p]) # Still
      BY <1>3, <3>1, TurnsAside
    <3>3. h.dir = [g.dir EXCEPT ![p] = g.dir[p]]
      BY <1>3, <1>4, <2>2
    <3>4. QED
      BY <1>3, <3>2, <3>3
  <2>3. QED
    BY <2>1, <2>2
<1>6. [g.dir EXCEPT ![p] = v] \in [1 .. n -> Steps]
  BY <1>3
<1>7. Typed(h, n)
  BY <1>1, <1>4, <1>5, <1>6 DEF Typed, Board, Snakes
<1>8. Steered(g, h, p)
  BY <1>1, <1>4, <1>5 DEF Steered, Ended
<1>9. QED
  BY <1>7, <1>8 DEF h

LEMMA AdvanceEffect ==
  ASSUME NEW n \in {1, 2}, NEW g, Typed(g, n), NEW p \in 1 .. n
  PROVE  Typed(Advance(g, p), n) /\ Advanced(g, Advance(g, p), p)
<1> DEFINE a == [g.head EXCEPT ![p] = Plus(g.head[p], g.dir[p])]
           b == [g.direction EXCEPT ![g.head[p]] = g.dir[p]]
           m == [g EXCEPT !.head = a]
           h == Advance(g, p)
<1>1. m = [g EXCEPT !.head[p] = Plus(@, g.dir[p])]
  OBVIOUS
<1>2. h = IF g.head[p] \in Squares THEN [m EXCEPT !.direction[g.head[p]] = g.dir[p]] ELSE m
  BY <1>1, Zenon DEF Advance
<1>3. a \in [1 .. n -> Points] /\ b \in [Squares -> Steps \cup {Still}]
  BY Neighbours DEF Typed, Snakes, Board
<1> HIDE DEF a
<1>4. /\ IsGame(m) /\ m.head = a /\ m.player = g.player /\ m.direction = g.direction
      /\ m.tail = g.tail /\ m.dir = g.dir /\ m.len = g.len /\ m.fruit = g.fruit
      /\ m.rand = g.rand /\ m.second = g.second
  BY DEF Typed, IsGame
<1> HIDE DEF m
<1>5. h = IF g.head[p] \in Squares THEN [m EXCEPT !.direction = b] ELSE m
  BY <1>2, <1>4
<1> HIDE DEF b, h
<1>6. /\ IsGame(h) /\ h.head = a /\ h.player = g.player
      /\ h.direction = IF g.head[p] \in Squares THEN b ELSE g.direction
      /\ h.tail = g.tail /\ h.dir = g.dir /\ h.len = g.len /\ h.fruit = g.fruit
      /\ h.rand = g.rand /\ h.second = g.second
  BY <1>4, <1>5 DEF IsGame
<1>7. QED
  BY <1>3, <1>6 DEF Typed, Board, Snakes, Advanced, a, b, h

LEMMA RetractEffect ==
  ASSUME NEW n \in {1, 2}, NEW g, Typed(g, n), NEW p \in 1 .. n, g.tail[p] \in Squares
  PROVE  Typed(Retract(g, p), n) /\ Retracted(g, Retract(g, p), p)
<1> DEFINE a == [g.tail EXCEPT ![p] = Plus(g.tail[p], g.direction[g.tail[p]])]
           b == [g.player EXCEPT ![g.tail[p]] = 0]
           c == [g.direction EXCEPT ![g.tail[p]] = Still]
           h == Retract(g, p)
<1>1. h = [g EXCEPT !.tail = a, !.player = b, !.direction = c]
  BY DEF Retract
<1>2. a \in [1 .. n -> Around]
  BY Neighbours DEF Typed, Snakes, Board
<1>3. b \in [Squares -> 0 .. n] /\ c \in [Squares -> Steps \cup {Still}]
  BY DEF Typed, Board
<1> HIDE DEF a, b, c, h
<1>4. /\ IsGame(h) /\ h.tail = a /\ h.player = b /\ h.direction = c
      /\ h.head = g.head /\ h.dir = g.dir /\ h.len = g.len /\ h.fruit = g.fruit
      /\ h.rand = g.rand /\ h.second = g.second
  BY <1>1 DEF Typed, IsGame
<1>5. QED
  BY <1>2, <1>3, <1>4 DEF Typed, Board, Snakes, Retracted, a, b, c, h

LEMMA GrowEffect ==
  ASSUME NEW n \in {1, 2}, NEW g, Typed(g, n), NEW p \in 1 .. n
  PROVE  Typed(Grow(g, p), n) /\ Grown(g, Grow(g, p), p)
<1> DEFINE a == [g.len EXCEPT ![p] = g.len[p] + 1]
           h == Grow(g, p)
<1>1. h = [g EXCEPT !.len = a]
  BY DEF Grow
<1>2. a \in [1 .. n -> Nat]
  BY DEF Typed, Snakes
<1> HIDE DEF a, h
<1>3. /\ IsGame(h) /\ h.len = a /\ h.player = g.player /\ h.direction = g.direction
      /\ h.head = g.head /\ h.tail = g.tail /\ h.dir = g.dir /\ h.fruit = g.fruit
      /\ h.rand = g.rand /\ h.second = g.second
  BY <1>1 DEF Typed, IsGame
<1>4. QED
  BY <1>2, <1>3 DEF Typed, Board, Snakes, Grown, a, h

LEMMA LandEffect ==
  ASSUME NEW n \in {1, 2}, NEW g, Typed(g, n), NEW p \in 1 .. n
  PROVE  Typed(Land(g, p), n) /\ Landed(g, Land(g, p), p)
<1> DEFINE e == checkIfOver(g, p)
           a == [e.player EXCEPT ![g.head[p]] = p]
           h == Land(g, p)
<1>1. /\ Typed(e, n)
      /\ IF Crashes(g, p) THEN Ended(g, e, p) ELSE e.player = g.player /\ e.second = g.second
      /\ e.direction = g.direction /\ e.head = g.head /\ e.tail = g.tail
      /\ e.dir = g.dir /\ e.len = g.len /\ e.fruit = g.fruit /\ e.rand = g.rand
  BY EndGameEffect DEF checkIfOver, Crashes
<1>2. h = IF e.head[p] \in Squares THEN [e EXCEPT !.player[e.head[p]] = p] ELSE e
  BY DEF Land, MarkHead
<1> HIDE DEF e
<1>3. h = IF g.head[p] \in Squares THEN [e EXCEPT !.player = a] ELSE e
  BY <1>1, <1>2
<1>4. a \in [Squares -> 0 .. n]
  <2>1. p \in 0 .. n /\ e.player \in [Squares -> 0 .. n]
    BY <1>1 DEF Typed, Board
  <2>2. QED
    BY <2>1, MarkTyped
<1> HIDE DEF a, h
<1>5. /\ IsGame(h) /\ h.player = IF g.head[p] \in Squares THEN a ELSE e.player
      /\ h.direction = g.direction /\ h.second = e.second
      /\ h.head = g.head /\ h.tail = g.tail /\ h.dir = g.dir /\ h.len = g.len
      /\ h.fruit = g.fruit /\ h.rand = g.rand
  BY <1>1, <1>3 DEF Typed, IsGame
<1>6. Typed(h, n)
  BY <1>1, <1>4, <1>5 DEF Typed, Board, Snakes
<1>7. Landed(g, h, p)
  BY <1>1, <1>5 DEF Landed, Ended, a
<1>8. QED
  BY <1>6, <1>7 DEF h

-----------------------------------------------------------------------------
(***************************************************************************)
(* A tick.                                                                 *)
(***************************************************************************)

\* One snake has moved its head: it eats, or its tail follows.
Fed1(b, d) ==
  IF b.head[1] = b.fruit
  THEN \E c : Typed(c, 1) /\ Grown(b, c, 1) /\ Refreshed(c, d)
  ELSE Retracted(b, d, 1)

\* Two have: one eats and the tail of the other follows, or both tails do.
Fed2(b, d) ==
  IF b.head[1] = b.fruit \/ b.head[2] = b.fruit
  THEN \E p \in {1, 2} : \E a, c :
         /\ b.head[p] = b.fruit
         /\ Typed(a, 2) /\ Grown(b, a, p)
         /\ Typed(c, 2) /\ Retracted(a, c, 3 - p)
         /\ Refreshed(c, d)
  ELSE \E c : Typed(c, 2) /\ Retracted(b, c, 1) /\ Retracted(c, d, 2)

\* A tick of one snake, and of two, from part to part.
Tick1(g, h) ==
  \E a, b, d : /\ Typed(a, 1) /\ Steered(g, a, 1)
               /\ Typed(b, 1) /\ Advanced(a, b, 1)
               /\ Typed(d, 1) /\ Fed1(b, d)
               /\ Landed(d, h, 1)

Tick2(g, h) ==
  \E a, s, m, b, d, e :
    /\ Typed(a, 2) /\ Steered(g, a, 1)
    /\ Typed(s, 2) /\ Steered(a, s, 2)
    /\ Typed(m, 2) /\ Advanced(s, m, 1)
    /\ Typed(b, 2) /\ Advanced(m, b, 2)
    /\ Typed(d, 2) /\ Fed2(b, d)
    /\ Typed(e, 2) /\ Landed(d, e, 1)
    /\ Landed(e, h, 2)

LEMMA Feed1Effect ==
  ASSUME NEW b, Typed(b, 1), b.tail[1] \in Squares
  PROVE  Typed(Feed1(b), 1) /\ Fed1(b, Feed1(b))
<1>1. CASE b.head[1] = b.fruit
  <2>1. Typed(Grow(b, 1), 1) /\ Grown(b, Grow(b, 1), 1)
    BY GrowEffect
  <2>2. Typed(resetFruit(Grow(b, 1)), 1) /\ Refreshed(Grow(b, 1), resetFruit(Grow(b, 1)))
    BY <2>1, FruitEffect DEF Typed, Snakes, Refreshed
  <2>3. QED
    BY <1>1, <2>1, <2>2 DEF Feed1, Fed1
<1>2. CASE b.head[1] # b.fruit
  BY <1>2, RetractEffect DEF Feed1, Fed1
<1>3. QED
  BY <1>1, <1>2

LEMMA Feed2Effect ==
  ASSUME NEW b, Typed(b, 2), \A p \in 1 .. 2 : b.tail[p] \in Squares
  PROVE  Typed(Feed2(b), 2) /\ Fed2(b, Feed2(b))
<1>1. ASSUME NEW p \in {1, 2}, b.head[p] = b.fruit,
             Feed2(b) = resetFruit(Retract(Grow(b, p), 3 - p))
      PROVE  Typed(Feed2(b), 2) /\ Fed2(b, Feed2(b))
  <2> DEFINE a == Grow(b, p)
             c == Retract(a, 3 - p)
             d == resetFruit(c)
  <2>1. p \in 1 .. 2 /\ 3 - p \in 1 .. 2
    OBVIOUS
  <2>2. Typed(a, 2) /\ Grown(b, a, p)
    BY <2>1, GrowEffect
  <2> HIDE DEF a
  <2>3. a.tail[3 - p] \in Squares
    BY <2>1, <2>2 DEF Grown
  <2>4. Typed(c, 2) /\ Retracted(a, c, 3 - p)
    BY <2>1, <2>2, <2>3, RetractEffect
  <2> HIDE DEF c
  <2>5. Typed(d, 2) /\ Refreshed(c, d)
    BY <2>4, FruitEffect DEF Typed, Snakes, Refreshed
  <2>6. Feed2(b) = d
    BY <1>1 DEF a, c
  <2> HIDE DEF d
  <2>7. QED
    BY <1>1, <2>2, <2>4, <2>5, <2>6 DEF Fed2
<1>2. CASE b.head[1] = b.fruit
  <2>1. Feed2(b) = resetFruit(Retract(Grow(b, 1), 3 - 1))
    BY <1>2 DEF Feed2
  <2>2. QED
    BY <1>1, <1>2, <2>1
<1>3. CASE b.head[1] # b.fruit /\ b.head[2] = b.fruit
  <2>1. Feed2(b) = resetFruit(Retract(Grow(b, 2), 3 - 2))
    BY <1>3 DEF Feed2
  <2>2. QED
    BY <1>1, <1>3, <2>1
<1>4. CASE b.head[1] # b.fruit /\ b.head[2] # b.fruit
  <2> DEFINE c == Retract(b, 1)
  <2>1. Typed(c, 2) /\ Retracted(b, c, 1)
    BY RetractEffect
  <2>2. Feed2(b) = Retract(c, 2)
    BY <1>4 DEF Feed2
  <2> HIDE DEF c
  <2>3. c.tail[2] \in Squares
    BY <2>1 DEF Retracted, Typed, Snakes
  <2>4. Typed(Retract(c, 2), 2) /\ Retracted(c, Retract(c, 2), 2)
    BY <2>1, <2>3, RetractEffect
  <2>5. QED
    BY <1>4, <2>1, <2>2, <2>4 DEF Fed2
<1>5. QED
  BY <1>2, <1>3, <1>4

LEMMA Step1Effect ==
  ASSUME NEW g, Typed(g, 1), g.tail[1] \in Squares
  PROVE  Typed(Step1(g), 1) /\ Tick1(g, Step1(g))
<1> DEFINE a == interpretInput(g, 1)
           b == Advance(a, 1)
           d == Feed1(b)
           h == Land(d, 1)
<1>1. Typed(a, 1) /\ Steered(g, a, 1)
  BY SteerEffect
<1> HIDE DEF a
<1>2. Typed(b, 1) /\ Advanced(a, b, 1)
  BY <1>1, AdvanceEffect
<1> HIDE DEF b
<1>3. b.tail[1] \in Squares
  BY <1>1, <1>2 DEF Steered, Advanced
<1>4. Typed(d, 1) /\ Fed1(b, d)
  BY <1>2, <1>3, Feed1Effect
<1> HIDE DEF d
<1>5. Typed(h, 1) /\ Landed(d, h, 1)
  BY <1>4, LandEffect
<1>6. Step1(g) = h
  BY DEF Step1, h, d, b, a
<1> HIDE DEF h
<1>7. QED
  BY <1>1, <1>2, <1>4, <1>5, <1>6 DEF Tick1

LEMMA Step2Effect ==
  ASSUME NEW g, Typed(g, 2), \A p \in 1 .. 2 : g.tail[p] \in Squares
  PROVE  Typed(Step2(g), 2) /\ Tick2(g, Step2(g))
<1> DEFINE a == interpretInput(g, 1)
           s == interpretInput(a, 2)
           m == Advance(s, 1)
           b == Advance(m, 2)
           d == Feed2(b)
           e == Land(d, 1)
           h == Land(e, 2)
<1>1. Typed(a, 2) /\ Steered(g, a, 1)
  BY SteerEffect
<1> HIDE DEF a
<1>2. Typed(s, 2) /\ Steered(a, s, 2)
  BY <1>1, SteerEffect
<1> HIDE DEF s
<1>3. Typed(m, 2) /\ Advanced(s, m, 1)
  BY <1>2, AdvanceEffect
<1> HIDE DEF m
<1>4. Typed(b, 2) /\ Advanced(m, b, 2)
  BY <1>3, AdvanceEffect
<1> HIDE DEF b
<1>5. \A p \in 1 .. 2 : b.tail[p] \in Squares
  BY <1>1, <1>2, <1>3, <1>4 DEF Steered, Advanced
<1>6. Typed(d, 2) /\ Fed2(b, d)
  BY <1>4, <1>5, Feed2Effect
<1> HIDE DEF d
<1>7. Typed(e, 2) /\ Landed(d, e, 1)
  BY <1>6, LandEffect
<1> HIDE DEF e
<1>8. Typed(h, 2) /\ Landed(e, h, 2)
  BY <1>7, LandEffect
<1>9. Step2(g) = h
  BY DEF Step2, h, e, d, b, m, s, a
<1> HIDE DEF h
<1>10. QED
  BY <1>1, <1>2, <1>3, <1>4, <1>6, <1>7, <1>8, <1>9 DEF Tick2

\* No snake gets shorter, and a new fruit is one of the list.
LEMMA FeedingKeeps ==
  ASSUME NEW n \in {1, 2}, NEW b, Typed(b, n), NEW d, n = 1 => Fed1(b, d), n = 2 => Fed2(b, d)
  PROVE  /\ \A q \in 1 .. n : d.len[q] >= b.len[q]
         /\ d.fruit = b.fruit \/ d.fruit = NoSquare \/ d.fruit \in Listed
<1>1. b.len \in [1 .. n -> Nat]
  BY DEF Typed, Snakes
<1>2. ASSUME NEW p \in 1 .. n, NEW a, Grown(b, a, p)
      PROVE  \A q \in 1 .. n : a.len[q] >= b.len[q]
  BY <1>1, <1>2 DEF Grown
<1>3. CASE n = 1
  <2>1. CASE b.head[1] = b.fruit
    <3>1. PICK c : Grown(b, c, 1) /\ Refreshed(c, d)
      BY <1>3, <2>1 DEF Fed1
    <3>2. QED
      BY <1>2, <1>3, <3>1 DEF Refreshed
  <2>2. CASE b.head[1] # b.fruit
    BY <1>1, <1>3, <2>2 DEF Fed1, Retracted
  <2>3. QED
    BY <2>1, <2>2
<1>4. CASE n = 2
  <2>1. CASE b.head[1] = b.fruit \/ b.head[2] = b.fruit
    <3>1. PICK p \in {1, 2} :
            \E a, c : Grown(b, a, p) /\ Retracted(a, c, 3 - p) /\ Refreshed(c, d)
      BY <1>4, <2>1 DEF Fed2
    <3>2. PICK a, c : Grown(b, a, p) /\ Retracted(a, c, 3 - p) /\ Refreshed(c, d)
      BY <3>1
    <3>3. d.len = a.len /\ (d.fruit = NoSquare \/ d.fruit \in Listed)
      BY <3>2 DEF Retracted, Refreshed
    <3>4. QED
      BY <1>2, <1>4, <3>2, <3>3
  <2>2. CASE ~(b.head[1] = b.fruit \/ b.head[2] = b.fruit)
    <3>1. PICK c : Retracted(b, c, 1) /\ Retracted(c, d, 2)
      BY <1>4, <2>2 DEF Fed2
    <3>2. QED
      BY <1>1, <3>1 DEF Retracted
  <2>3. QED
    BY <2>1, <2>2
<1>5. QED
  BY <1>3, <1>4

LEMMA TicksKeep ==
  ASSUME NEW n \in {1, 2}, NEW g, Typed(g, n), NEW h,
         n = 1 => Tick1(g, h), n = 2 => Tick2(g, h)
  PROVE  /\ \A q \in 1 .. n : h.len[q] >= g.len[q]
         /\ h.fruit = g.fruit \/ h.fruit = NoSquare \/ h.fruit \in Listed
<1>1. CASE n = 1
  <2>1. PICK a, b, d : /\ Steered(g, a, 1) /\ Typed(b, 1) /\ Advanced(a, b, 1)
                       /\ Fed1(b, d) /\ Landed(d, h, 1)
    BY <1>1 DEF Tick1
  <2>2. b.len = g.len /\ b.fruit = g.fruit /\ h.len = d.len /\ h.fruit = d.fruit
    BY <2>1 DEF Steered, Advanced, Landed
  <2>3. QED
    BY <1>1, <2>1, <2>2, FeedingKeeps
<1>2. CASE n = 2
  <2>1. PICK a, s, m, b, d, e :
          /\ Steered(g, a, 1) /\ Steered(a, s, 2) /\ Advanced(s, m, 1) /\ Advanced(m, b, 2)
          /\ Typed(b, 2) /\ Fed2(b, d) /\ Landed(d, e, 1) /\ Landed(e, h, 2)
    BY <1>2 DEF Tick2
  <2>2. b.len = g.len /\ b.fruit = g.fruit /\ h.len = d.len /\ h.fruit = d.fruit
    BY <2>1 DEF Steered, Advanced, Landed
  <2>3. QED
    BY <1>2, <2>1, <2>2, FeedingKeeps
<1>3. QED
  BY <1>1, <1>2

-----------------------------------------------------------------------------
(***************************************************************************)
(* The start of a game.                                                    *)
(***************************************************************************)

\* One player more.
LEMMA PlayerAdded ==
  ASSUME NEW S, NEW k \in Nat, NEW f \in [1 .. k -> S], NEW x \in S
  PROVE  /\ Append(f, x) \in [1 .. k + 1 -> S]
         /\ Append(f, x)[k + 1] = x /\ \A q \in 1 .. k : Append(f, x)[q] = f[q]
<1>1. f \in Seq(S) /\ Len(f) = k
  OBVIOUS
<1>2. Append(f, x) \in Seq(S) /\ Len(Append(f, x)) = k + 1
  BY <1>1, AppendProperties
<1>3. Append(f, x)[k + 1] = x /\ \A q \in 1 .. k : Append(f, x)[q] = f[q]
  BY <1>1, AppendProperties
<1>4. QED
  BY <1>2, <1>3, LenProperties

LEMMA LoadEffect ==
  ASSUME NEW n \in {1, 2}, NEW p \in 1 .. n,
         NEW g, IsGame(g), Board(g, n), Snakes(g, p - 1)
  PROVE  LET h == Load(g, p)
         IN /\ IsGame(h) /\ Board(h, n) /\ Snakes(h, p)
            /\ h.player[FlagSquare] = 0 => g.player[FlagSquare] = 0
            /\ h.second = g.second /\ h.fruit = g.fruit
            /\ h.len[p] = 3 /\ \A q \in 1 .. p - 1 : h.len[q] = g.len[q]
<1> DEFINE v == Heading(p)
           x == StartHead[p]
           y == StartSquare(p, 1)
           z == StartSquare(p, 2)
           m1 == [g.player EXCEPT ![x] = p]
           m2 == [m1 EXCEPT ![y] = p]
           m3 == [m2 EXCEPT ![z] = p]
           d1 == [g.direction EXCEPT ![y] = v]
           d2 == [d1 EXCEPT ![z] = v]
           h == Load(g, p)
<1>1. h = [g EXCEPT !.len = Append(g.len, 3), !.head = Append(g.head, x),
                    !.dir = Append(g.dir, v), !.tail = Append(g.tail, z),
                    !.player = m3, !.direction = d2]
  BY DEF Load
<1>2. /\ p \in Players /\ v \in Steps /\ x \in Points /\ z \in Around
      /\ p \in 0 .. n /\ p # 0 /\ p - 1 \in Nat /\ (p - 1) + 1 = p
  BY StepsAre, SquaresAre, SnakeAssumption DEF Players
<1>3. m1 \in [Squares -> 0 .. n]
  BY <1>2, MarkTyped DEF Board
<1>4. m2 \in [Squares -> 0 .. n]
  BY <1>2, <1>3, MarkTyped
<1>5. m3 \in [Squares -> 0 .. n]
  BY <1>2, <1>4, MarkTyped
<1>6. d2 \in [Squares -> Steps \cup {Still}]
  BY <1>2 DEF Board
<1>7. m3[FlagSquare] = 0 => g.player[FlagSquare] = 0
  BY <1>2, SquaresAre DEF Board
<1>8. Append(g.len, 3) \in [1 .. p -> Nat] /\ Append(g.dir, v) \in [1 .. p -> Steps]
  BY <1>2, PlayerAdded DEF Snakes
<1>9. Append(g.len, 3)[p] = 3 /\ \A q \in 1 .. p - 1 : Append(g.len, 3)[q] = g.len[q]
  BY <1>2, PlayerAdded DEF Snakes
<1>10. Append(g.head, x) \in [1 .. p -> Points] /\ Append(g.tail, z) \in [1 .. p -> Around]
  BY <1>2, PlayerAdded DEF Snakes
<1> HIDE DEF v, x, y, z, m1, m2, m3, d1, d2, h
<1>11. /\ IsGame(h) /\ h.player = m3 /\ h.direction = d2 /\ h.fruit = g.fruit
       /\ h.rand = g.rand /\ h.second = g.second
       /\ h.len = Append(g.len, 3) /\ h.head = Append(g.head, x)
       /\ h.dir = Append(g.dir, v) /\ h.tail = Append(g.tail, z)
  BY <1>1 DEF IsGame
<1>12. QED
  BY <1>5, <1>6, <1>7, <1>8, <1>9, <1>10, <1>11 DEF Board, Snakes, h

\* A board without snakes.
LEMMA NoGameTyped ==
  ASSUME NEW n \in 0 .. 2, NEW r \in 0 .. RandQty
  PROVE  Typed(NoGame(r), 0) /\ Board(NoGame(r), n)
<1> DEFINE g == NoGame(r)
<1>1. /\ IsGame(g) /\ g.player = [s \in Squares |-> 0] /\ g.direction = [s \in Squares |-> Still]
      /\ g.head = <<>> /\ g.tail = <<>> /\ g.dir = <<>> /\ g.len = <<>>
      /\ g.fruit = NoSquare /\ g.rand = r /\ g.second = 0
  BY DEF IsGame, NoGame
<1> HIDE DEF g
<1>2. \A S : <<>> \in [1 .. 0 -> S]
  OBVIOUS
<1>3. QED
  BY <1>1, <1>2 DEF Typed, Board, Snakes, g

\* What startGame() makes of the board.
LEMMA StartEffect ==
  ASSUME NEW mode \in Players, NEW r \in 0 .. RandQty
  PROVE  LET clear == [NoGame(r) EXCEPT !.player[FlagSquare] = 1, !.second = mode - 1]
             one == Load(resetFruit(clear), 1)
             h == IF mode = 2 THEN Load(one, 2) ELSE one
         IN /\ Typed(h, mode)
            /\ h.player[FlagSquare] # 0 /\ h.second = mode - 1
            /\ h.fruit \in Listed \/ \A s \in Listed : s = FlagSquare
            /\ \A q \in 1 .. mode : h.len[q] = 3
<1> DEFINE clear == [NoGame(r) EXCEPT !.player[FlagSquare] = 1, !.second = mode - 1]
           fed == resetFruit(clear)
           one == Load(fed, 1)
           h == IF mode = 2 THEN Load(one, 2) ELSE one
           m == [NoGame(r).player EXCEPT ![FlagSquare] = 1]
<1>1. mode \in {1, 2} /\ mode - 1 \in 0 .. 1 /\ mode \in 0 .. 2 /\ 1 \in 0 .. mode /\ mode \in Nat
  BY DEF Players
<1>2. Typed(NoGame(r), 0) /\ Board(NoGame(r), mode)
  BY <1>1, NoGameTyped
<1>3. m \in [Squares -> 0 .. mode]
  BY <1>1, <1>2, MarkTyped DEF Board
<1>4. /\ m[FlagSquare] = 1
      /\ \A s \in Squares : s # FlagSquare => m[s] = 0
  BY SquaresAre DEF NoGame
<1>5. clear = [NoGame(r) EXCEPT !.player = m, !.second = mode - 1]
  OBVIOUS
<1> HIDE DEF m, clear
<1>6. /\ IsGame(clear) /\ clear.player = m /\ clear.second = mode - 1
      /\ clear.direction = NoGame(r).direction /\ clear.head = NoGame(r).head
      /\ clear.tail = NoGame(r).tail /\ clear.dir = NoGame(r).dir /\ clear.len = NoGame(r).len
      /\ clear.fruit = NoGame(r).fruit /\ clear.rand = NoGame(r).rand
  BY <1>2, <1>5 DEF Typed, IsGame
<1>7. IsGame(clear) /\ Board(clear, mode) /\ Snakes(clear, 0)
  BY <1>1, <1>2, <1>3, <1>6 DEF Typed, Board, Snakes
<1>8. IsGame(fed) /\ Board(fed, mode) /\ Snakes(fed, 0) /\ Refreshed(clear, fed)
  <2>1. IsGame(fed) /\ Board(fed, mode) /\ Refreshed(clear, fed)
    BY <1>1, <1>7, FruitEffect
  <2> HIDE DEF fed
  <2>2. QED
    BY <1>7, <2>1 DEF Snakes, Refreshed
<1>9. fed.player[FlagSquare] = 1 /\ fed.second = mode - 1
  BY <1>4, <1>6, <1>8 DEF Refreshed
<1>10. fed.fruit \in Listed \/ \A s \in Listed : s = FlagSquare
  <2>1. Listed \subseteq Squares
    BY SquareAtIsSquare DEF Listed
  <2>2. QED
    BY <1>4, <1>6, <1>8, <2>1 DEF Refreshed
<1> HIDE DEF fed
<1>11. /\ IsGame(one) /\ Board(one, mode) /\ Snakes(one, 1)
       /\ one.player[FlagSquare] # 0 /\ one.second = mode - 1 /\ one.fruit = fed.fruit
       /\ one.len[1] = 3
  BY <1>1, <1>8, <1>9, LoadEffect
<1> HIDE DEF one
<1>12. CASE mode = 1
  <2>1. h = one
    BY <1>12
  <2> HIDE DEF h
  <2>2. /\ Typed(h, mode) /\ h.player[FlagSquare] # 0 /\ h.second = mode - 1
        /\ h.fruit = fed.fruit /\ \A q \in 1 .. mode : h.len[q] = 3
    BY <1>11, <1>12, <2>1 DEF Typed
  <2>3. QED
    BY <1>10, <2>2 DEF h, one, fed, clear
<1>13. CASE mode = 2
  <2> DEFINE two == Load(one, 2)
  <2>1. /\ IsGame(two) /\ Board(two, mode) /\ Snakes(two, 2)
        /\ two.player[FlagSquare] # 0 /\ two.second = mode - 1 /\ two.fruit = fed.fruit
        /\ two.len[2] = 3 /\ two.len[1] = one.len[1]
    BY <1>11, <1>13, LoadEffect
  <2>2. h = two
    BY <1>13
  <2> HIDE DEF h, two
  <2>3. /\ Typed(h, mode) /\ h.player[FlagSquare] # 0 /\ h.second = mode - 1
        /\ h.fruit = fed.fruit /\ \A q \in 1 .. mode : h.len[q] = 3
    BY <1>11, <1>13, <2>1, <2>2 DEF Typed
  <2>4. QED
    BY <1>10, <2>3 DEF h, one, fed, clear
<1>14. QED
  BY <1>1, <1>12, <1>13

-----------------------------------------------------------------------------
(***************************************************************************)
(* The invariant.                                                          *)
(***************************************************************************)

\* A snake has the squares it started with, at least.
Long == \A p \in 1 .. gameMode : len[p] >= 3

\* The variables hold what they should, and a game that goes on is not over and
\* has a fruit of the list, if the list spares the square of gameNotOver.
IInv ==
  /\ screen \in {"shell", "title", "playing", "over", "overflow"}
  /\ gameMode \in 0 .. 2
  /\ Typed(Game, gameMode)
  /\ screen = "playing" =>
       /\ gameMode \in {1, 2}
       /\ player[FlagSquare] # 0 /\ (gameMode = 2 => gameNotOver2 # 0)
       /\ gameMode = 2 => input[2] # "tab"
       /\ Long /\ (FlagSquare \notin Listed => fruit \in Listed)

GameFields ==
  /\ IsGame(Game)
  /\ Game.player = player /\ Game.direction = direction /\ Game.head = head
  /\ Game.tail = tail /\ Game.dir = dir /\ Game.len = len /\ Game.fruit = fruit
  /\ Game.rand = randIndex /\ Game.second = gameNotOver2

LEMMA GameIs == GameFields /\ GameFields'
BY DEF GameFields, Game, IsGame

\* The variables after a step that assigns them from a record.
LEMMA BecomeTyped ==
  ASSUME NEW g, NEW n, Typed(g, n), Become(g)
  PROVE  Typed(Game', n)
BY GameIs DEF GameFields, Become, Typed, IsGame, Board, Snakes

LEMMA MoveTyped ==
  ASSUME IInv, Move
  PROVE  LET g == IF gameMode = 1 THEN Step1(Game) ELSE Step2(Game)
         IN /\ gameMode \in {1, 2} /\ Typed(g, gameMode) /\ Become(g)
            /\ gameMode = 1 => Tick1(Game, g)
            /\ gameMode = 2 => Tick2(Game, g)
<1>1. gameMode \in {1, 2} /\ \A p \in 1 .. gameMode : tail[p] \in Squares
  BY DEF Move, IInv
<1>2. Typed(Game, gameMode) /\ Game.tail = tail
  BY GameIs DEF IInv, GameFields
<1>3. CASE gameMode = 1
  BY <1>1, <1>2, <1>3, Step1Effect DEF Move
<1>4. CASE gameMode = 2
  BY <1>1, <1>2, <1>4, Step2Effect DEF Move
<1>5. QED
  BY <1>1, <1>3, <1>4

LEMMA InitSound == Init => IInv
<1> SUFFICES ASSUME Init PROVE IInv
  OBVIOUS
<1>1. 0 \in 0 .. 2 /\ 1 \in 0 .. RandQty
  BY SnakeAssumption
<1>2. Typed(NoGame(1), 0)
  BY <1>1, NoGameTyped
<1>3. /\ NoGame(1).player = player /\ NoGame(1).direction = direction /\ NoGame(1).head = head
      /\ NoGame(1).tail = tail /\ NoGame(1).dir = dir /\ NoGame(1).len = len
      /\ NoGame(1).fruit = fruit /\ NoGame(1).rand = randIndex /\ NoGame(1).second = gameNotOver2
  BY DEF Init, NoGame
<1>4. Typed(Game, 0)
  BY <1>2, <1>3, GameIs DEF GameFields, Typed, IsGame, Board, Snakes
<1>5. QED
  BY <1>4 DEF Init, IInv

LEMMA NextSound == IInv /\ [Next]_vars => IInv'
<1> SUFFICES ASSUME IInv, [Next]_vars PROVE IInv'
  OBVIOUS
<1>1. ASSUME UNCHANGED <<gameMode, player, direction, head, tail, dir, len, fruit,
                         randIndex, gameNotOver2>>
      PROVE  gameMode' \in 0 .. 2 /\ Typed(Game, gameMode)'
  <2>1. Game' = Game
    BY <1>1 DEF Game
  <2>2. QED
    BY <1>1, <2>1 DEF IInv
<1>2. CASE SNAKE
  BY <1>1, <1>2 DEF SNAKE, IInv
<1>3. CASE \E mode \in Players : startGame(mode)
  <2>1. PICK mode \in Players : startGame(mode)
    BY <1>3
  <2> DEFINE clear == [NoGame(randIndex) EXCEPT !.player[FlagSquare] = 1, !.second = mode - 1]
             one == Load(resetFruit(clear), 1)
             h == IF mode = 2 THEN Load(one, 2) ELSE one
  <2>2. randIndex \in 0 .. RandQty
    BY GameIs DEF GameFields, IInv, Typed, Board
  <2>3. /\ Typed(h, mode) /\ h.player[FlagSquare] # 0 /\ h.second = mode - 1
        /\ h.fruit \in Listed \/ \A s \in Listed : s = FlagSquare
        /\ \A q \in 1 .. mode : h.len[q] = 3
    BY <2>2, StartEffect
  <2>4. /\ screen' = "playing" /\ gameMode' = mode /\ Become(h)
        /\ input' = [p \in 1 .. mode |-> "none"]
    BY <2>1, Zenon DEF startGame
  <2> HIDE DEF h
  <2>5. Typed(Game', mode) /\ player' = h.player /\ gameNotOver2' = h.second
    BY <2>3, <2>4, BecomeTyped DEF Become
  <2>6. mode \in {1, 2} /\ (mode = 2 => 2 \in 1 .. mode /\ mode - 1 # 0)
    BY DEF Players
  <2>7. FlagSquare \notin Listed => h.fruit \in Listed
    <3>1. SquareAt(randIndex) \in Listed
      BY <2>2 DEF Listed
    <3>2. QED
      BY <2>3, <3>1
  <2>8. Long' /\ (FlagSquare \notin Listed => fruit' \in Listed)
    BY <2>3, <2>4, <2>7 DEF Long, Become
  <2>9. QED
    BY <2>3, <2>4, <2>5, <2>6, <2>8 DEF IInv, Listed, SquareAt, NumberAt, FlagSquare
<1>4. CASE \E p \in Players, key \in Turns \cup {"tab", "other"} : Key(p, key)
  <2>1. PICK p \in Players, key \in Turns \cup {"tab", "other"} : Key(p, key)
    BY <1>4
  <2>2. gameMode' \in 0 .. 2 /\ Typed(Game, gameMode)'
    BY <1>1, <2>1 DEF Key
  <2>3. gameMode = 2 => input'[2] # "tab"
    BY <2>1 DEF Key, IInv, Turns
  <2>4. QED
    BY <2>1, <2>2, <2>3 DEF Key, IInv, Long, Listed, SquareAt, NumberAt, FlagSquare
<1>5. CASE Move
  <2> DEFINE g == IF gameMode = 1 THEN Step1(Game) ELSE Step2(Game)
  <2>1. /\ gameMode \in {1, 2} /\ Typed(g, gameMode) /\ Become(g)
        /\ gameMode = 1 => Tick1(Game, g)
        /\ gameMode = 2 => Tick2(Game, g)
    BY <1>5, MoveTyped
  <2>2. /\ screen = "playing"
        /\ screen' = IF g.fruit = NoSquare THEN "overflow"
                     ELSE IF Goes(g) THEN "playing" ELSE "over"
        /\ input' = IF Goes(g) THEN input ELSE [p \in 1 .. gameMode |-> "none"]
        /\ gameMode' = gameMode
    BY <1>5 DEF Move
  <2> HIDE DEF g
  <2>3. Typed(Game', gameMode) /\ player' = g.player /\ gameNotOver2' = g.second
    BY <2>1, BecomeTyped DEF Become
  <2>4. screen' = "playing" => /\ player'[FlagSquare] # 0 /\ (gameMode = 2 => gameNotOver2' # 0)
                               /\ input' = input
    BY <2>2, <2>3 DEF Goes
  <2>5. /\ \A q \in 1 .. gameMode : g.len[q] >= len[q]
        /\ g.fruit = fruit \/ g.fruit = NoSquare \/ g.fruit \in Listed
    <3>1. Typed(Game, gameMode) /\ Game.len = len /\ Game.fruit = fruit
      BY GameIs DEF IInv, GameFields
    <3>2. QED
      BY <2>1, <3>1, TicksKeep
  <2>6. Long'
    <3>1. g.len \in [1 .. gameMode -> Nat] /\ len \in [1 .. gameMode -> Nat]
      BY <2>1, GameIs DEF IInv, GameFields, Typed, Snakes
    <3>2. \A q \in 1 .. gameMode : len[q] >= 3
      BY <2>2 DEF IInv, Long
    <3>3. QED
      BY <2>1, <2>2, <2>5, <3>1, <3>2 DEF Long, Become
  <2>7. screen' = "playing" => (FlagSquare \notin Listed => fruit' \in Listed)
    BY <2>1, <2>2, <2>5 DEF IInv, Become
  <2>8. QED
    BY <2>1, <2>2, <2>3, <2>4, <2>6, <2>7 DEF IInv, Listed, SquareAt, NumberAt, FlagSquare
<1>6. CASE Leave
  <2>1. randIndex \in 0 .. RandQty
    BY GameIs DEF GameFields, IInv, Typed, Board
  <2>2. Typed(Game', 0)
    BY <1>6, <2>1, NoGameTyped, BecomeTyped DEF Leave
  <2>3. QED
    BY <1>6, <2>2 DEF Leave, IInv
<1>7. CASE UNCHANGED vars
  BY <1>1, <1>7 DEF vars, IInv, Long, Listed, SquareAt, NumberAt, FlagSquare
<1>8. QED
  BY <1>2, <1>3, <1>4, <1>5, <1>6, <1>7 DEF Next

\* It holds in every reachable state.
LEMMA InductiveInvariant == Spec => []IInv
BY InitSound, NextSound, PTL DEF Spec

\* The types of the game hold on a board of any size, for snakes of any
\* length: no tail goes further than one square off the board, and the index
\* of the list of numbers never runs further than one past its end.
THEOREM TypeCorrect == Spec => []TypeOK
<1>1. IInv => TypeOK
  BY GameIs DEF GameFields, IInv, TypeOK, Typed, Board, Snakes, Steps, Around
<1>2. QED
  BY <1>1, InductiveInvariant, PTL

-----------------------------------------------------------------------------
(***************************************************************************)
(* The directions.                                                         *)
(***************************************************************************)

\* Eating, following and landing turn nobody.
LEMMA FeedingTurnsNobody ==
  ASSUME NEW b, NEW d, Fed1(b, d) \/ Fed2(b, d)
  PROVE  d.dir = b.dir
<1>1. CASE Fed1(b, d)
  BY <1>1 DEF Fed1, Grown, Refreshed, Retracted
<1>2. CASE Fed2(b, d)
  <2>1. CASE b.head[1] = b.fruit \/ b.head[2] = b.fruit
    <3>1. PICK p \in {1, 2} :
            \E a, c : Grown(b, a, p) /\ Retracted(a, c, 3 - p) /\ Refreshed(c, d)
      BY <1>2, <2>1 DEF Fed2
    <3>2. PICK a, c : Grown(b, a, p) /\ Retracted(a, c, 3 - p) /\ Refreshed(c, d)
      BY <3>1
    <3>3. QED
      BY <3>2 DEF Grown, Retracted, Refreshed
  <2>2. CASE ~(b.head[1] = b.fruit \/ b.head[2] = b.fruit)
    <3>1. PICK c : Retracted(b, c, 1) /\ Retracted(c, d, 2)
      BY <1>2, <2>2 DEF Fed2
    <3>2. QED
      BY <3>1 DEF Retracted
  <2>3. QED
    BY <2>1, <2>2
<1>3. QED
  BY <1>1, <1>2

\* In a tick every snake turns to the side or goes on.
LEMMA TicksTurnAside ==
  ASSUME NEW n \in {1, 2}, NEW g, Typed(g, n), NEW h,
         n = 1 => Tick1(g, h), n = 2 => Tick2(g, h)
  PROVE  \A p \in 1 .. n : Plus(g.dir[p], h.dir[p]) # Still
<1>1. CASE n = 1
  <2>1. PICK a, b, d : Steered(g, a, 1) /\ Advanced(a, b, 1) /\ Fed1(b, d) /\ Landed(d, h, 1)
    BY <1>1 DEF Tick1
  <2>2. h.dir = a.dir
    BY <2>1, FeedingTurnsNobody DEF Advanced, Landed
  <2>3. PICK v \in Steps : Plus(g.dir[1], v) # Still /\ a.dir = [g.dir EXCEPT ![1] = v]
    BY <2>1 DEF Steered
  <2>4. QED
    BY <1>1, <2>2, <2>3 DEF Typed, Snakes
<1>2. CASE n = 2
  <2>1. PICK a, s, m, b, d, e :
          /\ Steered(g, a, 1) /\ Steered(a, s, 2) /\ Advanced(s, m, 1) /\ Advanced(m, b, 2)
          /\ Fed2(b, d) /\ Landed(d, e, 1) /\ Landed(e, h, 2)
    BY <1>2 DEF Tick2
  <2>2. h.dir = s.dir
    BY <2>1, FeedingTurnsNobody DEF Advanced, Landed
  <2>3. PICK v \in Steps : Plus(g.dir[1], v) # Still /\ a.dir = [g.dir EXCEPT ![1] = v]
    BY <2>1 DEF Steered
  <2>4. PICK w \in Steps : Plus(a.dir[2], w) # Still /\ s.dir = [a.dir EXCEPT ![2] = w]
    BY <2>1 DEF Steered
  <2>5. g.dir \in [1 .. 2 -> Steps]
    BY <1>2 DEF Typed, Snakes
  <2>6. h.dir[1] = v /\ h.dir[2] = w /\ a.dir[2] = g.dir[2]
    BY <2>2, <2>3, <2>4, <2>5
  <2>7. QED
    BY <1>2, <2>3, <2>4, <2>6
<1>3. QED
  BY <1>1, <1>2

\* Whatever keys come between two moves, and however many, no snake ever turns
\* back into its neck.
THEOREM NobodyTurnsBack == Spec => NoTurnBack
<1>1. ASSUME IInv, Next, screen = "playing", NEW p \in 1 .. gameMode
      PROVE  Plus(dir[p], dir'[p]) # Still
  <2>1. Typed(Game, gameMode) /\ Game.dir = dir /\ gameMode \in {1, 2}
    BY <1>1, GameIs DEF IInv, GameFields
  <2>2. CASE Move
    <3> DEFINE g == IF gameMode = 1 THEN Step1(Game) ELSE Step2(Game)
    <3>1. Become(g) /\ (gameMode = 1 => Tick1(Game, g)) /\ (gameMode = 2 => Tick2(Game, g))
      BY <1>1, <2>2, MoveTyped
    <3> HIDE DEF g
    <3>2. Plus(Game.dir[p], g.dir[p]) # Still
      BY <2>1, <3>1, TicksTurnAside
    <3>3. QED
      BY <2>1, <3>1, <3>2 DEF Become
  <2>3. CASE dir' = dir
    <3>1. dir[p] \in Steps
      BY <2>1 DEF Typed, Snakes
    <3>2. \E k : k \in IF dir[p][1] = 0 THEN {"left", "right"} ELSE {"up", "down"}
      OBVIOUS
    <3>3. QED
      BY <2>3, <3>1, <3>2, TurnsAside
  <2>4. QED
    BY <1>1, <2>2, <2>3 DEF Next, SNAKE, startGame, Key, Leave
<1>2. IInv /\ [Next]_vars
        => [\A p \in 1 .. gameMode : screen = "playing" => Plus(dir[p], dir'[p]) # Still]_vars
  BY <1>1
<1>3. QED
  BY <1>2, InductiveInvariant, PTL DEF Spec, NoTurnBack

-----------------------------------------------------------------------------
(***************************************************************************)
(* Bodies: the path along the directions.                                  *)
(***************************************************************************)

\* The square reached from t after k steps along the directions d.
Along(d, t, k) ==
  LET at[j \in 0 .. k] == IF j = 0 THEN t
                          ELSE IF at[j - 1] \in Squares
                               THEN Plus(at[j - 1], d[at[j - 1]]) ELSE at[j - 1]
  IN at[k]

\* w is such a path of n steps.
Path(w, d, t, n) ==
  /\ w \in [0 .. n -> Points]
  /\ w[0] = t
  /\ \A k \in 1 .. n : w[k] = IF w[k - 1] \in Squares
                              THEN Plus(w[k - 1], d[w[k - 1]]) ELSE w[k - 1]

LEMMA AtIsAlong ==
  /\ \A p, k : At(p, k) = Along(direction, tail[p], k)
  /\ \A p, k : At(p, k)' = Along(direction', tail'[p], k)
BY DEF At, Along, Follow

LEMMA PathExists ==
  ASSUME NEW d \in [Squares -> Steps \cup {Still}], NEW t \in Points, NEW n \in Nat
  PROVE  \E w : Path(w, d, t, n)
<1> DEFINE Turn(s) == IF s \in Squares THEN Plus(s, d[s]) ELSE s
           turn == [x \in (1 .. n) \X Points |-> Turn(x[2])]
<1>1. ASSUME NEW s \in Points PROVE Turn(s) \in Points
  <2>1. CASE s \in Squares
    BY <2>1, Neighbours
  <2>2. QED
    BY <2>1
<1> HIDE DEF Turn
<1>2. turn \in [(1 .. n) \X Points -> Points]
  BY <1>1
<1>3. ASSUME NEW k \in 1 .. n, NEW s \in Points PROVE turn[<<k, s>>] = Turn(s)
  OBVIOUS
<1> HIDE DEF turn
<1>4. PICK w : Runs(w, Points, n, t, turn)
  BY <1>2, IterationExists, Zenon
<1>5. ASSUME NEW k \in 1 .. n
      PROVE  w[k] = Turn(w[k - 1])
  <2>1. k - 1 \in 0 .. n
    OBVIOUS
  <2>2. w[k - 1] \in Points
    BY <1>4, <2>1 DEF Runs
  <2>3. QED
    BY <1>3, <1>4, <2>2 DEF Runs
<1>6. QED
  BY <1>4, <1>5 DEF Runs, Path, Turn

\* There is only one.
LEMMA AlongIsPath ==
  ASSUME NEW d, NEW t, NEW n \in Nat, NEW w, Path(w, d, t, n)
  PROVE  \A k \in 0 .. n : Along(d, t, k) = w[k]
<1> SUFFICES ASSUME NEW k \in 0 .. n PROVE Along(d, t, k) = w[k]
  OBVIOUS
<1> DEFINE Turn(s) == IF s \in Squares THEN Plus(s, d[s]) ELSE s
           G(g) == [j \in 0 .. k |-> IF j = 0 THEN t ELSE Turn(g[j - 1])]
           at == CHOOSE g : g = G(g)
           v == [j \in 0 .. k |-> w[j]]
<1>1. /\ w[0] = t
      /\ \A j \in 1 .. k : j - 1 \in 0 .. k /\ w[j] = Turn(w[j - 1])
  BY DEF Path
<1>2. Along(d, t, k) = at[k]
  BY DEF Along
<1> HIDE DEF Turn
<1>3. v = G(v)
  <2>1. ASSUME NEW j \in 0 .. k PROVE v[j] = IF j = 0 THEN t ELSE Turn(v[j - 1])
    BY <1>1
  <2>2. QED
    BY <2>1
<1>4. at = G(at)
  BY <1>3
<1> HIDE DEF at, v
<1>5. /\ at[0] = t
      /\ \A j \in 1 .. k : at[j] = Turn(at[j - 1])
  BY <1>4
<1> DEFINE D == {j \in 0 .. k : at[j] # w[j]}
<1>6. D = {}
  <2> SUFFICES ASSUME D # {} PROVE FALSE
    OBVIOUS
  <2>1. D \in SUBSET Nat
    OBVIOUS
  <2> DEFINE i == Min(D)
  <2>2. i \in D /\ \A j \in D : i <= j
    BY <2>1, MinIsLeast
  <2> HIDE DEF i
  <2>3. i \in 1 .. k /\ at[i] # w[i]
    BY <1>1, <1>5, <2>2
  <2>4. i - 1 \in 0 .. k /\ i - 1 \notin D
    BY <2>2, <2>3
  <2>5. at[i - 1] = w[i - 1]
    BY <2>4
  <2>6. QED
    BY <1>1, <1>5, <2>3, <2>5
<1>7. k \in 0 .. k /\ k \notin D
  BY <1>6
<1>8. QED
  BY <1>2, <1>7

\* A snake of n squares lies along w, from its tail t to its head x.
Lies(w, d, t, x, n) ==
  /\ n \in Nat /\ n >= 2
  /\ w \in [0 .. n - 1 -> Squares]
  /\ \A i, j \in 0 .. n - 1 : w[i] = w[j] => i = j
  /\ w[0] = t /\ w[n - 1] = x
  /\ \A k \in 1 .. n - 1 : w[k] = Plus(w[k - 1], d[w[k - 1]])

\* The squares of w are those of B.
Covers(w, n, B) == \A s : s \in B <=> \E k \in 0 .. n - 1 : s = w[k]

\* A function and the set of its values.
LEMMA OntoItsValues ==
  ASSUME NEW I, NEW T, NEW w \in [I -> T], NEW B,
         \A k \in I : w[k] \in B, \A s \in B : \E k \in I : w[k] = s
  PROVE  /\ w \in Surjection(I, B)
         /\ (\A i, j \in I : w[i] = w[j] => i = j) => w \in Injection(I, B)
<1>1. w \in [I -> B]
  OBVIOUS
<1>2. QED
  BY <1>1 DEF Surjection, Injection, IsInjective

\* The path of a body of as many squares as the snake is long meets none twice.
LEMMA BodyLies ==
  ASSUME NEW d \in [Squares -> Steps \cup {Still}], NEW t \in Points, NEW x,
         NEW n \in Nat, n >= 2, Along(d, t, n - 1) = x,
         NEW B, B \subseteq Squares, Cardinality(B) = n,
         \A s : s \in B <=> \E k \in 0 .. n - 1 : s = Along(d, t, k)
  PROVE  \E w : Lies(w, d, t, x, n) /\ Covers(w, n, B)
<1>1. n - 1 \in Nat /\ 0 \in 0 .. n - 1 /\ n - 1 \in 0 .. n - 1
  OBVIOUS
<1>2. PICK w : Path(w, d, t, n - 1)
  BY <1>1, PathExists
<1>3. \A k \in 0 .. n - 1 : Along(d, t, k) = w[k]
  BY <1>1, <1>2, AlongIsPath
<1>4. \A s : s \in B <=> \E k \in 0 .. n - 1 : s = w[k]
  BY <1>3
<1>5. w \in [0 .. n - 1 -> Points]
  BY <1>2 DEF Path
<1>6. w \in Surjection(0 .. n - 1, B)
  <2>1. /\ \A k \in 0 .. n - 1 : w[k] \in B
        /\ \A s \in B : \E k \in 0 .. n - 1 : w[k] = s
    BY <1>4
  <2>2. QED
    BY <1>5, <2>1, OntoItsValues
<1>7. IsFiniteSet(0 .. n - 1) /\ Cardinality(0 .. n - 1) = n
  BY <1>1, FS_Interval
<1>8. w \in Injection(0 .. n - 1, B)
  BY <1>6, <1>7, FS_SurjSameCardinalityImpliesInj
<1>9. \A i, j \in 0 .. n - 1 : w[i] = w[j] => i = j
  BY <1>5, <1>8 DEF Injection, IsInjective
<1>10. w \in [0 .. n - 1 -> Squares]
  <2>1. \A k \in 0 .. n - 1 : w[k] \in Squares
    BY <1>4
  <2>2. QED
    BY <1>5, <2>1
<1>11. ASSUME NEW k \in 1 .. n - 1 PROVE w[k] = Plus(w[k - 1], d[w[k - 1]])
  <2>1. k - 1 \in 0 .. n - 1
    OBVIOUS
  <2>2. w[k - 1] \in Squares
    BY <1>10, <2>1
  <2>3. QED
    BY <1>2, <2>2 DEF Path
<1>12. w[0] = t /\ w[n - 1] = x
  BY <1>1, <1>2, <1>3 DEF Path
<1>13. Lies(w, d, t, x, n)
  BY <1>9, <1>10, <1>11, <1>12 DEF Lies
<1>14. QED
  BY <1>4, <1>13 DEF Covers

\* And the other way round.
LEMMA LyingIsBody ==
  ASSUME NEW d, NEW t, NEW x, NEW n, NEW w, Lies(w, d, t, x, n),
         NEW B, Covers(w, n, B)
  PROVE  /\ Along(d, t, n - 1) = x
         /\ \A s : s \in B <=> \E k \in 0 .. n - 1 : s = Along(d, t, k)
         /\ B \subseteq Squares /\ Cardinality(B) = n
<1> USE DEF Covers
<1>1. /\ n \in Nat /\ n - 1 \in Nat /\ 0 \in 0 .. n - 1 /\ n - 1 \in 0 .. n - 1
      /\ w \in [0 .. n - 1 -> Squares]
  BY DEF Lies
<1>2. Path(w, d, t, n - 1)
  <2>1. w \in [0 .. n - 1 -> Points]
    BY <1>1, SquaresAre
  <2>2. \A k \in 1 .. n - 1 : w[k - 1] \in Squares
    <3>1. \A k \in 1 .. n - 1 : k - 1 \in 0 .. n - 1
      BY <1>1
    <3>2. QED
      BY <1>1, <3>1
  <2>3. QED
    BY <2>1, <2>2 DEF Path, Lies
<1>3. \A k \in 0 .. n - 1 : Along(d, t, k) = w[k]
  BY <1>1, <1>2, AlongIsPath
<1>4. Along(d, t, n - 1) = x
  BY <1>1, <1>3 DEF Lies
<1>5. \A s : s \in B <=> \E k \in 0 .. n - 1 : s = Along(d, t, k)
  BY <1>3
<1>6. B \subseteq Squares
  BY <1>1
<1>7. w \in Bijection(0 .. n - 1, B)
  <2>1. \A i, j \in 0 .. n - 1 : w[i] = w[j] => i = j
    BY DEF Lies
  <2>2. w \in [0 .. n - 1 -> Squares]
    BY <1>1
  <2>3. /\ \A k \in 0 .. n - 1 : w[k] \in B
        /\ \A s \in B : \E k \in 0 .. n - 1 : w[k] = s
    OBVIOUS
  <2>4. w \in Surjection(0 .. n - 1, B) /\ w \in Injection(0 .. n - 1, B)
    BY <2>1, <2>2, <2>3, OntoItsValues
  <2>5. QED
    BY <2>4 DEF Bijection
<1>8. IsFiniteSet(0 .. n - 1) /\ Cardinality(0 .. n - 1) = n
  BY <1>1, FS_Interval
<1>9. ExistsBijection(0 .. n - 1, B)
  BY <1>7 DEF ExistsBijection
<1>10. Cardinality(B) = n
  BY <1>8, <1>9, FS_Bijection
<1>11. QED
  BY <1>4, <1>5, <1>6, <1>10

\* The tail of a snake points away from itself, and is not its head.
LEMMA TailPointsOn ==
  ASSUME NEW d, NEW t, NEW x, NEW n, NEW w, Lies(w, d, t, x, n)
  PROVE  /\ t \in Squares /\ x \in Squares /\ t # x
         /\ w[1] = Plus(t, d[t]) /\ Plus(t, d[t]) # t
         /\ \E k \in 0 .. n - 1 : t = w[k]
         /\ \E k \in 0 .. n - 1 : x = w[k]
<1>1. /\ 0 \in 0 .. n - 1 /\ 1 \in 1 .. n - 1 /\ 1 \in 0 .. n - 1 /\ n - 1 \in 0 .. n - 1
      /\ n - 1 # 0 /\ 1 - 1 = 0
  BY DEF Lies
<1>2. w[0] \in Squares /\ w[n - 1] \in Squares /\ w[0] # w[n - 1] /\ w[0] # w[1]
  BY <1>1 DEF Lies
<1>3. w[1] = Plus(w[0], d[w[0]])
  BY <1>1 DEF Lies
<1>4. w[0] = t /\ w[n - 1] = x
  BY DEF Lies
<1>5. QED
  BY <1>1, <1>2, <1>3, <1>4

\* A snake that moves on: its tail follows its neighbour, and its head goes to
\* a square that is not one of the body's, or is the tail's.
LEMMA MovesOn ==
  ASSUME NEW d, NEW t, NEW x, NEW n, NEW w, Lies(w, d, t, x, n), NEW B, Covers(w, n, B),
         NEW e, NEW y \in Squares, y = Plus(x, e[x]), y \in B => y = t,
         \A s \in B \ {t, x} : e[s] = d[s]
  PROVE  \E u : Lies(u, e, Plus(t, d[t]), y, n) /\ Covers(u, n, (B \ {t}) \cup {y})
<1> DEFINE u == [k \in 0 .. n - 1 |-> IF k = n - 1 THEN y ELSE w[k + 1]]
<1>1. /\ n \in Nat /\ n >= 2 /\ w \in [0 .. n - 1 -> Squares]
      /\ w[0] = t /\ w[n - 1] = x
  BY DEF Lies
<1>2. \A k \in 0 .. n - 1 : k # n - 1 => k + 1 \in 1 .. n - 1 /\ k + 1 \in 0 .. n - 1
  BY <1>1
<1>3. \A k \in 1 .. n - 1 : w[k] # t /\ w[k] \in B
  <2>1. \A k \in 1 .. n - 1 : k \in 0 .. n - 1 /\ 0 \in 0 .. n - 1 /\ k # 0
    BY <1>1
  <2>2. QED
    BY <1>1, <2>1 DEF Lies, Covers
<1>4. \A k \in 1 .. n - 1 : w[k] # y
  BY <1>3
<1>5. u \in [0 .. n - 1 -> Squares]
  BY <1>1, <1>2
<1>6. \A i, j \in 0 .. n - 1 : u[i] = u[j] => i = j
  <2> SUFFICES ASSUME NEW i \in 0 .. n - 1, NEW j \in 0 .. n - 1, u[i] = u[j] PROVE i = j
    OBVIOUS
  <2>1. CASE i = n - 1
    BY <1>2, <1>4, <2>1
  <2>2. CASE j = n - 1
    BY <1>2, <1>4, <2>2
  <2>3. CASE i # n - 1 /\ j # n - 1
    <3>1. w[i + 1] = w[j + 1]
      BY <2>3
    <3>2. i + 1 = j + 1
      BY <1>2, <2>3, <3>1 DEF Lies
    <3>3. QED
      BY <3>2
  <2>4. QED
    BY <2>1, <2>2, <2>3
<1>7. u[0] = Plus(t, d[t]) /\ u[n - 1] = y
  <2>1. 0 \in 0 .. n - 1 /\ 0 # n - 1 /\ 0 + 1 = 1 /\ 1 \in 1 .. n - 1 /\ 1 - 1 = 0
        /\ n - 1 \in 0 .. n - 1
    BY <1>1
  <2>2. w[1] = Plus(w[0], d[w[0]])
    BY <2>1 DEF Lies
  <2>3. QED
    BY <1>1, <2>1, <2>2
<1>8. \A k \in 1 .. n - 1 : u[k] = Plus(u[k - 1], e[u[k - 1]])
  <2> SUFFICES ASSUME NEW k \in 1 .. n - 1 PROVE u[k] = Plus(u[k - 1], e[u[k - 1]])
    OBVIOUS
  <2>1. /\ k - 1 \in 0 .. n - 1 /\ k - 1 # n - 1 /\ (k - 1) + 1 = k /\ k \in 0 .. n - 1
        /\ n - 1 \in 0 .. n - 1
    BY <1>1
  <2>2. u[k - 1] = w[k]
    BY <2>1
  <2>3. CASE k = n - 1
    <3>1. u[k] = y /\ w[k] = x
      BY <1>1, <2>1, <2>3
    <3>2. QED
      BY <2>2, <3>1
  <2>4. CASE k # n - 1
    <3>1. u[k] = w[k + 1] /\ k + 1 \in 1 .. n - 1 /\ (k + 1) - 1 = k
      BY <1>1, <2>1, <2>4
    <3>2. w[k + 1] = Plus(w[k], d[w[k]])
      BY <3>1 DEF Lies
    <3>3. w[k] # x
      BY <1>1, <2>1, <2>4 DEF Lies
    <3>4. e[w[k]] = d[w[k]]
      BY <1>3, <3>3
    <3>5. QED
      BY <2>2, <3>1, <3>2, <3>4
  <2>5. QED
    BY <2>3, <2>4
<1>9. Covers(u, n, (B \ {t}) \cup {y})
  <2> SUFFICES ASSUME NEW s
               PROVE  s \in (B \ {t}) \cup {y} <=> \E k \in 0 .. n - 1 : s = u[k]
    BY DEF Covers
  <2>1. ASSUME NEW k \in 0 .. n - 1, s = u[k] PROVE s \in (B \ {t}) \cup {y}
    BY <1>2, <1>3, <2>1
  <2>2. ASSUME s \in B, s # t PROVE \E k \in 0 .. n - 1 : s = u[k]
    <3>1. PICK k \in 0 .. n - 1 : s = w[k]
      BY <2>2 DEF Covers
    <3>2. k # 0
      BY <1>1, <2>2, <3>1
    <3>3. k - 1 \in 0 .. n - 1 /\ k - 1 # n - 1 /\ (k - 1) + 1 = k
      BY <1>1, <3>2
    <3>4. u[k - 1] = s
      BY <3>1, <3>3
    <3>5. QED
      BY <3>3, <3>4
  <2>3. ASSUME s = y PROVE \E k \in 0 .. n - 1 : s = u[k]
    <3>1. n - 1 \in 0 .. n - 1
      BY <1>1
    <3>2. QED
      BY <1>7, <2>3, <3>1
  <2>4. QED
    BY <2>1, <2>2, <2>3
<1> HIDE DEF u
<1>10. Lies(u, e, Plus(t, d[t]), y, n)
  BY <1>1, <1>5, <1>6, <1>7, <1>8 DEF Lies
<1>11. QED
  BY <1>9, <1>10

\* A snake that eats: its tail stays, and its head goes to a square that is
\* not the body's.
LEMMA GrowsOn ==
  ASSUME NEW d, NEW t, NEW x, NEW n, NEW w, Lies(w, d, t, x, n), NEW B, Covers(w, n, B),
         NEW e, NEW y \in Squares, y = Plus(x, e[x]), y \notin B,
         \A s \in B \ {x} : e[s] = d[s]
  PROVE  \E u : Lies(u, e, t, y, n + 1) /\ Covers(u, n + 1, B \cup {y})
<1> DEFINE m == n + 1
           u == [k \in 0 .. n |-> IF k = n THEN y ELSE w[k]]
<1>1. /\ n \in Nat /\ n >= 2 /\ w \in [0 .. n - 1 -> Squares]
      /\ w[0] = t /\ w[n - 1] = x /\ m \in Nat /\ m >= 2 /\ m - 1 = n
  BY DEF Lies
<1>2. \A k \in 0 .. n : k # n => k \in 0 .. n - 1
  BY <1>1
<1>3. \A k \in 0 .. n - 1 : w[k] \in B /\ w[k] # y
  BY DEF Covers
<1>4. u \in [0 .. n -> Squares]
  BY <1>1, <1>2
<1>5. \A i, j \in 0 .. n : u[i] = u[j] => i = j
  <2> SUFFICES ASSUME NEW i \in 0 .. n, NEW j \in 0 .. n, u[i] = u[j] PROVE i = j
    OBVIOUS
  <2>1. CASE i = n
    BY <1>2, <1>3, <2>1
  <2>2. CASE j = n
    BY <1>2, <1>3, <2>2
  <2>3. CASE i # n /\ j # n
    BY <1>2, <2>3 DEF Lies
  <2>4. QED
    BY <2>1, <2>2, <2>3
<1>6. u[0] = t /\ u[n] = y
  BY <1>1
<1>7. \A k \in 1 .. n : u[k] = Plus(u[k - 1], e[u[k - 1]])
  <2> SUFFICES ASSUME NEW k \in 1 .. n PROVE u[k] = Plus(u[k - 1], e[u[k - 1]])
    OBVIOUS
  <2>1. k - 1 \in 0 .. n /\ k - 1 \in 0 .. n - 1 /\ k - 1 # n /\ k \in 0 .. n
    BY <1>1
  <2>2. u[k - 1] = w[k - 1]
    BY <2>1
  <2>3. CASE k = n
    <3>1. u[k] = y /\ w[k - 1] = x
      BY <1>1, <2>3
    <3>2. QED
      BY <2>2, <3>1
  <2>4. CASE k # n
    <3>1. k \in 1 .. n - 1 /\ u[k] = w[k] /\ k - 1 # n - 1 /\ n - 1 \in 0 .. n - 1
      BY <1>1, <2>1, <2>4
    <3>2. w[k] = Plus(w[k - 1], d[w[k - 1]])
      BY <3>1 DEF Lies
    <3>3. w[k - 1] # x
      BY <1>1, <2>1, <3>1 DEF Lies
    <3>4. e[w[k - 1]] = d[w[k - 1]]
      BY <1>3, <2>1, <3>3
    <3>5. QED
      BY <2>2, <3>1, <3>2, <3>4
  <2>5. QED
    BY <2>3, <2>4
<1>8. Covers(u, m, B \cup {y})
  <2> SUFFICES ASSUME NEW s
               PROVE  s \in B \cup {y} <=> \E k \in 0 .. n : s = u[k]
    BY <1>1 DEF Covers
  <2>1. ASSUME NEW k \in 0 .. n, s = u[k] PROVE s \in B \cup {y}
    BY <1>2, <1>3, <2>1
  <2>2. ASSUME s \in B PROVE \E k \in 0 .. n : s = u[k]
    <3>1. PICK k \in 0 .. n - 1 : s = w[k]
      BY <2>2 DEF Covers
    <3>2. k \in 0 .. n /\ k # n
      BY <1>1
    <3>3. QED
      BY <3>1, <3>2
  <2>3. ASSUME s = y PROVE \E k \in 0 .. n : s = u[k]
    <3>1. n \in 0 .. n
      BY <1>1
    <3>2. QED
      BY <1>6, <2>3, <3>1
  <2>4. QED
    BY <2>1, <2>2, <2>3
<1> HIDE DEF u, m
<1>9. Lies(u, e, t, y, m)
  BY <1>1, <1>4, <1>5, <1>6, <1>7 DEF Lies
<1>10. QED
  BY <1>8, <1>9 DEF m

-----------------------------------------------------------------------------
(***************************************************************************)
(* What a tick does to the snakes.                                         *)
(***************************************************************************)

\* From g to b: n snakes have turned and moved their heads.
HeadsMoved(g, b, n) ==
  /\ \A q \in 1 .. n : /\ b.dir[q] \in Steps
                       /\ b.head[q] = Plus(g.head[q], b.dir[q])
                       /\ b.direction[g.head[q]] = b.dir[q]
  /\ \A s \in Squares : (\A q \in 1 .. n : s # g.head[q]) => b.direction[s] = g.direction[s]
  /\ \A s \in Squares \ {FlagSquare} : b.player[s] = g.player[s]
  /\ input[1] # "tab" => b.player = g.player
  /\ b.tail = g.tail /\ b.len = g.len /\ b.fruit = g.fruit /\ b.second = g.second

\* From b to d: the tails of R follow, and whoever is not in R has eaten.
TailsFollow(b, d, n, R) ==
  /\ R \subseteq 1 .. n
  /\ \A q \in 1 .. n :
       IF q \in R THEN d.tail[q] = Plus(b.tail[q], b.direction[b.tail[q]]) /\ d.len[q] = b.len[q]
       ELSE d.tail[q] = b.tail[q] /\ d.len[q] = b.len[q] + 1
  /\ \A s \in Squares :
       IF \E q \in R : s = b.tail[q] THEN d.player[s] = 0
       ELSE d.player[s] = b.player[s] /\ d.direction[s] = b.direction[s]
  /\ d.dir = b.dir /\ d.head = b.head /\ d.second = b.second
  /\ R = 1 .. n => d.fruit = b.fruit
  /\ R # 1 .. n => /\ \E q \in 1 .. n : b.head[q] = b.fruit
                   /\ d.fruit # NoSquare => d.fruit \in Listed
                   /\ d.fruit = NoSquare => \A s \in Listed : d.player[s] # 0

LEMMA OneHeadMoves ==
  ASSUME NEW g, NEW a, NEW b, Typed(g, 1), g.head[1] \in Squares,
         Typed(a, 1), Steered(g, a, 1), Typed(b, 1), Advanced(a, b, 1)
  PROVE  HeadsMoved(g, b, 1)
<1>1. 1 .. 1 = {1}
  OBVIOUS
<1>2. /\ a.head = g.head /\ a.tail = g.tail /\ a.direction = g.direction
      /\ a.len = g.len /\ a.fruit = g.fruit
  BY DEF Steered
<1>3. /\ \A s \in Squares \ {FlagSquare} : a.player[s] = g.player[s]
      /\ input[1] # "tab" => a.player = g.player
      /\ a.second = g.second
  BY DEF Steered, Ended, Typed, Board
<1>4. /\ b.head = [g.head EXCEPT ![1] = Plus(g.head[1], a.dir[1])]
      /\ b.direction = [g.direction EXCEPT ![g.head[1]] = a.dir[1]]
      /\ b.player = a.player /\ b.second = a.second /\ b.tail = a.tail /\ b.dir = a.dir
      /\ b.len = a.len /\ b.fruit = a.fruit
  BY <1>2 DEF Advanced
<1>5. a.dir[1] \in Steps
  BY DEF Typed, Snakes
<1>6. b.head[1] = Plus(g.head[1], b.dir[1]) /\ b.direction[g.head[1]] = b.dir[1]
  BY <1>4 DEF Typed, Snakes, Board
<1>7. \A s \in Squares : s # g.head[1] => b.direction[s] = g.direction[s]
  BY <1>4 DEF Typed, Board
<1>8. QED
  BY <1>1, <1>2, <1>3, <1>4, <1>5, <1>6, <1>7 DEF HeadsMoved

LEMMA TwoHeadsMove ==
  ASSUME NEW g, NEW a, NEW r, NEW m, NEW b, Typed(g, 2), \A q \in 1 .. 2 : g.head[q] \in Squares,
         g.head[1] # g.head[2], input[2] # "tab",
         Typed(a, 2), Steered(g, a, 1), Typed(r, 2), Steered(a, r, 2),
         Typed(m, 2), Advanced(r, m, 1), Typed(b, 2), Advanced(m, b, 2)
  PROVE  HeadsMoved(g, b, 2)
<1>1. 1 .. 2 = {1, 2}
  OBVIOUS
<1>2. /\ r.head = g.head /\ r.tail = g.tail /\ r.direction = g.direction
      /\ r.len = g.len /\ r.fruit = g.fruit
  BY DEF Steered
<1>3. /\ \A s \in Squares \ {FlagSquare} : r.player[s] = g.player[s]
      /\ input[1] # "tab" => r.player = g.player
      /\ r.second = g.second
  BY DEF Steered, Ended, Typed, Board
<1>4. /\ m.head = [g.head EXCEPT ![1] = Plus(g.head[1], r.dir[1])]
      /\ m.direction = [g.direction EXCEPT ![g.head[1]] = r.dir[1]]
      /\ m.player = r.player /\ m.second = r.second /\ m.tail = r.tail /\ m.dir = r.dir
      /\ m.len = r.len /\ m.fruit = r.fruit
  BY <1>1, <1>2 DEF Advanced
<1>5. m.head[1] = Plus(g.head[1], r.dir[1]) /\ m.head[2] = g.head[2]
  BY <1>1, <1>4 DEF Typed, Snakes
<1>6. /\ b.head = [m.head EXCEPT ![2] = Plus(g.head[2], r.dir[2])]
      /\ b.direction = [m.direction EXCEPT ![g.head[2]] = r.dir[2]]
      /\ b.player = r.player /\ b.second = r.second /\ b.tail = r.tail /\ b.dir = r.dir
      /\ b.len = r.len /\ b.fruit = r.fruit
  BY <1>1, <1>4, <1>5 DEF Advanced
<1>7. r.dir[1] \in Steps /\ r.dir[2] \in Steps
  BY <1>1 DEF Typed, Snakes
<1>8. b.head[1] = Plus(g.head[1], r.dir[1]) /\ b.head[2] = Plus(g.head[2], r.dir[2])
  BY <1>1, <1>5, <1>6 DEF Typed, Snakes
<1>9. b.direction[g.head[1]] = r.dir[1] /\ b.direction[g.head[2]] = r.dir[2]
  BY <1>1, <1>4, <1>6 DEF Typed, Board
<1>10. \A s \in Squares : s # g.head[1] /\ s # g.head[2] => b.direction[s] = g.direction[s]
  BY <1>4, <1>6 DEF Typed, Board
<1>11. QED
  BY <1>1, <1>2, <1>3, <1>6, <1>7, <1>8, <1>9, <1>10 DEF HeadsMoved

LEMMA OneIsFed ==
  ASSUME NEW b, NEW d, Typed(b, 1), b.tail[1] \in Squares, Typed(d, 1), Fed1(b, d)
  PROVE  \E R : TailsFollow(b, d, 1, R)
<1>1. 1 .. 1 = {1} /\ {} # {1} /\ 1 \notin {}
  OBVIOUS
<1>2. CASE b.head[1] = b.fruit
  <2>1. PICK c : Typed(c, 1) /\ Grown(b, c, 1) /\ Refreshed(c, d)
    BY <1>2 DEF Fed1
  <2>2. /\ d.tail = b.tail /\ d.head = b.head /\ d.dir = b.dir /\ d.player = b.player
        /\ d.direction = b.direction /\ d.second = b.second /\ d.player = c.player
        /\ d.len = [b.len EXCEPT ![1] = b.len[1] + 1]
    BY <2>1 DEF Grown, Refreshed
  <2>3. d.len[1] = b.len[1] + 1
    BY <2>2 DEF Typed, Snakes
  <2>4. /\ d.fruit # NoSquare => d.fruit \in Listed
        /\ d.fruit = NoSquare => \A s \in Listed : d.player[s] # 0
    <3>1. Listed \subseteq Squares
      BY SquareAtIsSquare DEF Listed
    <3>2. QED
      BY <2>1, <2>2, <3>1, SquaresAre DEF Refreshed
  <2>5. TailsFollow(b, d, 1, {})
    BY <1>1, <1>2, <2>2, <2>3, <2>4 DEF TailsFollow
  <2>6. QED
    BY <2>5
<1>3. CASE b.head[1] # b.fruit
  <2>1. Retracted(b, d, 1)
    BY <1>3 DEF Fed1
  <2>2. d.tail[1] = Plus(b.tail[1], b.direction[b.tail[1]]) /\ d.len = b.len
    BY <2>1 DEF Retracted, Typed, Snakes
  <2>3. \A s \in Squares : IF s = b.tail[1] THEN d.player[s] = 0
                           ELSE d.player[s] = b.player[s] /\ d.direction[s] = b.direction[s]
    BY <2>1 DEF Retracted, Typed, Board
  <2>4. d.dir = b.dir /\ d.head = b.head /\ d.second = b.second /\ d.fruit = b.fruit
    BY <2>1 DEF Retracted
  <2>5. TailsFollow(b, d, 1, {1})
    BY <1>1, <2>2, <2>3, <2>4 DEF TailsFollow
  <2>6. QED
    BY <2>5
<1>4. QED
  BY <1>2, <1>3

LEMMA TwoAreFed ==
  ASSUME NEW b, NEW d, Typed(b, 2), \A q \in 1 .. 2 : b.tail[q] \in Squares,
         b.tail[1] # b.tail[2], Typed(d, 2), Fed2(b, d)
  PROVE  \E R : TailsFollow(b, d, 2, R)
<1>1. 1 .. 2 = {1, 2}
  OBVIOUS
<1>2. CASE b.head[1] = b.fruit \/ b.head[2] = b.fruit
  <2>1. PICK p \in {1, 2} : \E a, c : /\ b.head[p] = b.fruit
                                      /\ Typed(a, 2) /\ Grown(b, a, p)
                                      /\ Typed(c, 2) /\ Retracted(a, c, 3 - p)
                                      /\ Refreshed(c, d)
    BY <1>2 DEF Fed2
  <2> DEFINE q == 3 - p
  <2>2. q \in {1, 2} /\ {p, q} = {1, 2} /\ p # q
    BY <2>1
  <2>3. PICK a, c : /\ b.head[p] = b.fruit
                    /\ Typed(a, 2) /\ Grown(b, a, p)
                    /\ Typed(c, 2) /\ Retracted(a, c, q)
                    /\ Refreshed(c, d)
    BY <2>1
  <2> HIDE DEF q
  <2>4. /\ a.tail = b.tail /\ a.head = b.head /\ a.dir = b.dir /\ a.player = b.player
        /\ a.direction = b.direction /\ a.second = b.second
        /\ a.len = [b.len EXCEPT ![p] = b.len[p] + 1]
    BY <2>3 DEF Grown
  <2>5. /\ d.tail = [b.tail EXCEPT ![q] = Plus(b.tail[q], b.direction[b.tail[q]])]
        /\ d.player = [b.player EXCEPT ![b.tail[q]] = 0]
        /\ d.direction = [b.direction EXCEPT ![b.tail[q]] = Still]
        /\ d.head = b.head /\ d.dir = b.dir /\ d.second = b.second /\ d.player = c.player
        /\ d.len = a.len
    BY <2>3, <2>4 DEF Retracted, Refreshed
  <2>6. d.len[p] = b.len[p] + 1 /\ d.len[q] = b.len[q]
    BY <1>1, <2>2, <2>4, <2>5 DEF Typed, Snakes
  <2>7. d.tail[q] = Plus(b.tail[q], b.direction[b.tail[q]]) /\ d.tail[p] = b.tail[p]
    BY <1>1, <2>2, <2>5 DEF Typed, Snakes
  <2>8. \A s \in Squares : IF s = b.tail[q] THEN d.player[s] = 0
                           ELSE d.player[s] = b.player[s] /\ d.direction[s] = b.direction[s]
    BY <2>5 DEF Typed, Board
  <2>9. /\ d.fruit # NoSquare => d.fruit \in Listed
        /\ d.fruit = NoSquare => \A s \in Listed : d.player[s] # 0
    <3>1. Listed \subseteq Squares
      BY SquareAtIsSquare DEF Listed
    <3>2. QED
      BY <2>3, <2>5, <3>1, SquaresAre DEF Refreshed
  <2>10. TailsFollow(b, d, 2, {q})
    <3>1. /\ \A s \in Squares : (\E r \in {q} : s = b.tail[r]) <=> s = b.tail[q]
          /\ {q} \subseteq 1 .. 2 /\ {q} # 1 .. 2 /\ \E r \in 1 .. 2 : b.head[r] = b.fruit
      BY <1>1, <2>2, <2>3
    <3>2. \A r \in 1 .. 2 : (r \in {q} => r = q) /\ (r \notin {q} => r = p)
      BY <1>1, <2>2
    <3>3. QED
      BY <2>5, <2>6, <2>7, <2>8, <2>9, <3>1, <3>2 DEF TailsFollow
  <2>11. QED
    BY <2>10
<1>3. CASE ~(b.head[1] = b.fruit \/ b.head[2] = b.fruit)
  <2>1. PICK c : Typed(c, 2) /\ Retracted(b, c, 1) /\ Retracted(c, d, 2)
    BY <1>3 DEF Fed2
  <2>2. /\ c.tail[1] = Plus(b.tail[1], b.direction[b.tail[1]]) /\ c.tail[2] = b.tail[2]
        /\ c.direction[b.tail[2]] = b.direction[b.tail[2]]
    BY <1>1, <2>1 DEF Retracted, Typed, Snakes, Board
  <2>3. d.tail[1] = c.tail[1] /\ d.tail[2] = Plus(b.tail[2], b.direction[b.tail[2]])
    BY <1>1, <2>1, <2>2 DEF Retracted, Typed, Snakes, Board
  <2>4. \A s \in Squares : IF s = b.tail[1] \/ s = b.tail[2] THEN d.player[s] = 0
                           ELSE d.player[s] = b.player[s] /\ d.direction[s] = b.direction[s]
    <3>1. \A s \in Squares : IF s = b.tail[1] THEN c.player[s] = 0
                             ELSE c.player[s] = b.player[s] /\ c.direction[s] = b.direction[s]
      BY <2>1 DEF Retracted, Typed, Board
    <3>2. \A s \in Squares : IF s = b.tail[2] THEN d.player[s] = 0
                             ELSE d.player[s] = c.player[s] /\ d.direction[s] = c.direction[s]
      BY <2>1, <2>2 DEF Retracted, Typed, Board
    <3>3. QED
      BY <3>1, <3>2
  <2>5. /\ d.len = b.len /\ d.dir = b.dir /\ d.head = b.head /\ d.second = b.second
        /\ d.fruit = b.fruit
    BY <2>1 DEF Retracted
  <2>6. TailsFollow(b, d, 2, 1 .. 2)
    BY <1>1, <2>2, <2>3, <2>4, <2>5 DEF TailsFollow
  <2>7. QED
    BY <2>6
<1>4. QED
  BY <1>2, <1>3

\* The heads of d land one after the other.
Lands(d, h, n) ==
  IF n = 1 THEN Landed(d, h, 1)
  ELSE \E e : Typed(e, 2) /\ Landed(d, e, 1) /\ Landed(e, h, 2)

\* The head of q finds its square marked, or there is none.
Fatal(d, n, q) ==
  \/ d.head[q] \notin Squares
  \/ d.player[d.head[q]] # 0
  \/ n = 2 /\ q = 2 /\ d.head[2] = d.head[1]

LEMMA LandingMovesNothing ==
  ASSUME NEW d, NEW h, NEW n \in {1, 2}, Lands(d, h, n)
  PROVE  /\ h.head = d.head /\ h.tail = d.tail /\ h.dir = d.dir /\ h.len = d.len
         /\ h.direction = d.direction /\ h.fruit = d.fruit
<1>1. CASE n = 1
  BY <1>1 DEF Lands, Landed
<1>2. CASE n = 2
  <2>1. PICK e : Landed(d, e, 1) /\ Landed(e, h, 2)
    BY <1>2 DEF Lands
  <2>2. QED
    BY <2>1 DEF Landed
<1>3. QED
  BY <1>1, <1>2

\* Unless a head is on the square of gameNotOver: a crash of the first sets it,
\* one of the second sets gameNotOver2, and the heads are marked.
LEMMA LandingMarks ==
  ASSUME NEW d, NEW h, NEW n \in {1, 2}, Typed(d, n), Lands(d, h, n),
         \A q \in 1 .. n : d.head[q] # FlagSquare
  PROVE  /\ h.player[FlagSquare] = 0 <=> (d.player[FlagSquare] = 0 \/ Fatal(d, n, 1))
         /\ n = 2 => h.second = IF Fatal(d, n, 2) THEN 0 ELSE d.second
         /\ \A s \in Squares \ {FlagSquare} :
              h.player[s] = IF n = 2 /\ s = d.head[2] THEN 2
                            ELSE IF s = d.head[1] THEN 1 ELSE d.player[s]
<1>1. FlagSquare \in Squares
  BY SquaresAre
<1>2. ASSUME NEW e, Landed(d, e, 1)
      PROVE  /\ e.player[FlagSquare] = IF Crashes(d, 1) THEN 0 ELSE d.player[FlagSquare]
             /\ \A s \in Squares \ {FlagSquare} :
                  e.player[s] = IF s = d.head[1] THEN 1 ELSE d.player[s]
             /\ e.second = d.second /\ e.head = d.head
  <2> DEFINE m == IF Crashes(d, 1) THEN [d.player EXCEPT ![FlagSquare] = 0] ELSE d.player
  <2>1. d.player \in [Squares -> 0 .. n] /\ d.head[1] # FlagSquare
    BY DEF Typed, Board
  <2>2. /\ m \in [Squares -> 0 .. n]
        /\ m[FlagSquare] = IF Crashes(d, 1) THEN 0 ELSE d.player[FlagSquare]
        /\ \A s \in Squares \ {FlagSquare} : m[s] = d.player[s]
    BY <1>1, <2>1
  <2>3. /\ e.player = IF d.head[1] \in Squares THEN [m EXCEPT ![d.head[1]] = 1] ELSE m
        /\ e.second = d.second /\ e.head = d.head
    BY <1>2 DEF Landed
  <2> HIDE DEF m
  <2>4. QED
    BY <1>1, <2>1, <2>2, <2>3
<1>3. CASE n = 1
  <2>1. Landed(d, h, 1)
    BY <1>3 DEF Lands
  <2>2. Crashes(d, 1) <=> Fatal(d, n, 1)
    BY <1>3 DEF Crashes, Fatal
  <2>3. QED
    BY <1>2, <1>3, <2>1, <2>2
<1>4. CASE n = 2
  <2>1. PICK e : Typed(e, 2) /\ Landed(d, e, 1) /\ Landed(e, h, 2)
    BY <1>4 DEF Lands
  <2>2. Crashes(d, 1) <=> Fatal(d, n, 1)
    BY <1>4 DEF Crashes, Fatal
  <2>3. d.head[2] # FlagSquare /\ e.head = d.head
    BY <1>2, <1>4, <2>1
  <2>4. Crashes(e, 2) <=> Fatal(d, n, 2)
    <3>1. ASSUME d.head[2] \in Squares
          PROVE  e.player[d.head[2]] # 0 <=> (d.head[2] = d.head[1] \/ d.player[d.head[2]] # 0)
      BY <1>2, <2>1, <2>3, <3>1
    <3>2. QED
      BY <1>4, <2>3, <3>1 DEF Crashes, Fatal
  <2>5. /\ h.player = IF d.head[2] \in Squares THEN [e.player EXCEPT ![d.head[2]] = 2] ELSE e.player
        /\ h.second = IF Crashes(e, 2) THEN 0 ELSE e.second
    BY <2>1, <2>3 DEF Landed
  <2>6. e.player \in [Squares -> 0 .. 2]
    BY <2>1 DEF Typed, Board
  <2>7. h.player[FlagSquare] = e.player[FlagSquare]
    BY <1>1, <2>3, <2>5, <2>6
  <2>8. \A s \in Squares : h.player[s] = IF s = d.head[2] THEN 2 ELSE e.player[s]
    BY <2>5, <2>6
  <2>9. QED
    BY <1>2, <1>4, <2>1, <2>2, <2>4, <2>5, <2>7, <2>8
<1>5. QED
  BY <1>3, <1>4

-----------------------------------------------------------------------------
(***************************************************************************)
(* A move of whole snakes.                                                 *)
(***************************************************************************)

Whole(d, t, x, n, B) == \E w : Lies(w, d, t, x, n) /\ Covers(w, n, B)

\* Bodies, with the squares B[p] of each snake.
LaidOut(B) ==
  /\ \A p \in 1 .. gameMode : Whole(direction, tail[p], head[p], len[p], B[p])
  /\ \A p \in 1 .. gameMode, s \in Squares \ {FlagSquare} : player[s] = p <=> s \in B[p]
  /\ \A p, q \in 1 .. gameMode : p # q => B[p] \cap B[q] = {}

LEMMA BodiesAreLaidOut ==
  ASSUME IInv, Long, Bodies, gameMode \in {1, 2}
  PROVE  LaidOut([p \in 1 .. gameMode |-> Body(p)])
<1> DEFINE B == [p \in 1 .. gameMode |-> Body(p)]
<1>1. /\ direction \in [Squares -> Steps \cup {Still}]
      /\ tail \in [1 .. gameMode -> Around] /\ len \in [1 .. gameMode -> Nat]
  BY GameIs DEF GameFields, IInv, Typed, Board, Snakes
<1>2. ASSUME NEW p \in 1 .. gameMode
      PROVE  Whole(direction, tail[p], head[p], len[p], Body(p))
  <2>1. /\ At(p, len[p] - 1) = head[p]
        /\ Body(p) \subseteq Squares /\ Cardinality(Body(p)) = len[p]
    BY DEF Bodies
  <2>2. /\ Along(direction, tail[p], len[p] - 1) = head[p]
        /\ \A s : s \in Body(p) <=> \E k \in 0 .. len[p] - 1 : s = Along(direction, tail[p], k)
    BY <2>1, AtIsAlong DEF Body
  <2>3. tail[p] \in Points /\ len[p] \in Nat /\ len[p] >= 2
    BY <1>1 DEF Long, Around, Points
  <2>4. QED
    BY <1>1, <2>1, <2>2, <2>3, BodyLies DEF Whole
<1>3. ASSUME NEW p \in 1 .. gameMode, NEW s \in Squares \ {FlagSquare}
      PROVE  player[s] = p <=> s \in Body(p)
  <2>1. {x \in Squares : player[x] = p} \ {FlagSquare} = Body(p) \ {FlagSquare}
    BY DEF Bodies
  <2>2. QED
    BY <2>1
<1>4. ASSUME NEW p \in 1 .. gameMode, NEW q \in 1 .. gameMode, p # q
      PROVE  Body(p) \cap Body(q) = {}
  <2>1. gameMode = 2 /\ ((p = 1 /\ q = 2) \/ (p = 2 /\ q = 1))
    BY <1>4
  <2>2. Body(1) \cap Body(2) = {}
    BY <2>1 DEF Bodies
  <2>3. QED
    BY <2>1, <2>2
<1>5. \A p \in 1 .. gameMode : B[p] = Body(p)
  OBVIOUS
<1> HIDE DEF B
<1>6. LaidOut(B)
  BY <1>2, <1>3, <1>4, <1>5 DEF LaidOut
<1>7. QED
  BY <1>6 DEF B

SnakesLie == \E B : LaidOut(B)

\* And the other way round.
LEMMA LaidOutIsBodies == SnakesLie => Bodies
<1> SUFFICES ASSUME NEW B, LaidOut(B) PROVE Bodies
  BY DEF SnakesLie
<1>1. ASSUME NEW p \in 1 .. gameMode
      PROVE  /\ At(p, len[p] - 1) = head[p] /\ Body(p) = B[p]
             /\ B[p] \subseteq Squares /\ Cardinality(B[p]) = len[p]
  <2>1. PICK w : /\ Lies(w, direction, tail[p], head[p], len[p])
                 /\ Covers(w, len[p], B[p])
    BY DEF LaidOut, Whole
  <2>2. /\ Along(direction, tail[p], len[p] - 1) = head[p]
        /\ \A s : s \in B[p] <=> \E k \in 0 .. len[p] - 1 : s = Along(direction, tail[p], k)
        /\ B[p] \subseteq Squares /\ Cardinality(B[p]) = len[p]
    BY <2>1, LyingIsBody
  <2>3. \A s : s \in B[p] <=> s \in Body(p)
    BY <2>2, AtIsAlong DEF Body
  <2>4. B[p] = Body(p)
    BY <2>3
  <2>5. QED
    BY <2>2, <2>4, AtIsAlong
<1>2. ASSUME NEW p \in 1 .. gameMode
      PROVE  {s \in Squares : player[s] = p} \ {FlagSquare} = B[p] \ {FlagSquare}
  <2>1. \A s \in Squares \ {FlagSquare} : player[s] = p <=> s \in B[p]
    BY DEF LaidOut
  <2>2. QED
    BY <1>1, <2>1
<1>3. gameMode = 2 => B[1] \cap B[2] = {}
  BY DEF LaidOut
<1>4. QED
  <2>1. gameMode = 2 => Body(1) \cap Body(2) = {}
    BY <1>1, <1>3
  <2> DEFINE body == [p \in 1 .. gameMode |-> Body(p)]
  <2>2. \A p \in 1 .. gameMode : body[p] = Body(p)
    OBVIOUS
  <2>3. gameMode = 2 => body[1] \cap body[2] = {}
    BY <2>1
  <2> HIDE DEF body
  <2>4. \A p \in 1 .. gameMode :
          /\ At(p, len[p] - 1) = head[p]
          /\ body[p] \subseteq Squares /\ Cardinality(body[p]) = len[p]
          /\ {s \in Squares : player[s] = p} \ {FlagSquare} = body[p] \ {FlagSquare}
    BY <1>1, <1>2, <2>2
  <2>5. QED
    BY <2>3, <2>4 DEF Bodies, body

\* Where the ends of whole snakes lie.
LEMMA EndsApart ==
  ASSUME NEW B, LaidOut(B)
  PROVE  /\ \A p \in 1 .. gameMode :
              /\ head[p] \in Squares /\ tail[p] \in Squares
              /\ head[p] \in B[p] /\ tail[p] \in B[p]
              /\ Plus(tail[p], direction[tail[p]]) # tail[p]
         /\ \A p, q \in 1 .. gameMode : head[p] # tail[q]
         /\ \A p, q \in 1 .. gameMode : p # q => head[p] # head[q] /\ tail[p] # tail[q]
<1>1. ASSUME NEW p \in 1 .. gameMode
      PROVE  /\ head[p] \in Squares /\ tail[p] \in Squares /\ head[p] # tail[p]
             /\ head[p] \in B[p] /\ tail[p] \in B[p]
             /\ Plus(tail[p], direction[tail[p]]) # tail[p]
  <2>1. PICK w : /\ Lies(w, direction, tail[p], head[p], len[p])
                 /\ Covers(w, len[p], B[p])
    BY DEF LaidOut, Whole
  <2>2. QED
    BY <2>1, TailPointsOn DEF Covers
<1>2. \A p, q \in 1 .. gameMode : p # q => B[p] \cap B[q] = {}
  BY DEF LaidOut
<1>3. QED
  BY <1>1, <1>2

\* A move of whole snakes: d is the game when the tails have followed and the
\* heads have not landed, and R the snakes whose tails have.
Ticked(d, R) ==
  /\ R \subseteq 1 .. gameMode
  /\ \A q \in 1 .. gameMode :
       /\ d.head[q] = Plus(head[q], d.dir[q])
       /\ d.direction[head[q]] = d.dir[q]
       /\ IF q \in R
          THEN d.tail[q] = Plus(tail[q], direction[tail[q]]) /\ d.tail[q] # tail[q] /\ d.len[q] = len[q]
          ELSE d.tail[q] = tail[q] /\ d.len[q] = len[q] + 1
  /\ \A s \in Squares :
       (\A q \in 1 .. gameMode : s # head[q]) /\ (\A q \in R : s # tail[q])
       => d.direction[s] = direction[s]
  /\ \A s \in Squares \ {FlagSquare} :
       d.player[s] = IF \E q \in R : s = tail[q] THEN 0 ELSE player[s]
  /\ input[1] # "tab" /\ (\A q \in 1 .. gameMode : tail[q] # FlagSquare)
       => d.player[FlagSquare] = player[FlagSquare]
  /\ d.second = gameNotOver2
  /\ R = 1 .. gameMode => d.fruit = fruit
  /\ R # 1 .. gameMode => /\ \E q \in 1 .. gameMode : d.head[q] = fruit
                          /\ d.fruit # NoSquare => d.fruit \in Listed
                          /\ d.fruit = NoSquare => \A s \in Listed : d.player[s] # 0

\* The two halves of a move put together.
LEMMA HalvesMakeATick ==
  ASSUME NEW B, LaidOut(B), NEW b, NEW d, NEW R,
         HeadsMoved(Game, b, gameMode), TailsFollow(b, d, gameMode, R)
  PROVE  Ticked(d, R)
<1>1. /\ Game.player = player /\ Game.direction = direction /\ Game.head = head
      /\ Game.tail = tail /\ Game.len = len /\ Game.fruit = fruit /\ Game.second = gameNotOver2
  BY GameIs DEF GameFields
<1>2. /\ R \subseteq 1 .. gameMode /\ d.dir = b.dir /\ d.head = b.head /\ d.second = gameNotOver2
      /\ b.tail = tail /\ b.len = len /\ b.fruit = fruit
  BY <1>1 DEF HeadsMoved, TailsFollow
<1>3. \A q \in 1 .. gameMode : head[q] \in Squares /\ tail[q] \in Squares
  BY EndsApart
<1>4. ASSUME NEW s \in Squares
      PROVE  IF \E q \in R : s = tail[q] THEN d.player[s] = 0
             ELSE d.player[s] = b.player[s] /\ d.direction[s] = b.direction[s]
  BY <1>2 DEF TailsFollow
<1>5. ASSUME NEW q \in 1 .. gameMode
      PROVE  /\ d.head[q] = Plus(head[q], d.dir[q])
             /\ d.direction[head[q]] = d.dir[q]
             /\ IF q \in R
                THEN d.tail[q] = Plus(tail[q], direction[tail[q]]) /\ d.tail[q] # tail[q]
                     /\ d.len[q] = len[q]
                ELSE d.tail[q] = tail[q] /\ d.len[q] = len[q] + 1
  <2>1. d.head[q] = Plus(head[q], d.dir[q]) /\ b.direction[head[q]] = d.dir[q]
    BY <1>1, <1>2 DEF HeadsMoved
  <2>2. d.direction[head[q]] = b.direction[head[q]]
    <3>1. \A r \in R : head[q] # tail[r]
      BY <1>2, EndsApart
    <3>2. QED
      BY <1>3, <1>4, <3>1
  <2>3. b.direction[tail[q]] = direction[tail[q]]
    <3>1. \A r \in 1 .. gameMode : tail[q] # head[r]
      BY EndsApart
    <3>2. QED
      BY <1>1, <1>3, <3>1 DEF HeadsMoved
  <2>4. IF q \in R
        THEN d.tail[q] = Plus(tail[q], b.direction[tail[q]]) /\ d.len[q] = len[q]
        ELSE d.tail[q] = tail[q] /\ d.len[q] = len[q] + 1
    BY <1>2 DEF TailsFollow
  <2>5. Plus(tail[q], direction[tail[q]]) # tail[q]
    BY EndsApart
  <2>6. QED
    BY <2>1, <2>2, <2>3, <2>4, <2>5
<1>6. ASSUME NEW s \in Squares, \A q \in 1 .. gameMode : s # head[q], \A q \in R : s # tail[q]
      PROVE  d.direction[s] = direction[s]
  BY <1>1, <1>4, <1>6 DEF HeadsMoved
<1>7. ASSUME NEW s \in Squares \ {FlagSquare}
      PROVE  d.player[s] = IF \E q \in R : s = tail[q] THEN 0 ELSE player[s]
  BY <1>1, <1>4 DEF HeadsMoved
<1>8. ASSUME input[1] # "tab", \A q \in 1 .. gameMode : tail[q] # FlagSquare
      PROVE  d.player[FlagSquare] = player[FlagSquare]
  <2>1. ~ \E q \in R : FlagSquare = tail[q]
    BY <1>2, <1>8
  <2>2. d.player[FlagSquare] = b.player[FlagSquare]
    BY <1>4, <2>1, SquaresAre
  <2>3. QED
    BY <1>1, <1>8, <2>2 DEF HeadsMoved
<1>9. /\ R = 1 .. gameMode => d.fruit = fruit
      /\ R # 1 .. gameMode => /\ \E q \in 1 .. gameMode : d.head[q] = fruit
                              /\ d.fruit # NoSquare => d.fruit \in Listed
                              /\ d.fruit = NoSquare => \A s \in Listed : d.player[s] # 0
  BY <1>2 DEF TailsFollow
<1>10. QED
  BY <1>2, <1>5, <1>6, <1>7, <1>8, <1>9 DEF Ticked

\* The tick of whole snakes.
LEMMA MoveTicks ==
  ASSUME IInv, Move, NEW B, LaidOut(B)
  PROVE  \E d, h, R : /\ Ticked(d, R) /\ Typed(d, gameMode) /\ Lands(d, h, gameMode)
                      /\ Become(h)
                      /\ screen' = IF h.fruit = NoSquare THEN "overflow"
                                   ELSE IF Goes(h) THEN "playing" ELSE "over"
<1> DEFINE h == IF gameMode = 1 THEN Step1(Game) ELSE Step2(Game)
<1>1. /\ gameMode \in {1, 2} /\ Become(h)
      /\ gameMode = 1 => Tick1(Game, h)
      /\ gameMode = 2 => Tick2(Game, h)
  BY MoveTyped
<1>2. screen' = IF h.fruit = NoSquare THEN "overflow"
                ELSE IF Goes(h) THEN "playing" ELSE "over"
  BY DEF Move
<1> HIDE DEF h
<1>3. /\ Typed(Game, gameMode) /\ Game.head = head /\ Game.tail = tail
      /\ gameMode = 2 => input[2] # "tab"
  BY GameIs DEF GameFields, IInv, Move
<1>4. /\ \A q \in 1 .. gameMode : head[q] \in Squares /\ tail[q] \in Squares
      /\ \A p, q \in 1 .. gameMode : p # q => head[p] # head[q] /\ tail[p] # tail[q]
  BY EndsApart
<1>5. CASE gameMode = 1
  <2>1. PICK a, b, d :
          /\ Typed(a, 1) /\ Steered(Game, a, 1) /\ Typed(b, 1) /\ Advanced(a, b, 1)
          /\ Typed(d, 1) /\ Fed1(b, d) /\ Landed(d, h, 1)
    BY <1>1, <1>5 DEF Tick1
  <2>2. HeadsMoved(Game, b, 1)
    BY <1>3, <1>4, <1>5, <2>1, OneHeadMoves
  <2>3. b.tail[1] \in Squares
    BY <1>3, <1>4, <1>5, <2>2 DEF HeadsMoved
  <2>4. PICK R : TailsFollow(b, d, 1, R)
    BY <2>1, <2>3, OneIsFed
  <2>5. Ticked(d, R)
    BY <1>5, <2>2, <2>4, HalvesMakeATick
  <2>6. Lands(d, h, 1)
    BY <2>1 DEF Lands
  <2>7. QED
    BY <1>1, <1>2, <1>5, <2>1, <2>5, <2>6
<1>6. CASE gameMode = 2
  <2>1. PICK a, s, m, b, d, e :
          /\ Typed(a, 2) /\ Steered(Game, a, 1) /\ Typed(s, 2) /\ Steered(a, s, 2)
          /\ Typed(m, 2) /\ Advanced(s, m, 1) /\ Typed(b, 2) /\ Advanced(m, b, 2)
          /\ Typed(d, 2) /\ Fed2(b, d) /\ Typed(e, 2) /\ Landed(d, e, 1) /\ Landed(e, h, 2)
    BY <1>1, <1>6 DEF Tick2
  <2>2. /\ 1 \in 1 .. gameMode /\ 2 \in 1 .. gameMode /\ 1 # 2
        /\ \A q \in 1 .. 2 : Game.head[q] \in Squares /\ Game.tail[q] \in Squares
        /\ Game.head[1] # Game.head[2] /\ Game.tail[1] # Game.tail[2]
    BY <1>3, <1>4, <1>6
  <2>3. HeadsMoved(Game, b, 2)
    BY <1>3, <1>6, <2>1, <2>2, TwoHeadsMove
  <2>4. b.tail = Game.tail
    BY <2>3 DEF HeadsMoved
  <2>5. PICK R : TailsFollow(b, d, 2, R)
    BY <2>1, <2>2, <2>4, TwoAreFed
  <2>6. Ticked(d, R)
    BY <1>6, <2>3, <2>5, HalvesMakeATick
  <2>7. Lands(d, h, 2)
    BY <2>1 DEF Lands
  <2>8. QED
    BY <1>1, <1>2, <1>6, <2>1, <2>6, <2>7
<1>7. QED
  BY <1>1, <1>5, <1>6

\* When the tails have followed, the squares marked are those that the bodies
\* keep.
LEMMA MarkedIsKept ==
  ASSUME IInv, NEW B, LaidOut(B), NEW d, NEW R, Ticked(d, R), NEW s \in Squares \ {FlagSquare}
  PROVE  /\ \A p \in 1 .. gameMode :
              d.player[s] = p <=> s \in B[p] /\ ~(p \in R /\ s = tail[p])
         /\ d.player[s] # 0 <=> \E q \in 1 .. gameMode : s \in B[q] \ ({tail[q]} \ {d.tail[q]})
<1>1. player[s] \in 0 .. gameMode /\ gameMode \in Nat
  BY GameIs DEF GameFields, IInv, Typed, Board
<1>2. \A p \in 1 .. gameMode : player[s] = p <=> s \in B[p]
  BY DEF LaidOut
<1>3. \A p, q \in 1 .. gameMode : s \in B[p] /\ s = tail[q] => p = q
  <2> SUFFICES ASSUME NEW p \in 1 .. gameMode, NEW q \in 1 .. gameMode,
                      s \in B[p], s = tail[q]
               PROVE  p = q
    OBVIOUS
  <2>1. s \in B[q]
    BY EndsApart
  <2>2. QED
    BY <1>2, <2>1
<1>4. d.player[s] = IF \E q \in R : s = tail[q] THEN 0 ELSE player[s]
  BY DEF Ticked
<1>5. R \subseteq 1 .. gameMode
  BY DEF Ticked
<1>6. ASSUME NEW p \in 1 .. gameMode
      PROVE  d.player[s] = p <=> s \in B[p] /\ ~(p \in R /\ s = tail[p])
  <2>1. p # 0
    OBVIOUS
  <2>2. CASE \E q \in R : s = tail[q]
    <3>1. PICK q \in R : s = tail[q]
      BY <2>2
    <3>2. d.player[s] = 0
      BY <1>4, <2>2
    <3>3. s \in B[p] => p = q
      BY <1>3, <1>5, <3>1
    <3>4. QED
      BY <2>1, <3>1, <3>2, <3>3
  <2>3. CASE ~ \E q \in R : s = tail[q]
    BY <1>2, <1>4, <2>3
  <2>4. QED
    BY <2>2, <2>3
<1>7. \A q \in 1 .. gameMode : q \in R <=> tail[q] # d.tail[q]
  BY DEF Ticked
<1>8. \A q \in 1 .. gameMode :
        s \in B[q] \ ({tail[q]} \ {d.tail[q]}) <=> s \in B[q] /\ ~(q \in R /\ s = tail[q])
  BY <1>7
<1>9. d.player[s] # 0 <=> \E q \in 1 .. gameMode : d.player[s] = q
  <2>1. d.player[s] \in 0 .. gameMode
    BY <1>1, <1>4
  <2>2. QED
    BY <1>1, <2>1
<1>10. QED
  BY <1>6, <1>8, <1>9

\* The snakes after a move in which no head finds its square marked.
LEMMA StayLaidOut ==
  ASSUME IInv, gameMode \in {1, 2}, NEW B, LaidOut(B), NEW d, NEW R, Ticked(d, R), NEW h,
         h.head = d.head, h.tail = d.tail, h.len = d.len, h.direction = d.direction,
         \A q \in 1 .. gameMode : ~Fatal(d, gameMode, q) /\ d.head[q] # FlagSquare,
         \A s \in Squares \ {FlagSquare} :
              h.player[s] = IF gameMode = 2 /\ s = d.head[2] THEN 2
                            ELSE IF s = d.head[1] THEN 1 ELSE d.player[s],
         Become(h), gameMode' = gameMode
  PROVE  \E C : LaidOut(C)'
<1>0. PICK C : C = [p \in 1 .. gameMode |-> (IF p \in R THEN B[p] \ {tail[p]} ELSE B[p])
                                            \cup {d.head[p]}]
  OBVIOUS
<1>1. /\ R \subseteq 1 .. gameMode
      /\ player' = h.player /\ direction' = d.direction /\ head' = d.head
      /\ tail' = d.tail /\ len' = d.len
  BY DEF Become, Ticked
<1>2. ASSUME NEW p \in 1 .. gameMode
      PROVE  /\ d.head[p] \in Squares \ {FlagSquare}
             /\ d.player[d.head[p]] = 0
             /\ \A q \in 1 .. gameMode : d.head[p] \in B[q] => q \in R /\ d.head[p] = tail[q]
  <2>1. d.head[p] \in Squares \ {FlagSquare} /\ d.player[d.head[p]] = 0
    BY DEF Fatal
  <2>2. \A q \in 1 .. gameMode : q # 0
    OBVIOUS
  <2>3. QED
    BY <2>1, <2>2, MarkedIsKept
<1>3. \A p, q \in 1 .. gameMode : p # q => d.head[p] # d.head[q]
  <2>1. gameMode = 2 => d.head[2] # d.head[1]
    BY DEF Fatal
  <2>2. QED
    BY <2>1
<1>4. \A p, q \in 1 .. gameMode : p # q => ~ \E s : s \in B[p] /\ s \in B[q]
  BY DEF LaidOut
<1>5. /\ \A p \in 1 .. gameMode : C[p] = (IF p \in R THEN B[p] \ {tail[p]} ELSE B[p])
                                         \cup {d.head[p]}
      /\ \A p \in 1 .. gameMode : tail[p] \in B[p] /\ head[p] \in B[p]
  BY <1>0, EndsApart
<1>6. ASSUME NEW p \in 1 .. gameMode
      PROVE  Whole(d.direction, d.tail[p], d.head[p], d.len[p], C[p])
  <2>1. PICK w : Lies(w, direction, tail[p], head[p], len[p]) /\ Covers(w, len[p], B[p])
    BY DEF LaidOut, Whole
  <2>2. /\ d.head[p] \in Squares /\ d.head[p] = Plus(head[p], d.direction[head[p]])
    BY <1>2 DEF Ticked
  <2>3. ASSUME NEW s \in B[p], s # head[p], p \in R => s # tail[p]
        PROVE  d.direction[s] = direction[s]
    <3>1. s \in Squares
      BY <2>1, LyingIsBody
    <3>2. \A q \in 1 .. gameMode : s # head[q]
      BY <1>4, <1>5, <2>3
    <3>3. \A q \in R : s # tail[q]
      BY <1>1, <1>4, <1>5, <2>3
    <3>4. QED
      BY <3>1, <3>2, <3>3 DEF Ticked
  <2>4. CASE p \in R
    <3>1. d.head[p] \in B[p] => d.head[p] = tail[p]
      BY <1>1, <1>2, <1>4, <1>5
    <3>2. PICK u : /\ Lies(u, d.direction, Plus(tail[p], direction[tail[p]]), d.head[p], len[p])
                   /\ Covers(u, len[p], (B[p] \ {tail[p]}) \cup {d.head[p]})
      BY <2>1, <2>2, <2>3, <2>4, <3>1, MovesOn
    <3>3. d.tail[p] = Plus(tail[p], direction[tail[p]]) /\ d.len[p] = len[p]
      BY <2>4 DEF Ticked
    <3>4. QED
      BY <1>5, <2>4, <3>2, <3>3 DEF Whole
  <2>5. CASE p \notin R
    <3>1. d.head[p] \notin B[p]
      BY <1>2, <2>5
    <3>2. PICK u : /\ Lies(u, d.direction, tail[p], d.head[p], len[p] + 1)
                   /\ Covers(u, len[p] + 1, B[p] \cup {d.head[p]})
      BY <2>1, <2>2, <2>3, <2>5, <3>1, GrowsOn
    <3>3. d.tail[p] = tail[p] /\ d.len[p] = len[p] + 1
      BY <2>5 DEF Ticked
    <3>4. QED
      BY <1>5, <2>5, <3>2, <3>3 DEF Whole
  <2>6. QED
    BY <2>4, <2>5
<1>7. ASSUME NEW p \in 1 .. gameMode, NEW q \in 1 .. gameMode, p # q, NEW s,
             s \in C[p], s \in C[q]
      PROVE  FALSE
  <2>1. CASE s = d.head[p]
    <3>1. s # d.head[q]
      BY <1>3, <1>7, <2>1
    <3>2. s \in B[q] /\ ~(q \in R /\ s = tail[q])
      BY <1>5, <1>7, <3>1
    <3>3. QED
      BY <1>2, <2>1, <3>2
  <2>2. CASE s = d.head[q]
    <3>1. s # d.head[p]
      BY <1>3, <1>7, <2>2
    <3>2. s \in B[p] /\ ~(p \in R /\ s = tail[p])
      BY <1>5, <1>7, <3>1
    <3>3. QED
      BY <1>2, <2>2, <3>2
  <2>3. CASE s # d.head[p] /\ s # d.head[q]
    BY <1>4, <1>5, <1>7, <2>3
  <2>4. QED
    BY <2>1, <2>2, <2>3
<1>8. ASSUME NEW p \in 1 .. gameMode, NEW s \in Squares \ {FlagSquare}
      PROVE  h.player[s] = p <=> s \in C[p]
  <2>1. CASE \E q \in 1 .. gameMode : s = d.head[q]
    <3>1. PICK q \in 1 .. gameMode : s = d.head[q]
      BY <2>1
    <3>2. h.player[s] = q
      BY <1>3, <3>1
    <3>3. s \in C[q]
      BY <1>5, <3>1
    <3>4. s \in C[p] => p = q
      BY <1>7, <3>3
    <3>5. QED
      BY <3>2, <3>3, <3>4
  <2>2. CASE \A q \in 1 .. gameMode : s # d.head[q]
    <3>1. h.player[s] = d.player[s]
      BY <2>2
    <3>2. d.player[s] = p <=> s \in B[p] /\ ~(p \in R /\ s = tail[p])
      BY MarkedIsKept
    <3>3. s \in C[p] <=> s \in B[p] /\ ~(p \in R /\ s = tail[p])
      BY <1>5, <2>2
    <3>4. QED
      BY <3>1, <3>2, <3>3
  <2>3. QED
    BY <2>1, <2>2
<1>9. \A p, q \in 1 .. gameMode : p # q => C[p] \cap C[q] = {}
  BY <1>7
<1>10. LaidOut(C)'
  BY <1>1, <1>6, <1>8, <1>9 DEF LaidOut
<1>11. QED
  BY <1>10

\* A step of a game in which the heads move, or which ends without a fruit, is
\* a move.
LEMMA OnlyMoves ==
  ASSUME Next, screen = "playing", head' # head \/ screen' = "overflow"
  PROVE  Move
BY DEF Next, SNAKE, startGame, Key, Leave

LEMMA BodiesStay ==
  ASSUME IInv, Move, Bodies, screen' = "playing",
         \A p \in 1 .. gameMode : head'[p] # FlagSquare
  PROVE  Bodies'
<1>1. gameMode \in {1, 2} /\ gameMode' = gameMode /\ Long
  BY DEF IInv, Move
<1>2. PICK B : LaidOut(B)
  BY <1>1, BodiesAreLaidOut
<1>3. PICK d, h, R :
        /\ Ticked(d, R) /\ Typed(d, gameMode) /\ Lands(d, h, gameMode) /\ Become(h)
        /\ screen' = IF h.fruit = NoSquare THEN "overflow"
                     ELSE IF Goes(h) THEN "playing" ELSE "over"
  BY <1>2, MoveTicks
<1>4. /\ h.head = d.head /\ h.tail = d.tail /\ h.len = d.len /\ h.direction = d.direction
      /\ head' = d.head
  BY <1>1, <1>3, LandingMovesNothing DEF Become
<1>5. h.player[FlagSquare] # 0 /\ (gameMode = 2 => h.second # 0)
  BY <1>3 DEF Goes
<1>6. \A p \in 1 .. gameMode : d.head[p] # FlagSquare
  BY <1>4
<1>7. /\ ~Fatal(d, gameMode, 1) /\ (gameMode = 2 => ~Fatal(d, gameMode, 2))
      /\ \A s \in Squares \ {FlagSquare} :
           h.player[s] = IF gameMode = 2 /\ s = d.head[2] THEN 2
                         ELSE IF s = d.head[1] THEN 1 ELSE d.player[s]
  BY <1>1, <1>3, <1>5, <1>6, LandingMarks
<1>8. \A p \in 1 .. gameMode : ~Fatal(d, gameMode, p)
  BY <1>1, <1>7
<1>9. \E C : LaidOut(C)'
  BY <1>1, <1>2, <1>3, <1>4, <1>6, <1>7, <1>8, StayLaidOut
<1>10. SnakesLie' => Bodies'
  BY LaidOutIsBodies, PTL
<1>11. QED
  BY <1>9, <1>10 DEF SnakesLie

\* As long as nobody crashes and no head enters the square of gameNotOver, the
\* directions lead from each tail to its head and the marks are the bodies'.
THEOREM BodiesAreKept == Spec => BodiesKept
<1>1. IInv /\ [Next]_vars
        => [screen = "playing" /\ head' # head /\ screen' = "playing" /\ Bodies
              /\ (\A p \in 1 .. gameMode : head'[p] # FlagSquare)
            => Bodies']_vars
  BY OnlyMoves, BodiesStay
<1>2. QED
  BY <1>1, InductiveInvariant, PTL DEF Spec, BodiesKept

LEMMA CrashesDecide ==
  ASSUME IInv, Move, Bodies, input[1] # "tab", screen' # "overflow",
         \A p \in 1 .. gameMode : head'[p] # FlagSquare /\ tail[p] # FlagSquare
  PROVE  LET crashed == {p \in 1 .. gameMode : Crash(p)}
         IN /\ screen' = "over" <=> crashed # {}
            /\ gameMode = 2 /\ Cardinality(crashed) = 1 => Winner' \notin crashed
<1> DEFINE Loses(p) == \/ head'[p] \notin Squares
                       \/ \E q \in 1 .. gameMode : head'[p] \in Body(q) \ ({tail[q]} \ {tail'[q]})
           meet == gameMode = 2 /\ head'[1] = head'[2]
           crashed == {p \in 1 .. gameMode : Crash(p)}
<1>1. /\ gameMode \in {1, 2} /\ player[FlagSquare] # 0 /\ (gameMode = 2 => gameNotOver2 # 0)
      /\ Long
  BY DEF IInv, Move
<1>2. PICK B : B = [p \in 1 .. gameMode |-> Body(p)]
  OBVIOUS
<1>3. LaidOut(B) /\ \A q \in 1 .. gameMode : B[q] = Body(q)
  BY <1>1, <1>2, BodiesAreLaidOut
<1>4. PICK d, h, R :
        /\ Ticked(d, R) /\ Typed(d, gameMode) /\ Lands(d, h, gameMode) /\ Become(h)
        /\ screen' = IF h.fruit = NoSquare THEN "overflow"
                     ELSE IF Goes(h) THEN "playing" ELSE "over"
  BY <1>3, MoveTicks
<1>5. /\ head' = d.head /\ tail' = d.tail
      /\ player'[FlagSquare] = h.player[FlagSquare] /\ gameNotOver2' = h.second
  BY <1>1, <1>4, LandingMovesNothing DEF Become
<1>6. d.player[FlagSquare] # 0 /\ (gameMode = 2 => d.second # 0)
  BY <1>1, <1>4 DEF Ticked
<1>7. /\ player'[FlagSquare] = 0 <=> Fatal(d, gameMode, 1)
      /\ gameMode = 2 => (gameNotOver2' = 0 <=> Fatal(d, gameMode, 2))
  <2>1. \A q \in 1 .. gameMode : d.head[q] # FlagSquare
    BY <1>5
  <2>2. /\ h.player[FlagSquare] = 0 <=> (d.player[FlagSquare] = 0 \/ Fatal(d, gameMode, 1))
        /\ gameMode = 2 => h.second = IF Fatal(d, gameMode, 2) THEN 0 ELSE d.second
    BY <1>1, <1>4, <2>1, LandingMarks
  <2>3. QED
    BY <1>5, <1>6, <2>2
<1>8. ASSUME NEW p \in 1 .. gameMode
      PROVE  Loses(p) <=> d.head[p] \notin Squares \/ d.player[d.head[p]] # 0
  <2>1. CASE d.head[p] \in Squares
    <3>1. d.head[p] \in Squares \ {FlagSquare}
      BY <1>5, <2>1
    <3>2. d.player[d.head[p]] # 0
            <=> \E q \in 1 .. gameMode : d.head[p] \in B[q] \ ({tail[q]} \ {d.tail[q]})
      BY <1>3, <1>4, <3>1, MarkedIsKept
    <3>3. QED
      BY <1>3, <1>5, <2>1, <3>2
  <2>2. QED
    BY <1>5, <2>1
<1>9. \A p \in 1 .. gameMode : Crash(p) <=> Loses(p) \/ meet
  BY DEF Crash
<1> HIDE DEF Loses, meet
<1>10. 1 \in 1 .. gameMode /\ (gameMode = 2 => 2 \in 1 .. gameMode)
  BY <1>1
<1>11. Fatal(d, gameMode, 1) <=> Loses(1)
  BY <1>8, <1>10 DEF Fatal
<1>12. gameMode = 2 => (Fatal(d, gameMode, 2) <=> Loses(2) \/ meet)
  <2>1. gameMode = 2 => (meet <=> d.head[2] = d.head[1])
    BY <1>5 DEF meet
  <2>2. QED
    BY <1>8, <1>10, <2>1 DEF Fatal
<1>13. meet => gameMode = 2
  BY DEF meet
<1>14. screen' = "over" <=> Loses(1) \/ (gameMode = 2 /\ (Loses(2) \/ meet))
  <2>1. screen' = "over" <=> ~Goes(h)
    BY <1>4
  <2>2. Goes(h) <=> player'[FlagSquare] # 0 /\ (gameMode = 2 => gameNotOver2' # 0)
    BY <1>5 DEF Goes
  <2>3. QED
    BY <1>7, <1>11, <1>12, <2>1, <2>2
<1>15. \A p \in 1 .. gameMode : p \in crashed <=> Loses(p) \/ meet
  BY <1>9
<1>16. \A p \in crashed : p = 1 \/ (gameMode = 2 /\ p = 2)
  BY <1>1
<1> HIDE DEF crashed
<1>17. screen' = "over" <=> crashed # {}
  <2>1. crashed # {} <=> 1 \in crashed \/ (gameMode = 2 /\ 2 \in crashed)
    BY <1>16
  <2>2. QED
    BY <1>10, <1>13, <1>14, <1>15, <2>1
<1>18. ASSUME gameMode = 2, Cardinality(crashed) = 1
       PROVE  Winner' \notin crashed
  <2>1. IsFiniteSet(crashed)
    <3>1. IsFiniteSet(1 .. gameMode)
      BY <1>1, FS_Interval
    <3>2. crashed \subseteq 1 .. gameMode
      BY DEF crashed
    <3>3. QED
      BY <3>1, <3>2, FS_Subset
  <2>2. PICK x : crashed = {x}
    BY <1>18, <2>1, FS_Singleton
  <2>3. Winner' = IF gameNotOver2' = 0 THEN 1 ELSE IF player'[FlagSquare] = 0 THEN 2 ELSE 0
    BY SquaresAre DEF Winner, gameNotOver, FlagSquare
  <2>4. ~(1 \in crashed /\ 2 \in crashed)
    BY <2>2
  <2>5. ~meet
    BY <1>10, <1>15, <1>18, <2>4
  <2>6. /\ gameNotOver2' = 0 <=> 2 \in crashed
        /\ player'[FlagSquare] = 0 <=> 1 \in crashed
    BY <1>7, <1>10, <1>11, <1>12, <1>15, <1>18, <2>5
  <2>7. 0 \notin crashed
    BY <1>16
  <2>8. QED
    BY <2>3, <2>4, <2>6, <2>7
<1>19. QED
  BY <1>17, <1>18 DEF crashed

\* A game ends when, and only when, a snake crashes, and if one of two does the
\* other wins, on boards of any size and with snakes of any length.
THEOREM ACrashDecides == Spec => CrashDecides
<1>1. IInv /\ [Next]_vars
        => [screen = "playing" /\ head' # head /\ input[1] # "tab"
              /\ screen' # "overflow" /\ Bodies
              /\ (\A p \in 1 .. gameMode : head'[p] # FlagSquare /\ tail[p] # FlagSquare)
            => LET crashed == {p \in 1 .. gameMode : Crash(p)}
               IN /\ screen' = "over" <=> crashed # {}
                  /\ gameMode = 2 /\ Cardinality(crashed) = 1 => Winner' \notin crashed]_vars
  BY OnlyMoves, CrashesDecide
<1>2. QED
  BY <1>1, InductiveInvariant, PTL DEF Spec, CrashDecides

LEMMA SnakesFindFruit ==
  ASSUME IInv, Move, Bodies, screen' = "overflow", fruit \in Listed,
         FlagSquare \notin Listed
  PROVE  \E p \in 1 .. gameMode : Crash(p)
<1>1. gameMode \in {1, 2} /\ Long
  BY DEF IInv, Move
<1>2. PICK B : B = [p \in 1 .. gameMode |-> Body(p)]
  OBVIOUS
<1>3. LaidOut(B) /\ \A q \in 1 .. gameMode : B[q] = Body(q)
  BY <1>1, <1>2, BodiesAreLaidOut
<1>4. PICK d, h, R :
        /\ Ticked(d, R) /\ Lands(d, h, gameMode) /\ Become(h)
        /\ screen' = IF h.fruit = NoSquare THEN "overflow"
                     ELSE IF Goes(h) THEN "playing" ELSE "over"
  BY <1>3, MoveTicks
<1>5. head' = d.head /\ tail' = d.tail /\ h.fruit = d.fruit
  BY <1>1, <1>4, LandingMovesNothing DEF Become
<1>6. Listed \subseteq Squares /\ NoSquare \notin Listed
  BY SquareAtIsSquare, SquaresAre DEF Listed
<1>7. d.fruit = NoSquare
  BY <1>4, <1>5
<1>8. R # 1 .. gameMode
  BY <1>4, <1>6, <1>7 DEF Ticked
<1>9. PICK p \in 1 .. gameMode : d.head[p] = fruit
  BY <1>4, <1>8 DEF Ticked
<1>10. d.head[p] \in Squares \ {FlagSquare} /\ d.player[d.head[p]] # 0
  BY <1>4, <1>6, <1>7, <1>8, <1>9 DEF Ticked
<1>11. \E q \in 1 .. gameMode : d.head[p] \in B[q] \ ({tail[q]} \ {d.tail[q]})
  BY <1>3, <1>4, <1>10, MarkedIsKept
<1>12. Crash(p)
  BY <1>3, <1>5, <1>11 DEF Crash
<1>13. QED
  BY <1>12

\* The search for the next fruit ends, whatever the list and however full the
\* board, unless a snake has crashed.  The hypothesis is true of the list of
\* snakeApp.c:11-17: the number of that square, 20, is not in it, and the index
\* 50 reads the number 50.  (A list of that square alone, which is marked when
\* a game starts, would have no first fruit.)
THEOREM AFruitIsFound ==
  ASSUME FlagSquare \notin Listed
  PROVE  Spec => FruitFound
<1>1. IInv /\ [Next]_vars
        => [screen = "playing" /\ screen' = "overflow" /\ Bodies
            => \E p \in 1 .. gameMode : Crash(p)]_vars
  BY OnlyMoves, SnakesFindFruit DEF IInv
<1>2. QED
  BY <1>1, InductiveInvariant, PTL DEF Spec, FruitFound

=============================================================================
