-------------------------------- MODULE Snake --------------------------------
(***************************************************************************)
(* The game of c/snakeApp.c, for one player or two.                        *)
(*                                                                         *)
(* The board is Width x Height squares.  Each square of a snake holds the  *)
(* direction to the next, from the tail to the head.  The grid is declared *)
(* [20][28] and indexed [x][y] with x up to 27: its columns from           *)
(* DeclaredColumns on lie in the memory after it.  There the compiler puts *)
(* gameNotOver, so that the mark of the square (DeclaredColumns, 0) is     *)
(* gameNotOver; what follows is used by nothing else during a game.        *)
(* Likewise the word after pseudoRand[] is randIndex.                      *)
(***************************************************************************)
EXTENDS Integers, FiniteSets, Sequences

CONSTANTS
  Width, Height,     \* 28 and 20
  DeclaredColumns,   \* 20
  StartHead,         \* the head of each player's snake at the start
  RandQty,           \* 50
  pseudoRand,        \* numbers of squares
  MaxLen             \* bound on the length of a snake, alone and with another

Players == {1, 2}
Squares == (0 .. Width - 1) \X (0 .. Height - 1)
FlagSquare == <<DeclaredColumns, 0>>
NoSquare == <<-1, -1>>

\* The keys A, D, W, S and J, L, I, K.
Vector == [left |-> <<-1, 0>>, right |-> <<1, 0>>, up |-> <<0, -1>>, down |-> <<0, 1>>]
Turns == {"left", "right", "up", "down"}
Still == <<0, 0>>
Plus(a, b) == <<a[1] + b[1], a[2] + b[2]>>

\* Where a snake goes at first, and its squares: three in a row behind the head.
Heading(p) == IF p = 1 THEN Vector.right ELSE Vector.left
StartSquare(p, k) == <<StartHead[p][1] - k * Heading(p)[1], StartHead[p][2]>>

ASSUME SnakeAssumption ==
  /\ Width \in Nat \ {0} /\ Height \in Nat \ {0} /\ DeclaredColumns \in 1 .. Width - 1
  /\ RandQty \in 1 .. Width * Height - 1
  /\ pseudoRand \in [0 .. RandQty - 1 -> 0 .. Width * Height - 1]
  /\ StartHead \in [Players -> Squares]
  /\ \A p \in Players : StartSquare(p, 2) \in Squares
  /\ MaxLen \in [Players -> Nat]

VARIABLES
  screen,        \* what the program shows and waits for
  gameMode,      \* players in the game
  player,        \* the mark of each square, 0 if it is free
  direction,     \* nextDirectionX, nextDirectionY of each square
  head, tail, dir, len,   \* headCoord, tailCoord, dirX and dirY, playerLen
  fruit, randIndex,
  gameNotOver2,
  input          \* the last key of each player

vars == <<screen, gameMode, player, direction, head, tail, dir, len, fruit,
          randIndex, gameNotOver2, input>>

gameNotOver == player[FlagSquare]

\* What the engine changes in one tick, as a record, and back.  The variables of
\* a player are there while he is in the game.
Game ==
  [player |-> player, direction |-> direction, head |-> head, tail |-> tail,
   dir |-> dir, len |-> len, fruit |-> fruit, rand |-> randIndex,
   second |-> gameNotOver2]

Become(g) ==
  /\ player' = g.player /\ direction' = g.direction
  /\ head' = g.head     /\ tail' = g.tail
  /\ dir' = g.dir       /\ len' = g.len
  /\ fruit' = g.fruit   /\ randIndex' = g.rand
  /\ gameNotOver2' = g.second

\* Between two games only randIndex is kept: the rest is set before it is read.
NoGame(rand) ==
  [player |-> [s \in Squares |-> 0], direction |-> [s \in Squares |-> Still],
   head |-> <<>>, tail |-> <<>>, dir |-> <<>>, len |-> <<>>, fruit |-> NoSquare,
   rand |-> rand, second |-> 0]

Init ==
  /\ screen = "shell"
  /\ gameMode = 0
  /\ player = [s \in Squares |-> 0]
  /\ direction = [s \in Squares |-> Still]
  /\ head = <<>> /\ tail = <<>> /\ dir = <<>> /\ len = <<>>
  /\ fruit = NoSquare
  /\ randIndex = 1
  /\ gameNotOver2 = 0
  /\ input = <<>>

-----------------------------------------------------------------------------
\* The number read at an index, which runs one past the end of the array.
NumberAt(i) == IF i < RandQty THEN pseudoRand[i] ELSE i
SquareAt(i) == <<NumberAt(i) % Width, NumberAt(i) \div Width>>

\* Mutant: the index goes on after the end.
resetFruit_noWrap(g) ==
  [g EXCEPT !.fruit = SquareAt(g.rand), !.rand = @ + 1]

\* resetFruit() calls itself until the square is free; if none of the list is
\* free, until the stack is exhausted.
resetFruit(g) ==
  LET Index(k) == (g.rand + k) % (RandQty + 1)
      Free(k) == g.player[SquareAt(Index(k))] = 0
  IN IF \A k \in 0 .. RandQty : ~Free(k)
     THEN [g EXCEPT !.fruit = NoSquare]
     ELSE LET k == CHOOSE k \in 0 .. RandQty : Free(k) /\ \A j \in 0 .. k - 1 : ~Free(j)
          IN [g EXCEPT !.fruit = SquareAt(Index(k)), !.rand = Index(k + 1)]

\* loadp1(), loadp2(): three squares in a row, the first heading right and the
\* second left.
Load(g, p) ==
  LET v == Heading(p)
      second == StartSquare(p, 1)
      last == StartSquare(p, 2)
  IN [g EXCEPT !.len = Append(@, 3), !.head = Append(@, StartHead[p]),
               !.dir = Append(@, v), !.tail = Append(@, last),
               !.player[StartHead[p]] = p, !.player[second] = p, !.player[last] = p,
               !.direction[second] = v, !.direction[last] = v]

\* gameNotOver = 0, gameNotOver2 = 0.
EndGame(g, p) ==
  IF p = 1 THEN [g EXCEPT !.player[FlagSquare] = 0] ELSE [g EXCEPT !.second = 0]

\* Mutant: a key turns the snake whatever its direction.
interpretInput_any(g, p) ==
  LET e == IF input[p] = "tab" THEN EndGame(g, p) ELSE g
  IN IF input[p] \in Turns THEN [e EXCEPT !.dir[p] = Vector[input[p]]] ELSE e

\* A snake that goes up or down turns left or right, and the other way round.
interpretInput(g, p) ==
  LET e == IF input[p] = "tab" THEN EndGame(g, p) ELSE g
      across == IF g.dir[p][1] = 0 THEN {"left", "right"} ELSE {"up", "down"}
  IN IF input[p] \in across THEN [e EXCEPT !.dir[p] = Vector[input[p]]] ELSE e

\* The direction is left on the old square; a write off the board is to memory
\* that is not used.
Advance(g, p) ==
  LET h == [g EXCEPT !.head[p] = Plus(@, g.dir[p])]
  IN IF g.head[p] \in Squares THEN [h EXCEPT !.direction[g.head[p]] = g.dir[p]] ELSE h

\* Mutant: the square that the tail leaves stays marked.
Retract_marked(g, p) ==
  [g EXCEPT !.tail[p] = Plus(@, g.direction[@]), !.direction[g.tail[p]] = Still]

Retract(g, p) ==
  [g EXCEPT !.tail[p] = Plus(@, g.direction[@]),
            !.player[g.tail[p]] = 0, !.direction[g.tail[p]] = Still]

Grow(g, p) == [g EXCEPT !.len[p] = @ + 1]

\* Mutant: the head is marked before the new fruit is set.
Feed1_markedFirst(g) ==
  IF g.head[1] = g.fruit THEN resetFruit(Grow([g EXCEPT !.player[g.head[1]] = 1], 1))
  ELSE Retract(g, 1)

\* gameEngine() sets the new fruit at once.
Feed1(g) ==
  IF g.head[1] = g.fruit THEN resetFruit(Grow(g, 1)) ELSE Retract(g, 1)

\* In gameEngine2P() the other snake moves on before the new fruit is set, and
\* when both reach the fruit the first eats it.
Feed2(g) ==
  IF g.head[1] = g.fruit THEN resetFruit(Retract(Grow(g, 1), 2))
  ELSE IF g.head[2] = g.fruit THEN resetFruit(Retract(Grow(g, 2), 1))
  ELSE Retract(Retract(g, 1), 2)

\* Mutant: the first player loses whoever crashes.
checkIfOver_firstLoses(g, p) ==
  IF g.head[p] \notin Squares \/ g.player[g.head[p]] # 0 THEN EndGame(g, 1) ELSE g

\* checkIfOver(), checkIfOverP2().
checkIfOver(g, p) ==
  IF g.head[p] \notin Squares \/ g.player[g.head[p]] # 0 THEN EndGame(g, p) ELSE g

MarkHead(g, p) ==
  IF g.head[p] \in Squares THEN [g EXCEPT !.player[g.head[p]] = p] ELSE g

Land(g, p) == MarkHead(checkIfOver(g, p), p)

\* The body of the loop of gameEngine() and of gameEngine2P().
Step1(g) == Land(Feed1(Advance(interpretInput(g, 1), 1)), 1)
Step2(g) ==
  LET steered == interpretInput(interpretInput(g, 1), 2)
  IN Land(Land(Feed2(Advance(Advance(steered, 1), 2)), 1), 2)

Goes(g) == g.player[FlagSquare] # 0 /\ (gameMode = 2 => g.second # 0)

-----------------------------------------------------------------------------
\* The shell's command.
SNAKE ==
  /\ screen = "shell"
  /\ screen' = "title"
  /\ UNCHANGED <<gameMode, player, direction, head, tail, dir, len, fruit, randIndex,
                 gameNotOver2, input>>

\* startGame() after the key 1 or 2: the fruit is set before the snakes are.
startGame(mode) ==
  LET clear == [NoGame(randIndex) EXCEPT !.player[FlagSquare] = 1, !.second = mode - 1]
      g == Load(resetFruit(clear), 1)
  IN /\ screen = "title"
     /\ screen' = "playing"
     /\ gameMode' = mode
     /\ Become(IF mode = 2 THEN Load(g, 2) ELSE g)
     /\ input' = [p \in 1 .. mode |-> "none"]

\* getKeyDown(): alone, a player's input is any key; with two, a key is its
\* owner's and Tab is the first player's.
Key(p, key) ==
  /\ screen = "playing"
  /\ p \in 1 .. gameMode /\ (p = 2 => key \in Turns)
  /\ key = "other" => gameMode = 1
  /\ input' = [input EXCEPT ![p] = key]
  /\ UNCHANGED <<screen, gameMode, player, direction, head, tail, dir, len, fruit,
                 randIndex, gameNotOver2>>

\* A second has passed.  A game whose crash was forgotten at FlagSquare is
\* followed until a tail leaves the board.
Move ==
  LET g == IF gameMode = 1 THEN Step1(Game) ELSE Step2(Game)
  IN /\ screen = "playing"
     /\ \A p \in 1 .. gameMode : tail[p] \in Squares /\ len[p] < MaxLen[gameMode]
     /\ Become(g)
     /\ screen' = IF g.fruit = NoSquare THEN "overflow"
                  ELSE IF Goes(g) THEN "playing" ELSE "over"
     /\ input' = IF Goes(g) THEN input ELSE [p \in 1 .. gameMode |-> "none"]
     /\ UNCHANGED gameMode

\* gameOverMenu(): the spacebar starts again, Q goes back to the shell.
Leave ==
  /\ screen = "over"
  /\ screen' \in {"title", "shell"}
  /\ gameMode' = 0
  /\ input' = <<>>
  /\ Become(NoGame(randIndex))

Next ==
  \/ SNAKE
  \/ \E mode \in Players : startGame(mode)
  \/ \E p \in Players, key \in Turns \cup {"tab", "other"} : Key(p, key)
  \/ Move
  \/ Leave

Spec == Init /\ [][Next]_vars

\* initializeGameOverScreen()
Winner == IF gameNotOver2 = 0 THEN 1 ELSE IF gameNotOver = 0 THEN 2 ELSE 0

-----------------------------------------------------------------------------
(***************************************************************************)
(* Properties.                                                             *)
(***************************************************************************)

TypeOK ==
  /\ screen \in {"shell", "title", "playing", "over", "overflow"}
  /\ gameMode \in 0 .. 2
  /\ player \in [Squares -> 0 .. 2]
  /\ direction \in [Squares -> {Vector[k] : k \in Turns} \cup {Still}]
  /\ tail \in [1 .. gameMode -> (-1 .. Width) \X (-1 .. Height)]
  /\ fruit \in Squares \cup {NoSquare}
  /\ randIndex \in 0 .. RandQty
  /\ gameNotOver2 \in 0 .. 1

\* The squares met by following the directions from the tail.
Follow(s) == IF s \in Squares THEN Plus(s, direction[s]) ELSE s
At(p, n) == LET at[k \in 0 .. n] == IF k = 0 THEN tail[p] ELSE Follow(at[k - 1]) IN at[n]
Body(p) == {At(p, k) : k \in 0 .. len[p] - 1}

\* The directions lead from each tail over len squares to the head, and the
\* marks are those of the bodies, which share no square.
Bodies ==
  LET body == [p \in 1 .. gameMode |-> Body(p)]
  IN /\ \A p \in 1 .. gameMode :
          /\ At(p, len[p] - 1) = head[p]
          /\ body[p] \subseteq Squares /\ Cardinality(body[p]) = len[p]
          /\ {s \in Squares : player[s] = p} \ {FlagSquare} = body[p] \ {FlagSquare}
     /\ gameMode = 2 => body[1] \cap body[2] = {}

\* Every move keeps the bodies, unless a snake enters the square whose mark is
\* gameNotOver: a crash there is forgotten.
BodiesKept ==
  [][screen = "playing" /\ head' # head /\ screen' = "playing" /\ Bodies
       /\ (\A p \in 1 .. gameMode : head'[p] # FlagSquare)
     => Bodies']_vars

\* A snake never turns back on itself, however many keys come between moves.
NoTurnBack ==
  [][\A p \in 1 .. gameMode :
       screen = "playing" => Plus(dir[p], dir'[p]) # Still]_vars

\* The head of p is off the board, on a square that a body keeps, or on the
\* other head.
Crash(p) ==
  \/ head'[p] \notin Squares
  \/ \E q \in 1 .. gameMode : head'[p] \in Body(q) \ ({tail[q]} \ {tail'[q]})
  \/ gameMode = 2 /\ head'[1] = head'[2]

\* resetFruit() finds a free square and returns, however few there are, unless
\* the snake that eats has crashed: else the fruit that was eaten leaves its
\* square free.
FruitFound ==
  [][screen = "playing" /\ screen' = "overflow" /\ Bodies
     => \E p \in 1 .. gameMode : Crash(p)]_vars

\* The manual: the game ends when a snake crashes, and if one of two snakes
\* crashes the other wins.
CrashDecides ==
  [][screen = "playing" /\ head' # head /\ input[1] # "tab"
       /\ screen' # "overflow" /\ Bodies
       /\ (\A p \in 1 .. gameMode : head'[p] # FlagSquare /\ tail[p] # FlagSquare)
     => LET crashed == {p \in 1 .. gameMode : Crash(p)}
        IN /\ screen' = "over" <=> crashed # {}
           /\ gameMode = 2 /\ Cardinality(crashed) = 1 => Winner' \notin crashed]_vars

=============================================================================
