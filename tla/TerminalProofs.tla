--------------------------- MODULE TerminalProofs ---------------------------
(***************************************************************************)
(* Proofs about Terminal, for every size of the buffer, every font and     *)
(* every keyboard, with printing processes that leave the cursor at the    *)
(* left margin.                                                            *)
(***************************************************************************)
EXTENDS Terminal, TLAPS

\* The loop of getBuffer() before the last byte.
Looping == Editing \ {"line"}

Types ==
  /\ keyBuffer \in Letters \cup Special \cup {NoKey}
  /\ currentX \in Int /\ minX \in Nat /\ reg \in Int /\ i \in Int
  /\ buffer \in [Indexes -> Letters \cup Special \cup {"blank", NoKey}]
  /\ pc \in Prompts \cup Editing \cup {"execute"}
  /\ shared \in BOOLEAN

\* Where the index is, by where the shell is.
IndexBounds ==
  /\ 0 <= i /\ i <= BufferSize - 1
  /\ pc \in Looping => i < BufferSize - 1
  /\ pc \in {"back", "retreat"} => 1 <= i

\* The cursor, and the column a process has loaded, are never right of where
\* the index is: printing processes move the cursor to the left only.
ColumnBounds ==
  /\ pc \in Prompts => 0 <= currentX
  /\ pc \in {"dollarSet", "arrowSet"} => 0 <= reg
  /\ pc \in Looping => currentX <= minX + Width * i
  /\ pc \in {"advance", "retreat"} => reg <= minX + Width * i

\* With no other process they are exactly there.
Columns ==
  ~shared =>
    /\ pc \in Looping => currentX = minX + Width * i
    /\ pc \in {"advance", "retreat"} => reg = minX + Width * i

IInv == Types /\ IndexBounds /\ ColumnBounds /\ Columns

\* Moving the index by one moves the column by one character.
LEMMA NextColumn ==
  ASSUME NEW w \in Nat \ {0}, NEW k \in Int
  PROVE  /\ w * (k + 1) = w * k + w
         /\ w * (k - 1) = w * k - w
         /\ w * k \in Int
         /\ w * k > 0 => k >= 1
<1>1. w * (k + 1) = w * k + w /\ w * (k - 1) = w * k - w /\ w * k \in Int
  BY SMT
<1>2. ASSUME w * k > 0, k < 1 PROVE FALSE
  <2>1. w * k <= 0
    BY <1>2, SMT
  <2>. QED
    BY <1>1, <1>2, <2>1, SMT
<1>. QED
  BY <1>1, <1>2, SMT

LEMMA InitSound == Init => IInv
<1>. SUFFICES ASSUME Init PROVE IInv
  OBVIOUS
<1>1. Types
  <2>1. buffer \in [Indexes -> Letters \cup Special \cup {"blank", NoKey}]
    BY DEF Init
  <2>2. pc \in Prompts \cup Editing \cup {"execute"} /\ shared \in BOOLEAN
    BY DEF Init, Prompts, Editing
  <2>3. /\ keyBuffer \in Letters \cup Special \cup {NoKey}
        /\ currentX \in Int /\ minX \in Nat /\ reg \in Int /\ i \in Int
    BY DEF Init
  <2>. QED
    BY <2>1, <2>2, <2>3 DEF Types
<1>2. IndexBounds
  BY TerminalAssumption DEF Init, IndexBounds, Editing, Looping
<1>3. ColumnBounds
  BY DEF Init, ColumnBounds, Prompts, Editing, Looping
<1>4. Columns
  BY DEF Init, Columns, Editing, Looping
<1>. QED
  BY <1>1, <1>2, <1>3, <1>4 DEF IInv

\* Steps that leave the cursor and the index alone.
LEMMA StaysSound ==
  ASSUME IInv, UNCHANGED <<currentX, minX, i, shared>>,
         keyBuffer' \in Letters \cup Special \cup {NoKey},
         buffer' \in [Indexes -> Letters \cup Special \cup {"blank", NoKey}],
         \/ UNCHANGED <<pc, reg>>
         \/ /\ UNCHANGED reg
            /\ pc \in Looping /\ pc' \in {"get", "registers", "redraw", "typed", "line"}
         \/ UNCHANGED reg /\ pc \in Looping /\ pc' = "back" /\ 1 <= i
         \/ reg' = currentX /\ pc \in Prompts /\ pc' \in {"dollarSet", "arrowSet"}
         \/ reg' = currentX /\ pc \in Looping /\ pc' = "advance"
         \/ reg' = currentX /\ pc = "back" /\ pc' = "retreat"
  PROVE  IInv'
<1>1. Types'
  BY DEF IInv, Types, Looping, Editing, Prompts
<1>2. IndexBounds'
  BY DEF IInv, Types, IndexBounds, Looping, Editing, Prompts
<1>3. ColumnBounds'
  BY DEF IInv, Types, ColumnBounds, Looping, Editing, Prompts
<1>4. Columns'
  BY DEF IInv, Types, Columns, Looping, Editing, Prompts
<1>. QED
  BY <1>1, <1>2, <1>3, <1>4 DEF IInv

\* A step that stores in currentX, in the loop: one character further, with
\* the index, or one back.
LEMMA StoreSound ==
  ASSUME IInv, UNCHANGED <<keyBuffer, minX, reg, shared>>,
         buffer' \in [Indexes -> Letters \cup Special \cup {"blank", NoKey}],
         \/ /\ pc = "advance" /\ i' = i + 1 /\ currentX' = reg + Width
            /\ pc' = IF i + 1 < BufferSize - 1 THEN "get" ELSE "line"
         \/ /\ pc = "retreat" /\ i' = i - 1 /\ currentX' = reg - Width
            /\ pc' = "get"
  PROVE  IInv'
<1>. i \in Int /\ minX \in Nat /\ reg \in Int /\ Width \in Nat \ {0} /\ BufferSize \in Nat
  BY TerminalAssumption DEF IInv, Types
<1>0. /\ Width * (i + 1) = Width * i + Width
      /\ Width * (i - 1) = Width * i - Width
      /\ Width * i \in Int
  BY NextColumn
<1>1. Types'
  BY DEF IInv, Types, Editing, Prompts
<1>2. IndexBounds'
  BY DEF IInv, Types, IndexBounds, Looping, Editing, Prompts
<1>a. reg <= minX + Width * i /\ (~shared => reg = minX + Width * i)
  BY DEF IInv, ColumnBounds, Columns
<1>b. currentX' <= minX' + Width * i' /\ (~shared' => currentX' = minX' + Width * i')
  <2>1. CASE i' = i + 1 /\ currentX' = reg + Width
    BY <1>0, <1>a, <2>1
  <2>2. CASE i' = i - 1 /\ currentX' = reg - Width
    BY <1>0, <1>a, <2>2
  <2>. QED
    BY <2>1, <2>2
<1>3. ColumnBounds'
  BY <1>b DEF ColumnBounds, Looping, Editing, Prompts
<1>4. Columns'
  BY <1>b DEF Columns, Looping, Editing, Prompts
<1>. QED
  BY <1>1, <1>2, <1>3, <1>4 DEF IInv

LEMMA PromptSound == IInv /\ Prompt => IInv'
<1>. SUFFICES ASSUME IInv, Prompt PROVE IInv'
  OBVIOUS
<1>1. CASE Load("dollar", "dollarSet") \/ Load("arrow", "arrowSet")
  BY <1>1, StaysSound DEF IInv, Types, Load, Prompts
<1>2. CASE \/ Store("dollarSet", "arrow", reg + Width) /\ UNCHANGED <<buffer, i>>
           \/ Store("arrowSet", "margin", reg + Width) /\ UNCHANGED <<buffer, i>>
  <2>1. Types'
    BY <1>2, TerminalAssumption DEF IInv, Types, Store, Prompts, Editing
  <2>2. IndexBounds'
    BY <1>2 DEF IInv, IndexBounds, Store, Looping, Editing
  <2>3. ColumnBounds'
    BY <1>2, TerminalAssumption DEF IInv, Types, ColumnBounds, Store, Looping, Editing, Prompts
  <2>4. Columns'
    BY <1>2 DEF Columns, Store, Looping, Editing
  <2>. QED
    BY <2>1, <2>2, <2>3, <2>4 DEF IInv
<1>3. CASE /\ pc = "margin"
           /\ minX' = currentX /\ i' = 0 /\ pc' = "get"
           /\ UNCHANGED <<keyBuffer, currentX, buffer, reg, shared>>
  <2>0. currentX \in Nat /\ Width * i' = 0
    BY <1>3, TerminalAssumption DEF IInv, Types, ColumnBounds, Prompts
  <2>1. Types'
    BY <1>3, <2>0 DEF IInv, Types, Editing
  <2>2. IndexBounds'
    BY <1>3, TerminalAssumption DEF IndexBounds, Looping, Editing
  <2>3. ColumnBounds'
    BY <1>3, <2>0 DEF ColumnBounds, Looping, Editing, Prompts
  <2>4. Columns'
    BY <1>3, <2>0 DEF Columns, Looping, Editing
  <2>. QED
    BY <2>1, <2>2, <2>3, <2>4 DEF IInv
<1>. QED
  BY <1>1, <1>2, <1>3 DEF Prompt

\* Every key that can be pressed leaves a character of the types.
LEMMA KeyTypes ==
  ASSUME NEW key \in Keys
  PROVE  getCharASCII(key) \in Letters \cup Special \cup {NoKey}
  BY DEF Keys, getCharASCII

\* Only an index above 0 has a column right of the margin.
LEMMA EraseHasIndex == IInv /\ pc \in Looping /\ Erases => 1 <= i
<1>. SUFFICES ASSUME IInv, pc \in Looping, Erases PROVE 1 <= i
  OBVIOUS
<1>1. /\ i \in Int /\ currentX \in Int /\ minX \in Nat /\ Width \in Nat \ {0}
      /\ currentX > minX /\ currentX <= minX + Width * i
  BY TerminalAssumption DEF IInv, Types, ColumnBounds, Erases
<1>2. Width * i \in Int /\ (Width * i > 0 => i >= 1)
  BY <1>1, NextColumn
<1>. QED
  BY <1>1, <1>2

LEMMA ShellStepSound == IInv /\ ShellStep => IInv'
<1>. SUFFICES ASSUME IInv, ShellStep PROVE IInv'
  OBVIOUS
<1>t. /\ Types /\ i \in Int
      /\ buffer \in [Indexes -> Letters \cup Special \cup {"blank", NoKey}]
  BY DEF IInv, Types
<1>1. CASE Prompt
  BY <1>1, PromptSound
<1>2. CASE getChar
  BY <1>2, <1>t, StaysSound DEF getChar, Types, Looping, Editing
<1>3. CASE ReadTab \/ ReadTabSeesKey
  BY <1>3, <1>t, StaysSound DEF ReadTab, ReadTabSeesKey, Types, Looping, Editing
<1>4. CASE ReadTabReturns
  BY <1>4, <1>t, StaysSound DEF ReadTabReturns, Types, Looping, Editing, Special
<1>5. CASE Advance
  <2>1. CASE Typed(Letters) /\ Load("typed", "advance")
    BY <2>1, <1>t, StaysSound DEF Load, Types, Looping, Editing
  <2>2. CASE /\ Store("advance", IF i + 1 < BufferSize - 1 THEN "get" ELSE "line",
                      reg + Width)
             /\ i' = i + 1
             /\ UNCHANGED buffer
    BY <2>2, <1>t, StoreSound DEF Store
  <2>. QED
    BY <1>5, <2>1, <2>2 DEF Advance
<1>6. CASE Retreat
  <2>1. CASE /\ Typed({"Backspace"}) /\ Erases
             /\ pc' = "back"
             /\ UNCHANGED <<keyBuffer, currentX, minX, buffer, i, reg, shared>>
    BY <2>1, <1>t, StaysSound, EraseHasIndex DEF Typed, Types, Looping, Editing
  <2>2. CASE Load("back", "retreat")
    BY <2>2, <1>t, StaysSound DEF Load, Types
  <2>3. CASE /\ Store("retreat", "get", reg - Width)
             /\ i' = i - 1
             /\ buffer' = [j \in Indexes |-> IF j = i - 1 THEN "blank" ELSE buffer[j]]
    <3>1. buffer' \in [Indexes -> Letters \cup Special \cup {"blank", NoKey}]
      BY <2>3, <1>t
    <3>. QED
      BY <2>3, <3>1, StoreSound DEF Store
  <2>. QED
    BY <1>6, <2>1, <2>2, <2>3 DEF Retreat
<1>7. CASE Ignore \/ End
  BY <1>7, <1>t, StaysSound DEF Ignore, End, Typed, Types, Looping, Editing
<1>8. CASE Finish
  <2>1. buffer' \in [Indexes -> Letters \cup Special \cup {"blank", NoKey}]
    BY <1>8, <1>t DEF Finish
  <2>2. Types'
    BY <1>8, <1>t, <2>1 DEF Finish, Types
  <2>3. IndexBounds'
    BY <1>8 DEF Finish, IInv, IndexBounds, Looping, Editing
  <2>4. ColumnBounds' /\ Columns'
    BY <1>8 DEF Finish, ColumnBounds, Columns, Looping, Editing, Prompts
  <2>. QED
    BY <2>2, <2>3, <2>4 DEF IInv
<1>9. CASE Execute
  <2>1. shared' \in BOOLEAN
    BY <1>9, <1>t DEF Execute, Types
  <2>2. Types'
    BY <1>9, <1>t, <2>1 DEF Execute, Types, Prompts
  <2>3. IndexBounds'
    BY <1>9 DEF Execute, IInv, IndexBounds, Looping, Editing
  <2>4. ColumnBounds' /\ Columns'
    BY <1>9, <1>t DEF Execute, IInv, Types, ColumnBounds, Columns, Looping, Editing, Prompts
  <2>. QED
    BY <2>2, <2>3, <2>4 DEF IInv
<1>. QED
  BY <1>1, <1>2, <1>3, <1>4, <1>5, <1>6, <1>7, <1>8, <1>9 DEF ShellStep

\* A process that prints moves the cursor to the margin, left of any line.
LEMMA OtherPrintsSound ==
  ASSUME PrinterColumns \subseteq {0}
  PROVE  IInv /\ OtherPrints => IInv'
<1>. SUFFICES ASSUME IInv, OtherPrints PROVE IInv'
  OBVIOUS
<1>1. /\ currentX' = 0 /\ shared /\ UNCHANGED <<keyBuffer, minX, buffer, i, reg, pc, shared>>
  BY DEF OtherPrints
<1>2. minX + Width * i >= 0
  <2>1. minX \in Nat /\ i \in Nat /\ Width \in Nat \ {0}
    BY TerminalAssumption DEF IInv, Types, IndexBounds
  <2>2. Width * i \in Nat
    BY <2>1, SMT
  <2>. QED
    BY <2>1, <2>2
<1>3. Types' /\ IndexBounds' /\ Columns'
  BY <1>1 DEF IInv, Types, IndexBounds, Columns
<1>4. ColumnBounds'
  BY <1>1, <1>2 DEF IInv, ColumnBounds
<1>. QED
  BY <1>3, <1>4 DEF IInv

\* The strengthened invariant is inductive.
THEOREM LineInvariant ==
  ASSUME PrinterColumns \subseteq {0}
  PROVE  Spec => []IInv
<1>1. IInv /\ [Next]_vars => IInv'
  <2>. SUFFICES ASSUME IInv, [Next]_vars PROVE IInv'
    OBVIOUS
  <2>1. ASSUME NEW key \in Keys, int_21(key) PROVE IInv'
    BY <2>1, KeyTypes, StaysSound DEF int_21, IInv, Types
  <2>2. CASE ShellStep
    BY <2>2, ShellStepSound
  <2>3. CASE OtherPrints
    BY <2>3, OtherPrintsSound
  <2>4. CASE UNCHANGED vars
    BY <2>4
    DEF vars, IInv, Types, IndexBounds, ColumnBounds, Columns
  <2>. QED
    BY <2>1, <2>2, <2>3, <2>4 DEF Next
<1>. QED
  BY <1>1, InitSound, PTL DEF Spec

\* The index of getBuffer() stays in the buffer, and everything has its type,
\* whatever keys come and whenever another process ends a line.
THEOREM IndexStaysInBuffer ==
  ASSUME PrinterColumns \subseteq {0}
  PROVE  Spec => [](TypeOK /\ LineInBuffer)
<1>1. IInv => TypeOK /\ LineInBuffer
  BY DEF IInv, Types, IndexBounds, TypeOK, LineInBuffer
<1>. QED
  BY <1>1, LineInvariant, PTL

\* While only the shell prints, the cursor is where the index is.
THEOREM CursorIsAtIndex ==
  ASSUME PrinterColumns \subseteq {0}
  PROVE  Spec => []CursorFollowsLine
<1>1. IInv => CursorFollowsLine
  BY DEF IInv, Columns, CursorFollowsLine, Looping, Editing
<1>. QED
  BY <1>1, LineInvariant, PTL

-----------------------------------------------------------------------------
(***************************************************************************)
(* Wherever the processes that print leave the cursor.                     *)
(***************************************************************************)

\* The index has no lower bound here, but it never passes the last byte, and a
\* prompt is printed from a column of the screen.
WeakInv ==
  /\ Types
  /\ i <= BufferSize - 1
  /\ pc \in Looping => i < BufferSize - 1
  /\ pc \in Prompts => 0 <= currentX
  /\ pc \in {"dollarSet", "arrowSet"} => 0 <= reg

\* Every step keeps it: the guard of Backspace is not needed.
LEMMA WeakKept == WeakInv /\ [Next]_vars => WeakInv'
<1> SUFFICES ASSUME WeakInv, [Next]_vars PROVE WeakInv'
  OBVIOUS
<1> USE TerminalAssumption DEF WeakInv, Types, Looping, Editing, Prompts
<1>1. ASSUME NEW key \in Keys, int_21(key) PROVE WeakInv'
  BY <1>1, KeyTypes DEF int_21
<1>2. CASE Prompt
  BY <1>2 DEF Prompt, Load, Store
<1>3. CASE getChar \/ ReadTab \/ ReadTabSeesKey \/ ReadTabReturns
  BY <1>3 DEF getChar, ReadTab, ReadTabSeesKey, ReadTabReturns, Special
<1>4. CASE Advance
  BY <1>4 DEF Advance, Typed, Load, Store
<1>5. CASE Retreat
  <2>1. CASE Store("retreat", "get", reg - Width) /\ i' = i - 1
             /\ buffer' = [j \in Indexes |-> IF j = i - 1 THEN "blank" ELSE buffer[j]]
    <3>1. buffer' \in [Indexes -> Letters \cup Special \cup {"blank", NoKey}]
      BY <2>1
    <3>2. QED
      BY <2>1, <3>1 DEF Store
  <2>2. QED
    BY <1>5, <2>1 DEF Retreat, Typed, Load
<1>6. CASE Ignore \/ End
  BY <1>6 DEF Ignore, End, Typed
<1>7. CASE Finish \/ Execute
  <2>1. /\ shared' \in BOOLEAN
        /\ buffer' \in [Indexes -> Letters \cup Special \cup {"blank", NoKey}]
    BY <1>7 DEF Finish, Execute
  <2>2. /\ pc' \in {"execute", "dollar"} /\ currentX' = 0 /\ minX' \in Nat
        /\ keyBuffer' = keyBuffer /\ i' = i /\ reg' = reg
    <3>1. CASE Finish
      BY <3>1 DEF Finish
    <3>2. CASE Execute
      BY <3>2, Zenon DEF Execute
    <3>3. QED
      BY <1>7, <3>1, <3>2
  <2>3. QED
    BY <2>1, <2>2
<1>8. CASE OtherPrints
  BY <1>8 DEF OtherPrints
<1>9. CASE UNCHANGED vars
  BY <1>9 DEF vars
<1>10. QED
  BY <1>1, <1>2, <1>3, <1>4, <1>5, <1>6, <1>7, <1>8, <1>9 DEF Next, ShellStep

\* Types, and the last byte of the buffer, hold for every process that prints,
\* not only for those that end their lines at the margin.
THEOREM TypeCorrect == Spec => []TypeOK
<1>1. Init => WeakInv
  BY InitSound, TerminalAssumption
  DEF IInv, IndexBounds, ColumnBounds, WeakInv, Looping, Editing, Prompts
<1>2. WeakInv => TypeOK
  BY DEF WeakInv, Types, TypeOK
<1>3. QED
  BY <1>1, <1>2, WeakKept, PTL DEF Spec

-----------------------------------------------------------------------------
(***************************************************************************)
(* The user's view: every step of the code is a step of LineEditor, or     *)
(* none.                                                                   *)
(***************************************************************************)

\* The place of the buffer at the index holds the key that was taken, until it
\* has had its effect.
HandInv ==
  /\ pc = "advance" => buffer[i] \in Letters
  /\ pc \in {"back", "retreat"} => buffer[i] = "Backspace"
  /\ pc = "line" /\ i < BufferSize - 1 => buffer[i] \in {"Enter", "Tab"}

LEMMA HandKept == IInv /\ HandInv /\ [Next]_vars => HandInv'
<1> SUFFICES ASSUME IInv, HandInv, [Next]_vars PROVE HandInv'
  OBVIOUS
<1> USE TerminalAssumption DEF HandInv
<1>1. ASSUME NEW key \in Keys, int_21(key) PROVE HandInv'
  BY <1>1 DEF int_21
<1>2. CASE Prompt
  BY <1>2 DEF Prompt, Load, Store
<1>3. CASE getChar \/ ReadTab \/ ReadTabSeesKey \/ ReadTabReturns
  BY <1>3 DEF getChar, ReadTab, ReadTabSeesKey, ReadTabReturns
<1>4. CASE Advance
  BY <1>4 DEF Advance, Typed, Load, Store, IInv, Types
<1>5. CASE Retreat
  BY <1>5 DEF Retreat, Typed, Load, Store
<1>6. CASE Ignore \/ End
  BY <1>6 DEF Ignore, End, Typed
<1>7. CASE Finish
  BY <1>7 DEF Finish
<1>8. CASE Execute
  BY <1>8, Zenon DEF Execute
<1>9. CASE OtherPrints
  BY <1>9 DEF OtherPrints
<1>10. CASE UNCHANGED vars
  BY <1>10 DEF vars
<1>11. QED
  BY <1>1, <1>2, <1>3, <1>4, <1>5, <1>6, <1>7, <1>8, <1>9, <1>10 DEF Next, ShellStep

Characters == Letters \cup Special \cup {"blank", NoKey}

\* The line, as a list.
LEMMA LineIsList ==
  ASSUME IInv
  PROVE  LineTyped \in Seq(Characters) /\ Len(LineTyped) = i /\ i \in 0 .. BufferSize - 1
<1>1. i \in 0 .. BufferSize - 1
  BY TerminalAssumption DEF IInv, Types, IndexBounds
<1>2. \A j \in 1 .. i : buffer[j - 1] \in Characters
  BY <1>1, TerminalAssumption DEF IInv, Types, Indexes, Characters
<1>3. LineTyped \in [1 .. i -> Characters]
  BY <1>2 DEF LineTyped
<1>4. QED
  BY <1>1, <1>3

\* A step that leaves what is below the index leaves the line.
LEMMA SameLine ==
  ASSUME IInv, i' = i, \A j \in 0 .. i - 1 : buffer'[j] = buffer[j]
  PROVE  LineTyped' = LineTyped
BY LineIsList DEF LineTyped

\* The index moves on: the line has the key of its place at its end.
LEMMA LongerLine ==
  ASSUME IInv, i' = i + 1, buffer' = buffer
  PROVE  LineTyped' = Append(LineTyped, buffer[i])
<1> DEFINE s == LineTyped
           t == Append(s, buffer[i])
<1>1. s \in Seq(Characters) /\ Len(s) = i /\ i \in 0 .. BufferSize - 1
  BY LineIsList
<1>2. \A j \in 1 .. i : s[j] = buffer[j - 1]
  BY DEF LineTyped
<1>3. LineTyped' = [j \in 1 .. i + 1 |-> buffer[j - 1]]
  BY DEF LineTyped
<1> HIDE DEF s
<1>4. t = [j \in 1 .. i + 1 |-> buffer[j - 1]]
  BY <1>1, <1>2
<1>5. QED
  BY <1>3, <1>4 DEF s

\* The index moves back: the line is its front, whatever was written there.
LEMMA ShorterLine ==
  ASSUME IInv, 1 <= i, i' = i - 1,
         buffer' = [j \in Indexes |-> IF j = i - 1 THEN "blank" ELSE buffer[j]]
  PROVE  LineTyped' = Editor!Front(LineTyped) /\ LineTyped # <<>>
<1> DEFINE s == LineTyped
<1>1. s \in Seq(Characters) /\ Len(s) = i /\ i \in 1 .. BufferSize - 1
  BY LineIsList
<1>2. \A j \in 1 .. i : s[j] = buffer[j - 1]
  BY DEF LineTyped
<1>3. \A j \in 1 .. i - 1 : buffer'[j - 1] = buffer[j - 1]
  BY <1>1, TerminalAssumption DEF Indexes
<1>4. LineTyped' = [j \in 1 .. i - 1 |-> buffer[j - 1]]
  BY <1>3 DEF LineTyped
<1> HIDE DEF s
<1>5. Editor!Front(s) = [j \in 1 .. i - 1 |-> s[j]]
  BY <1>1 DEF Editor!Front
<1>6. QED
  BY <1>1, <1>2, <1>4, <1>5 DEF s

\* What LineEditor sees of a place in the code.
Loop == {"get", "registers", "redraw", "typed", "advance", "back", "retreat"}
Views ==
  /\ pc \in Loop => i < BufferSize - 1
  /\ pc \in Editing => Line = LineTyped /\ Command = NoCommand
  /\ pc \in Prompts => Line = <<>> /\ Command = NoCommand /\ Hand = NoKey
  /\ pc = "execute" => Line = <<>> /\ Command = LineTyped /\ Hand = NoKey
  /\ pc = "get" => Hand = NoKey
  /\ pc \in {"registers", "redraw"} => Hand = "Tab"
  /\ pc \in {"typed", "advance", "back", "retreat"} => Hand = buffer[i]
  /\ pc = "line" => Hand = IF i < BufferSize - 1 THEN buffer[i] ELSE NoKey

\* It is so before and after a step.
LEMMA ViewsHold == ASSUME IInv, IInv' PROVE Views /\ Views'
<1> USE DEF IndexBounds, Looping, Editing, Prompts, Loop, Line, Command, Hand
<1>1. Views
  BY DEF IInv, Views
<1>2. Views'
  BY DEF IInv, Views
<1>3. QED
  BY <1>1, <1>2

\* The user's view is unchanged.
Unseen == UNCHANGED <<keyBuffer, Hand, Line, Command, shared>>

\* A prompt shows the user an empty line.
LEMMA PromptUnseen == IInv /\ IInv' /\ Prompt => Unseen
<1> SUFFICES ASSUME IInv, IInv', Prompt PROVE Unseen
  OBVIOUS
<1>v. Views /\ Views'
  BY ViewsHold
<1>1. UNCHANGED <<keyBuffer, shared>> /\ pc \in Prompts
  BY DEF Prompt, Load, Store, Prompts
<1>2. Line = <<>> /\ Command = NoCommand /\ Hand = NoKey
  BY <1>1, <1>v DEF Views
<1>3. CASE pc' \in Prompts
  <2>1. Line' = <<>> /\ Command' = NoCommand /\ Hand' = NoKey
    BY <1>3, <1>v DEF Views
  <2>2. QED
    BY <1>1, <1>2, <2>1 DEF Unseen
<1>4. CASE pc' \notin Prompts
  <2>1. pc' = "get" /\ i' = 0
    BY <1>4 DEF Prompt, Load, Store, Prompts
  <2>2. Line' = LineTyped' /\ Command' = NoCommand /\ Hand' = NoKey
    BY <2>1, <1>v DEF Views, Editing
  <2>3. LineTyped' = <<>>
    BY <2>1 DEF LineTyped
  <2>4. QED
    BY <1>1, <1>2, <2>2, <2>3 DEF Unseen
<1>5. QED
  BY <1>3, <1>4

\* The read call takes the key that waits; a key that comes while the registers
\* are shown is dropped.
LEMMA ReadsTake ==
  ASSUME IInv, IInv'
  PROVE  /\ getChar \/ ReadTab => Editor!Take
         /\ ReadTabSeesKey => Unseen
         /\ ReadTabReturns => Editor!Drop
<1> USE DEF Editing, Loop
<1>v. Views /\ Views'
  BY ViewsHold
<1>1. ASSUME getChar \/ ReadTab \/ ReadTabSeesKey \/ ReadTabReturns
      PROVE  /\ Line = LineTyped /\ Line' = LineTyped' /\ LineTyped' = LineTyped
             /\ Command = NoCommand /\ Command' = NoCommand
             /\ Len(Line) < BufferSize - 1 /\ i \in Indexes
             /\ UNCHANGED shared
  <2>1. /\ pc \in Loop /\ pc' \in Loop /\ i' = i /\ UNCHANGED shared
        /\ buffer' = buffer \/ \E c : buffer' = [buffer EXCEPT ![i] = c]
    BY <1>1 DEF getChar, ReadTab, ReadTabSeesKey, ReadTabReturns
  <2>2. i \in 0 .. BufferSize - 1 /\ i < BufferSize - 1 /\ Len(LineTyped) = i
    BY <2>1, LineIsList, <1>v DEF Views
  <2>3. \A j \in 0 .. i - 1 : buffer'[j] = buffer[j]
    BY <2>1, <2>2, TerminalAssumption DEF IInv, Types, Indexes
  <2>4. QED
    BY <2>1, <2>2, <2>3, SameLine, <1>v DEF Views, Indexes
<1>2. ASSUME getChar PROVE Editor!Take
  <2>1. /\ pc = "get" /\ pc' = "typed" /\ keyBuffer # NoKey /\ keyBuffer' = NoKey
        /\ buffer' = [buffer EXCEPT ![i] = keyBuffer] /\ i' = i
    BY <1>2 DEF getChar
  <2>2. buffer'[i] = keyBuffer
    BY <1>1, <1>2, <2>1 DEF IInv, Types
  <2>3. Hand = NoKey /\ Hand' = keyBuffer
    BY <2>1, <2>2, <1>v DEF Views
  <2>4. QED
    BY <1>1, <1>2, <2>1, <2>3 DEF Editor!Take
<1>3. ASSUME ReadTab PROVE Editor!Take
  <2>1. /\ pc = "get" /\ pc' = "registers" /\ keyBuffer = "Tab" /\ keyBuffer' = NoKey
    BY <1>3 DEF ReadTab
  <2>2. Hand = NoKey /\ Hand' = "Tab"
    BY <2>1, <1>v DEF Views
  <2>3. QED
    BY <1>1, <1>3, <2>1, <2>2, TerminalAssumption DEF Editor!Take
<1>4. ASSUME ReadTabSeesKey PROVE Unseen
  <2>1. pc = "registers" /\ pc' = "redraw" /\ keyBuffer' = keyBuffer
    BY <1>4 DEF ReadTabSeesKey
  <2>2. Hand = "Tab" /\ Hand' = "Tab"
    BY <2>1, <1>v DEF Views
  <2>3. QED
    BY <1>1, <1>4, <2>1, <2>2 DEF Unseen
<1>5. ASSUME ReadTabReturns PROVE Editor!Drop
  <2>1. /\ pc = "redraw" /\ pc' = "typed" /\ keyBuffer' = NoKey
        /\ buffer' = [buffer EXCEPT ![i] = "Tab"] /\ i' = i
    BY <1>5 DEF ReadTabReturns
  <2>2. buffer'[i] = "Tab"
    BY <1>1, <1>5, <2>1 DEF IInv, Types
  <2>3. Hand = "Tab" /\ Hand' = "Tab"
    BY <2>1, <2>2, <1>v DEF Views
  <2>4. QED
    BY <1>1, <1>5, <2>1, <2>3 DEF Editor!Drop
<1>6. QED
  BY <1>2, <1>3, <1>4, <1>5

\* A letter goes to the end of the line.
LEMMA AdvanceApplies == IInv /\ IInv' /\ HandInv /\ Advance => Editor!Apply \/ Unseen
<1> SUFFICES ASSUME IInv, IInv', HandInv, Advance PROVE Editor!Apply \/ Unseen
  OBVIOUS
<1>v. Views /\ Views'
  BY ViewsHold
<1> USE DEF Editing, Loop
<1>1. CASE Typed(Letters) /\ Load("typed", "advance")
  <2>1. pc = "typed" /\ pc' = "advance" /\ UNCHANGED <<keyBuffer, buffer, i, shared>>
    BY <1>1 DEF Load
  <2>2. LineTyped' = LineTyped /\ buffer'[i'] = buffer[i]
    BY <2>1 DEF LineTyped
  <2>3. Hand' = Hand /\ Line' = Line /\ Command' = Command
    BY <2>1, <2>2, <1>v DEF Views
  <2>4. QED
    BY <2>1, <2>3 DEF Unseen
<1>2. CASE /\ Store("advance", IF i + 1 < BufferSize - 1 THEN "get" ELSE "line", reg + Width)
           /\ i' = i + 1
           /\ UNCHANGED buffer
  <2>1. /\ pc = "advance" /\ pc' = IF i' < BufferSize - 1 THEN "get" ELSE "line"
        /\ UNCHANGED <<keyBuffer, shared>> /\ i' = i + 1 /\ buffer' = buffer
    BY <1>2 DEF Store
  <2>2. Hand = buffer[i] /\ Hand \in Letters /\ Line = LineTyped /\ Command = NoCommand
    BY <2>1, <1>v DEF Views, HandInv
  <2>3. Hand' = NoKey /\ Line' = LineTyped' /\ Command' = NoCommand
    BY <2>1, <1>v DEF Views
  <2>4. Line' = Append(Line, Hand)
    BY <2>1, <2>2, <2>3, LongerLine
  <2>5. Hand \notin {"Backspace", "Enter", "Tab"}
    BY <2>2, TerminalAssumption
  <2>6. QED
    BY <2>1, <2>2, <2>3, <2>4, <2>5 DEF Editor!Apply
<1>3. QED
  BY <1>1, <1>2 DEF Advance

\* A Backspace takes the last letter from the line.
LEMMA RetreatApplies == IInv /\ IInv' /\ HandInv /\ Retreat => Editor!Apply \/ Unseen
<1> SUFFICES ASSUME IInv, IInv', HandInv, Retreat PROVE Editor!Apply \/ Unseen
  OBVIOUS
<1>v. Views /\ Views'
  BY ViewsHold
<1> USE DEF Editing, Loop
<1>1. CASE \/ Typed({"Backspace"}) /\ Erases /\ pc' = "back"
              /\ UNCHANGED <<keyBuffer, currentX, minX, buffer, i, reg, shared>>
           \/ Load("back", "retreat")
  <2>1. /\ pc \in {"typed", "back"} /\ pc' \in {"back", "retreat"}
        /\ UNCHANGED <<keyBuffer, buffer, i, shared>>
    BY <1>1 DEF Load, Typed
  <2>2. LineTyped' = LineTyped /\ buffer'[i'] = buffer[i]
    BY <2>1 DEF LineTyped
  <2>3. Hand' = Hand /\ Line' = Line /\ Command' = Command
    BY <2>1, <2>2, <1>v DEF Views
  <2>4. QED
    BY <2>1, <2>3 DEF Unseen
<1>2. CASE /\ Store("retreat", "get", reg - Width)
           /\ i' = i - 1
           /\ buffer' = [j \in Indexes |-> IF j = i - 1 THEN "blank" ELSE buffer[j]]
  <2>1. /\ pc = "retreat" /\ pc' = "get" /\ UNCHANGED <<keyBuffer, shared>>
        /\ i' = i - 1
        /\ buffer' = [j \in Indexes |-> IF j = i - 1 THEN "blank" ELSE buffer[j]]
    BY <1>2 DEF Store
  <2>2. Hand = "Backspace" /\ Line = LineTyped /\ Command = NoCommand
    BY <2>1, <1>v DEF Views, HandInv
  <2>3. Hand' = NoKey /\ Line' = LineTyped' /\ Command' = NoCommand
    BY <2>1, <1>v DEF Views
  <2>4. 1 <= i
    BY <2>1 DEF IInv, IndexBounds
  <2>5. Line' = Editor!Front(Line) /\ Line # <<>>
    BY <2>1, <2>2, <2>3, <2>4, ShorterLine
  <2>6. Hand \in Special /\ Hand \notin Letters
    BY <2>2, TerminalAssumption DEF Special
  <2>7. QED
    BY <2>1, <2>2, <2>3, <2>5, <2>6 DEF Editor!Apply, Editor!Erased
<1>3. QED
  BY <1>1, <1>2 DEF Retreat

\* A Backspace that finds no column to erase found no letter either, unless
\* another process has moved the cursor.
LEMMA IgnoreApplies == IInv /\ IInv' /\ Ignore => Editor!Apply
<1> SUFFICES ASSUME IInv, IInv', Ignore PROVE Editor!Apply
  OBVIOUS
<1>v. Views /\ Views'
  BY ViewsHold
<1>1. /\ pc = "typed" /\ pc' = "get" /\ UNCHANGED <<keyBuffer, buffer, i, shared>>
      /\ buffer[i] \in {"ESC", "Backspace"}
      /\ buffer[i] = "Backspace" => ~Erases
  BY DEF Ignore, Typed
<1>2. LineTyped' = LineTyped
  BY <1>1 DEF LineTyped
<1>3. /\ Hand = buffer[i] /\ Line = LineTyped /\ Command = NoCommand
      /\ Hand' = NoKey /\ Line' = LineTyped' /\ Command' = NoCommand
  BY <1>1, <1>v DEF Views, Editing
<1>4. Hand \in Special /\ Hand \notin Letters \cup {"Enter", "Tab"}
  BY <1>1, <1>3, TerminalAssumption DEF Special
<1>5. ASSUME Hand = "Backspace", ~shared PROVE Line = <<>>
  <2>1. currentX <= minX /\ currentX = minX + Width * i
    BY <1>1, <1>3, <1>5 DEF Erases, IInv, Types, Columns, Looping, Editing
  <2>2. i \in Nat /\ Width \in Nat \ {0} /\ minX \in Nat
    BY TerminalAssumption DEF IInv, Types, IndexBounds
  <2>3. i = 0
    <3>1. Width * i \in Int
      BY <2>2
    <3>2. ~(Width * i > 0)
      BY <2>1, <2>2, <3>1
    <3>3. ASSUME i >= 1 PROVE FALSE
      <4>1. Width * i >= Width
        BY <2>2, <3>3, SMT
      <4>2. QED
        BY <2>2, <3>1, <3>2, <4>1
    <3>4. QED
      BY <2>2, <3>3
  <2>4. QED
    BY <1>3, <2>3 DEF LineTyped
<1>6. Hand = "Backspace" => Line' \in Editor!Erased
  BY <1>2, <1>3, <1>5 DEF Editor!Erased
<1>7. QED
  BY <1>1, <1>2, <1>3, <1>4, <1>6 DEF Editor!Apply

\* The line ends unseen and is then submitted.
LEMMA EndsSubmit ==
  ASSUME IInv, IInv', HandInv,
         NoCommand \notin Seq(Characters)
  PROVE  /\ End => Unseen
         /\ Finish => Editor!Submit
         /\ Execute => Editor!Run
<1> USE DEF Editing, Loop
<1>v. Views /\ Views'
  BY ViewsHold
<1>1. ASSUME End PROVE Unseen
  <2>1. /\ pc = "typed" /\ pc' = "line" /\ UNCHANGED <<keyBuffer, buffer, i, shared>>
    BY <1>1 DEF End, Typed
  <2>2. LineTyped' = LineTyped /\ i' < BufferSize - 1
    BY <2>1, <1>v DEF Views, LineTyped
  <2>3. Hand' = Hand /\ Line' = Line /\ Command' = Command
    BY <2>1, <2>2, <1>v DEF Views
  <2>4. QED
    BY <2>1, <2>3 DEF Unseen
<1>2. ASSUME Finish PROVE Editor!Submit
  <2>1. /\ pc = "line" /\ pc' = "execute" /\ UNCHANGED <<keyBuffer, i, shared>>
        /\ buffer' = [buffer EXCEPT ![i] = NoKey]
    BY <1>2 DEF Finish
  <2>2. i \in 0 .. BufferSize - 1 /\ Len(LineTyped) = i
    BY LineIsList
  <2>3. LineTyped' = LineTyped
    <3>1. \A j \in 0 .. i - 1 : buffer'[j] = buffer[j]
      BY <2>1, <2>2, TerminalAssumption DEF IInv, Types, Indexes
    <3>2. QED
      BY <2>1, <3>1, SameLine
  <2>4. /\ Line = LineTyped /\ Command = NoCommand
        /\ Hand = IF i < BufferSize - 1 THEN buffer[i] ELSE NoKey
        /\ Hand' = NoKey /\ Line' = <<>> /\ Command' = LineTyped'
    BY <2>1, <1>v DEF Views
  <2>5. Hand \in {"Enter", "Tab"} \/ Len(Line) = BufferSize - 1
    BY <2>1, <2>2, <2>4, TerminalAssumption DEF HandInv
  <2>6. QED
    BY <2>1, <2>3, <2>4, <2>5 DEF Editor!Submit
<1>3. ASSUME Execute PROVE Editor!Run
  <2>1. /\ pc = "execute" /\ pc' = "dollar" /\ UNCHANGED keyBuffer
        /\ shared' \in {shared, TRUE}
    BY <1>3, Zenon DEF Execute
  <2>2. Line = <<>> /\ Command = LineTyped /\ Hand = NoKey
    BY <2>1, <1>v DEF Views
  <2>3. Line' = <<>> /\ Command' = NoCommand /\ Hand' = NoKey
    BY <2>1, <1>v DEF Views, Prompts
  <2>4. Command # NoCommand
    BY <2>2, LineIsList
  <2>5. QED
    BY <2>1, <2>2, <2>3, <2>4, Zenon DEF Editor!Run
<1>4. QED
  BY <1>1, <1>2, <1>3

\* Keys and other processes leave the line and the hand alone.
LEMMA OutsideSteps ==
  ASSUME IInv, IInv', UNCHANGED <<buffer, i, pc, shared>>
  PROVE  UNCHANGED <<Hand, Line, Command, shared>>
BY DEF Hand, Line, Command, LineTyped

\* Every step of the code is one of LineEditor's, or is not seen.
LEMMA EditorStep ==
  ASSUME IInv, IInv', HandInv, Next, NoCommand \notin Seq(Characters)
  PROVE  Editor!Next \/ Unseen
<1>1. ASSUME NEW key \in Keys, int_21(key) PROVE Editor!Press
  <2>1. UNCHANGED <<Hand, Line, Command, shared>>
    BY <1>1, OutsideSteps DEF int_21
  <2>2. keyBuffer' \in Letters \cup Special \cup {NoKey}
    BY <1>1, KeyTypes DEF int_21
  <2>3. QED
    BY <2>1, <2>2 DEF Editor!Press
<1>2. CASE OtherPrints
  BY <1>2, OutsideSteps DEF OtherPrints, Unseen
<1>3. CASE ShellStep
  BY <1>3, PromptUnseen, ReadsTake, AdvanceApplies, RetreatApplies, IgnoreApplies, EndsSubmit
  DEF ShellStep, Editor!Next
<1>4. QED
  BY <1>1, <1>2, <1>3 DEF Next, Editor!Next

\* The part of ImplementsEditor that says what may happen: getBuffer(), with the
\* interrupt and the read call under it and other processes printing around
\* it, does to the line what LineEditor lets each key do, once and in order.
\* NoCommand must only not be a line.
THEOREM KeysEditTheLine ==
  ASSUME PrinterColumns \subseteq {0}, NoCommand \notin Seq(Characters)
  PROVE  Spec => Editor!Safety
<1>1. Init => Editor!Init
  BY DEF Init, Editor!Init, Hand, Line, Command, Editing
<1>2. Init => HandInv
  BY DEF Init, HandInv
<1>3. IInv /\ IInv' /\ HandInv /\ [Next]_vars => [Editor!Next]_(Editor!vars)
  <2> SUFFICES ASSUME IInv, IInv', HandInv, [Next]_vars
               PROVE  Editor!Next \/ UNCHANGED Editor!vars
    OBVIOUS
  <2>1. CASE Next
    BY <2>1, EditorStep DEF Unseen, Editor!vars
  <2>2. CASE UNCHANGED vars
    BY <2>2, OutsideSteps DEF vars, Editor!vars
  <2>3. QED
    BY <2>1, <2>2
<1>4. Spec => []IInv
  BY LineInvariant
<1>5. QED
  BY <1>1, <1>2, <1>3, <1>4, HandKept, PTL DEF Spec, Editor!Safety

=============================================================================
