------------------------------ MODULE Terminal ------------------------------
(***************************************************************************)
(* The command line: the keyboard interrupt (irqDispatcher.c, keyboad.c),  *)
(* the read call (syscallDispatcher.c), and getBuffer() of the shell       *)
(* (globalLib.c), which finds out where it is in the line from the column  *)
(* of the cursor.  The cursor is a global of the user program, which every *)
(* process of its commands shares: the shell is preempted between a load   *)
(* of currentX and the store that follows, and a process that prints moves *)
(* the cursor meanwhile.                                                   *)
(*                                                                         *)
(* Rows, drawing and the commands themselves are left out.                 *)
(***************************************************************************)
EXTENDS Integers, Sequences

CONSTANTS
  Letters,         \* keys with a character from 32 to 126
  BufferSize,      \* size of shellBuffer
  Width,           \* HorizontalOffset() of the font in use
  PrinterColumns,  \* where a printing process leaves the cursor
  NoKey,           \* -1
  NoCommand

ASSUME TerminalAssumption ==
  /\ BufferSize \in Nat /\ BufferSize >= 2
  /\ Width \in Nat \ {0}
  /\ PrinterColumns \subseteq Nat
  /\ Letters \cap {"Backspace", "Enter", "Tab", "ESC", "Shift"} = {}
  /\ NoKey \notin Letters \cup {"Backspace", "Enter", "Tab", "ESC", "Shift"}

Special == {"Backspace", "Enter", "Tab", "ESC"}
Keys == Letters \cup Special \cup {"Shift"}
Indexes == 0 .. BufferSize - 1

VARIABLES
  keyBuffer,   \* the key the interrupt left, or NoKey
  currentX,    \* column of the cursor, in pixels
  minX,        \* column where the line begins
  buffer,
  i,           \* index of getBuffer() in buffer
  reg,         \* value of currentX a process has loaded
  pc,          \* where the shell is
  shared       \* a command has started a process that prints

vars == <<keyBuffer, currentX, minX, buffer, i, reg, pc, shared>>

Prompts == {"dollar", "dollarSet", "arrow", "arrowSet", "margin"}
Editing == {"get", "registers", "redraw", "typed", "advance", "back", "retreat", "line"}

Init ==
  /\ keyBuffer = NoKey
  /\ currentX = 0 /\ minX = 0
  /\ buffer = [j \in Indexes |-> NoKey]
  /\ i = 0 /\ reg = 0
  /\ pc = "dollar"
  /\ shared = FALSE

-----------------------------------------------------------------------------
(***************************************************************************)
(* Keyboard interrupt and read call.                                       *)
(***************************************************************************)

\* Shift, the arrows and the function keys have no character.
getCharASCII(key) == IF key = "Shift" THEN NoKey ELSE key

int_21(key) ==
  /\ keyBuffer' = getCharASCII(key)
  /\ UNCHANGED <<currentX, minX, buffer, i, reg, pc, shared>>

\* Mutant: the key stays in the buffer.
getChar_keepsKey ==
  /\ pc = "get" /\ i \in Indexes
  /\ keyBuffer \notin {NoKey, "Tab"}
  /\ buffer' = [buffer EXCEPT ![i] = keyBuffer]
  /\ pc' = "typed"
  /\ UNCHANGED <<keyBuffer, currentX, minX, i, reg, shared>>

\* getChar() asks until there is a key; the read call takes it in one piece.
getChar ==
  /\ pc = "get" /\ i \in Indexes
  /\ keyBuffer \notin {NoKey, "Tab"}
  /\ buffer' = [buffer EXCEPT ![i] = keyBuffer]
  /\ keyBuffer' = NoKey
  /\ pc' = "typed"
  /\ UNCHANGED <<currentX, minX, i, reg, shared>>

\* A Tab shows the registers and waits, interrupts on, for another key.
ReadTab ==
  /\ pc = "get" /\ i \in Indexes
  /\ keyBuffer = "Tab"
  /\ keyBuffer' = NoKey
  /\ pc' = "registers"
  /\ UNCHANGED <<currentX, minX, buffer, i, reg, shared>>

ReadTabSeesKey ==
  /\ pc = "registers"
  /\ keyBuffer # NoKey
  /\ pc' = "redraw"
  /\ UNCHANGED <<keyBuffer, currentX, minX, buffer, i, reg, shared>>

\* The screen is cleared, and every key that came until then is dropped.
ReadTabReturns ==
  /\ pc = "redraw"
  /\ keyBuffer' = NoKey
  /\ buffer' = [buffer EXCEPT ![i] = "Tab"]
  /\ pc' = "typed"
  /\ UNCHANGED <<currentX, minX, i, reg, shared>>

-----------------------------------------------------------------------------
(***************************************************************************)
(* getBuffer().  nextX() and prevX() load the column and store another.    *)
(***************************************************************************)

Load(from, to) ==
  /\ pc = from
  /\ reg' = currentX
  /\ pc' = to
  /\ UNCHANGED <<keyBuffer, currentX, minX, buffer, i, shared>>

Store(from, to, x) ==
  /\ pc = from
  /\ currentX' = x
  /\ pc' = to
  /\ UNCHANGED <<keyBuffer, minX, reg, shared>>

\* printf("$"); nextX(1); printf(">"); nextX(1); minX = getCurrentX().
Prompt ==
  \/ Load("dollar", "dollarSet")
  \/ Store("dollarSet", "arrow", reg + Width) /\ UNCHANGED <<buffer, i>>
  \/ Load("arrow", "arrowSet")
  \/ Store("arrowSet", "margin", reg + Width) /\ UNCHANGED <<buffer, i>>
  \/ /\ pc = "margin"
     /\ minX' = currentX /\ i' = 0 /\ pc' = "get"
     /\ UNCHANGED <<keyBuffer, currentX, buffer, reg, shared>>

Typed(keys) == pc = "typed" /\ buffer[i] \in keys

\* Mutant: the loop runs to the last byte of the buffer.
Advance_toTheEnd ==
  \/ Typed(Letters) /\ Load("typed", "advance")
  \/ /\ Store("advance", IF i + 1 < BufferSize THEN "get" ELSE "line", reg + Width)
     /\ i' = i + 1
     /\ UNCHANGED buffer

\* Mutant: the cursor is read again, after another process may have moved it.
Advance_twice ==
  \/ Typed(Letters) /\ Load("typed", "advance")
  \/ /\ Store("advance", IF i + 1 < BufferSize - 1 THEN "get" ELSE "line",
              reg + Width + Width)
     /\ i' = i + 1
     /\ UNCHANGED buffer

\* A letter: nextX(1), i++.  The line ends by itself before the last byte.
Advance ==
  \/ Typed(Letters) /\ Load("typed", "advance")
  \/ /\ Store("advance", IF i + 1 < BufferSize - 1 THEN "get" ELSE "line", reg + Width)
     /\ i' = i + 1
     /\ UNCHANGED buffer

\* Mutant: the prompt can be erased.
Erases_prompt == currentX > 0

\* The test that there is something to erase.
Erases == currentX > minX

\* A Backspace over a letter: prevX(1), and i-- twice against one i++.  At
\* index 0 the blank is written below the buffer.
Retreat ==
  \/ /\ Typed({"Backspace"}) /\ Erases
     /\ pc' = "back"
     /\ UNCHANGED <<keyBuffer, currentX, minX, buffer, i, reg, shared>>
  \/ Load("back", "retreat")
  \/ /\ Store("retreat", "get", reg - Width)
     /\ i' = i - 1
     /\ buffer' = [j \in Indexes |-> IF j = i - 1 THEN "blank" ELSE buffer[j]]

\* A key without effect: i-- and i++.
Ignore ==
  /\ Typed({"ESC"}) \/ (Typed({"Backspace"}) /\ ~Erases)
  /\ pc' = "get"
  /\ UNCHANGED <<keyBuffer, currentX, minX, buffer, i, reg, shared>>

End ==
  /\ Typed({"Enter", "Tab"})
  /\ pc' = "line"
  /\ UNCHANGED <<keyBuffer, currentX, minX, buffer, i, reg, shared>>

\* buffer[i] = 0; NewLine(); minX = aux; setCurrentX(minX).  aux is 0.
Finish ==
  /\ pc = "line"
  /\ pc' = "execute"
  /\ currentX' = 0 /\ minX' = 0
  /\ buffer' = [buffer EXCEPT ![i] = NoKey]
  /\ UNCHANGED <<keyBuffer, i, reg, shared>>

\* bufferInterpreter(): the command ends in a new line; LOOP leaves a process
\* that prints behind.
Execute ==
  /\ pc = "execute"
  /\ pc' = "dollar"
  /\ currentX' = 0
  /\ shared' \in {shared, TRUE}
  /\ UNCHANGED <<keyBuffer, minX, buffer, i, reg>>

ShellStep ==
  \/ Prompt \/ getChar \/ ReadTab \/ ReadTabSeesKey \/ ReadTabReturns
  \/ Advance \/ Retreat \/ Ignore \/ End \/ Finish \/ Execute

\* Another process ends a line on the screen.
OtherPrints ==
  /\ shared
  /\ currentX' \in PrinterColumns
  /\ UNCHANGED <<keyBuffer, minX, buffer, i, reg, pc, shared>>

Next == (\E key \in Keys : int_21(key)) \/ ShellStep \/ OtherPrints

\* The shell is never starved (NoStarvation of Scheduler), so a step it can
\* take, it takes; nothing is assumed of the user or of other processes.
Spec == Init /\ [][Next]_vars /\ WF_vars(ShellStep)

-----------------------------------------------------------------------------
(***************************************************************************)
(* Properties.                                                             *)
(***************************************************************************)

\* Types; the loop of getBuffer() leaves the last byte for the 0 it adds.
TypeOK ==
  /\ keyBuffer \in Letters \cup Special \cup {NoKey}
  /\ currentX \in Int /\ minX \in Nat /\ reg \in Int
  /\ buffer \in [Indexes -> Letters \cup Special \cup {"blank", NoKey}]
  /\ i <= BufferSize - 1
  /\ pc \in Prompts \cup Editing \cup {"execute"}
  /\ shared \in BOOLEAN

\* The index of the line, which a Backspace lowers with no look at it, never
\* goes below the buffer: the column of the cursor is enough of a guard while
\* the processes that print leave the cursor at the left margin, as LOOP and
\* endless_loop_print() do, and whenever they do it.
LineInBuffer == i >= 0

\* While nothing else prints, the cursor is where the index is, so that a
\* letter is drawn after the one before it and the one erased is the last.
CursorFollowsLine ==
  ~shared /\ pc \in {"get", "typed"} => currentX = minX + Width * i

\* The mapping to the user's view: the key that was taken, the line so far and
\* the line that is being run.
LineTyped == [j \in 1 .. i |-> buffer[j - 1]]
Hand ==
  CASE pc \in {"registers", "redraw"} -> "Tab"
    [] pc \in {"typed", "advance", "back", "retreat"} -> buffer[i]
    [] pc = "line" /\ i < BufferSize - 1 -> buffer[i]
    [] OTHER -> NoKey
Line == IF pc \in Editing THEN LineTyped ELSE <<>>
Command == IF pc = "execute" THEN LineTyped ELSE NoCommand

Editor == INSTANCE LineEditor WITH
  MaxLine <- BufferSize - 1, slot <- keyBuffer,
  hand <- Hand, line <- Line, command <- Command

\* Index, column and loop of getBuffer() do to the line what the keys say,
\* each key once and in order, and every key that waits is answered.
ImplementsEditor == Editor!Spec

=============================================================================
