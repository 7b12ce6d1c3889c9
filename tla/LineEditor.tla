----------------------------- MODULE LineEditor -----------------------------
(***************************************************************************)
(* What the console promises a user who types: keys wait in a place for    *)
(* one, where a later key replaces an earlier one; each key taken from it  *)
(* changes the line once, in the order taken; a line is run when Enter or  *)
(* Tab ends it or when it is full.  While another process prints on the    *)
(* screen a Backspace may be ignored.                                      *)
(***************************************************************************)
EXTENDS Sequences, SequencesExt, Naturals

CONSTANTS
  Letters,   \* keys that print
  Special,   \* the other keys that reach the program
  MaxLine,   \* characters of a full line
  NoKey, NoCommand

VARIABLES
  slot,      \* key that waits, or NoKey
  hand,      \* key that was taken and has not had its effect
  line,      \* what has been typed of the line
  command,   \* line that is being run, or NoCommand
  shared     \* another process prints

vars == <<slot, hand, line, command, shared>>

Init ==
  /\ slot = NoKey /\ hand = NoKey
  /\ line = <<>> /\ command = NoCommand
  /\ shared = FALSE

\* A key is pressed; one that has no character empties the place.
Press ==
  /\ slot' \in Letters \cup Special \cup {NoKey}
  /\ UNCHANGED <<hand, line, command, shared>>

Take ==
  /\ slot # NoKey
  /\ hand = NoKey /\ command = NoCommand /\ Len(line) < MaxLine
  /\ hand' = slot /\ slot' = NoKey
  /\ UNCHANGED <<line, command, shared>>

\* While the registers are on the screen keys are dropped.
Drop ==
  /\ hand = "Tab"
  /\ slot' = NoKey
  /\ UNCHANGED <<hand, line, command, shared>>

Erased == IF line = <<>> THEN {line}
          ELSE IF shared THEN {line, Front(line)} ELSE {Front(line)}

Apply ==
  /\ hand \in (Letters \cup Special) \ {"Enter", "Tab"}
  /\ hand' = NoKey
  /\ CASE hand \in Letters -> line' = Append(line, hand)
       [] hand = "Backspace" -> line' \in Erased
       [] OTHER -> line' = line
  /\ UNCHANGED <<slot, command, shared>>

Submit ==
  /\ hand \in {"Enter", "Tab"} \/ Len(line) = MaxLine
  /\ command = NoCommand
  /\ command' = line /\ line' = <<>> /\ hand' = NoKey
  /\ UNCHANGED <<slot, shared>>

\* The command runs to its end; it may have started a process that prints.
Run ==
  /\ command # NoCommand
  /\ command' = NoCommand
  /\ shared' \in {shared, TRUE}
  /\ UNCHANGED <<slot, hand, line>>

Next == Press \/ Take \/ Drop \/ Apply \/ Submit \/ Run

\* What keys may do to the line.
Safety == Init /\ [][Next]_vars

\* A key that waits is taken, and whatever was taken has its effect, but a
\* Tab waits for one more key.
Spec ==
  /\ Safety
  /\ WF_vars(Take) /\ WF_vars(Apply) /\ WF_vars(Run)
  /\ WF_vars(Submit /\ hand # "Tab")

=============================================================================
