----------------------------- MODULE MCTerminal -----------------------------
(***************************************************************************)
(* An instance of Terminal for TLC.                                        *)
(***************************************************************************)
EXTENDS Terminal

\* LOOP ends its lines with NewLine(): the cursor is left at the margin.
LeftMargin == {0}

=============================================================================
