------------------------------ MODULE MCSnake ------------------------------
(***************************************************************************)
(* An instance of Snake for TLC: five columns, three of them declared, and *)
(* a list of numbers of neighbouring squares, which one snake can cover.   *)
(***************************************************************************)
EXTENDS Snake

Heads == <<<<2, 1>>, <<2, 2>>>>
Numbers == [i \in 0 .. RandQty - 1 |-> CASE i = 0 -> 8
                                         [] i = 1 -> 13
                                         [] OTHER -> 9]
Lengths == <<6, 4>>

=============================================================================
