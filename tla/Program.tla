------------------------------ MODULE Program -------------------------------
(***************************************************************************)
(* A main function: statements that run once and statements that run for   *)
(* ever.  A start-up that fails ends in while(1), or main returns.         *)
(***************************************************************************)
EXTENDS Naturals, Sequences

VARIABLES
  board,  \* the program on the board
  at      \* index of the next statement; 0 once the program has stopped

programVars == <<board, at>>

\* In the place of a program that is not on the board.
Other == [setup |-> <<>>, loop |-> <<>>]

Body(p) == p.setup \o p.loop

\* The statement program p is at.
At(p, statement) == at \in DOMAIN Body(p) /\ Body(p)[at] = statement

Advance(p) ==
  /\ at' = IF at < Len(Body(p)) THEN at + 1 ELSE Len(p.setup) + 1
  /\ UNCHANGED board

\* while(1), or the end of main
Stop == at' = 0 /\ UNCHANGED board

\* continue: back to the start of the loop.
Again(p) == at' = Len(p.setup) + 1 /\ UNCHANGED board

Repeat == UNCHANGED programVars
=============================================================================
