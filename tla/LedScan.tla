------------------------------ MODULE LedScan ------------------------------
(***************************************************************************)
(* led_matrix/src/main.c: one LED after another, row by row.               *)
(***************************************************************************)
EXTENDS LedMatrix, FiniteSets

VARIABLES pc, rows, cols

vars == <<pc, rows, cols, matrixVars>>

Init ==
  /\ MatrixInit
  /\ pc = "begin"
  /\ rows = {1} /\ cols = {1}

\* The program stops if a device is missing.
Begin ==
  /\ pc = "begin"
  /\ \/ pc' = "show" /\ matrix_begin
     \/ pc' = "dead" /\ UNCHANGED matrixVars
  /\ UNCHANGED <<rows, cols>>

\* while(1);
Hang == pc = "dead" /\ UNCHANGED vars

Show ==
  /\ pc = "show" /\ pc' = "advance"
  /\ Call(matrix_put_pattern(rows, Not(cols)))
  /\ UNCHANGED <<rows, cols>>

\* The shift and the two wrap-arounds, then k_msleep(100).
Advance ==
  /\ pc = "advance" /\ pc' = "show"
  /\ AtRest
  /\ IF PastLast(Shift(cols))
     THEN /\ cols' = {1}
          /\ rows' = IF PastLast(Shift(rows)) THEN {1} ELSE Shift(rows)
     ELSE cols' = Shift(cols) /\ UNCHANGED rows
  /\ UNCHANGED matrixVars

Pin == SetPin /\ UNCHANGED <<pc, rows, cols>>

Next == Begin \/ Show \/ Advance \/ Pin \/ Hang

\* The program's only thread keeps running.
Spec == Init /\ [][Next]_vars /\ WF_vars(Next)

(***************************************************************************)
(* Between two updates exactly one LED is lit, the one rows and cols name  *)
(* (line 21).                                                              *)
(***************************************************************************)
OneLedAtRest == pc = "advance" /\ AtRest => Lit = rows \X cols /\ Cardinality(Lit) = 1

(***************************************************************************)
(* While the scan moves along a row no two LEDs shine together, not even   *)
(* between two pin writes: the old column is switched off before the next  *)
(* one goes on (matrix.c lines 103-111).  At a change of row two do.       *)
(***************************************************************************)
NoGhostInRow == cols # {1} => Cardinality(Lit) <= 1

(***************************************************************************)
(* Every LED has its turn, again and again, if the matrix was there (lines *)
(* 22-31).                                                                 *)
(***************************************************************************)
EveryLedShown == <>(pc = "show") => \A p \in Lines \X Lines : []<>(Lit = {p})
=============================================================================
