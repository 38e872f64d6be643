--------------------------- MODULE MatrixOnPress ---------------------------
(***************************************************************************)
(* buttons_with_matrix_with_interrupts/src/main.c: each press of button A  *)
(* moves the LED on.  The interrupt updates rows and cols while the main   *)
(* loop reads one after the other for a call of matrix_put_pattern.        *)
(***************************************************************************)
EXTENDS LedMatrix, ButtonIrq, FiniteSets

None == {}

VARIABLES
  pc, rows, cols,
  rowsArg, colsArg   \* arguments main has already read; None before that

args == <<rowsArg, colsArg>>
vars == <<pc, rows, cols, args, matrixVars, buttonVars>>

Init ==
  /\ MatrixInit /\ ButtonInit
  /\ pc = "begin"
  /\ rows = {1} /\ cols = {1}
  /\ rowsArg = None /\ colsArg = None

Main(from) == pc = from /\ AtRest /\ ~pending

\* matrix_begin, buttons_begin: the program stops if either finds no device.
Begin ==
  /\ Main("begin")
  /\ \/ pc' = "attach" /\ matrix_begin
     \/ pc' = "dead" /\ (matrix_begin \/ UNCHANGED matrixVars)
  /\ UNCHANGED <<rows, cols, args, buttonVars>>

AttachButton ==
  /\ Main("attach")
  /\ CallAttach \/ Attach
  /\ pc' = IF attach' = "done" THEN "read" ELSE pc
  /\ UNCHANGED <<rows, cols, args, matrixVars>>

\* C leaves open which of the two volatile arguments is read first.
ReadArgument ==
  /\ Main("read")
  /\ \/ rowsArg = None /\ rowsArg' = rows /\ UNCHANGED colsArg
     \/ colsArg = None /\ colsArg' = cols /\ UNCHANGED rowsArg
  /\ UNCHANGED <<pc, rows, cols, matrixVars, buttonVars>>

Show ==
  /\ Main("read") /\ pc' = "sleep"
  /\ rowsArg # None /\ colsArg # None
  /\ Call(matrix_put_pattern(rowsArg, Not(colsArg)))
  /\ UNCHANGED <<rows, cols, args, buttonVars>>

\* Mutant: the loop only shows what it read at first.
WakeKeepsArguments ==
  /\ Main("sleep") /\ pc' = "read"
  /\ UNCHANGED <<rows, cols, args, matrixVars, buttonVars>>

\* k_msleep(100)
Wake ==
  /\ Main("sleep") /\ pc' = "read"
  /\ rowsArg' = None /\ colsArg' = None
  /\ UNCHANGED <<rows, cols, matrixVars, buttonVars>>

Pin ==
  /\ SetPin /\ ~pending
  /\ UNCHANGED <<pc, rows, cols, args, buttonVars>>

button_a_pressed ==
  /\ Served
  /\ IF PastLast(Shift(cols))
     THEN /\ cols' = {1}
          /\ rows' = IF PastLast(Shift(rows)) THEN {1} ELSE Shift(rows)
     ELSE cols' = Shift(cols) /\ UNCHANGED rows
  /\ UNCHANGED <<pc, args, matrixVars>>

Ignored == Unserved /\ UNCHANGED <<pc, rows, cols, args, matrixVars>>

Push == MoveButton /\ UNCHANGED <<pc, rows, cols, args, matrixVars>>

Thread == Begin \/ AttachButton \/ ReadArgument \/ Show \/ Wake \/ Pin

Next == Thread \/ button_a_pressed \/ Ignored \/ Push

Safety == Init /\ [][Next]_vars

\* Interrupts are served, and the main thread runs between them unless it
\* is preempted without end.
Interrupts == button_a_pressed \/ Ignored

Spec == Safety /\ SF_vars(Thread) /\ WF_vars(Interrupts)

(***************************************************************************)
(* A press between the reads of rows and cols (line 45) may tear the pair, *)
(* but what is shown is still one LED of the matrix.                       *)
(***************************************************************************)
OneLedAtRest ==
  pc = "sleep" /\ AtRest => Lit = rowsArg \X colsArg /\ Cardinality(Lit) = 1

(***************************************************************************)
(* A torn pair does not last: when the presses stop, the LED rows and cols *)
(* stand for is the one that stays lit, if the program came to its loop    *)
(* (lines 43-48).                                                          *)
(***************************************************************************)
SettlesOnPosition ==
  <>(pc = "read") /\ <>[][UNCHANGED <<rows, cols>>]_vars => <>[](AtRest => Lit = rows \X cols)
=============================================================================
