---------------------------- MODULE MatrixPolled ----------------------------
(***************************************************************************)
(* buttons_with_matrix/src/main.c: holding button A moves the lit LED on,  *)
(* button B takes it back to the first one.  The loop polls both.          *)
(***************************************************************************)
EXTENDS LedMatrix, FiniteSets

VARIABLES pc, rows, cols,
          a, b           \* levels of the button pins; 0 while pressed

program == <<pc, rows, cols>>
vars == <<program, a, b, matrixVars>>

Init ==
  /\ MatrixInit
  /\ pc = "begin"
  /\ rows = {1} /\ cols = {1}
  /\ a \in {0, 1} /\ b \in {0, 1}

Goto(from, to) == pc = from /\ pc' = to /\ AtRest

\* matrix_begin, buttons_begin: the program stops if either finds no device.
Begin ==
  /\ \/ Goto("begin", "show") /\ matrix_begin
     \/ Goto("begin", "dead") /\ (matrix_begin \/ UNCHANGED matrixVars)
  /\ UNCHANGED <<rows, cols, a, b>>

Show ==
  /\ Goto("show", "pollA")
  /\ Call(matrix_put_pattern(rows, Not(cols)))
  /\ UNCHANGED <<rows, cols, a, b>>

PollA ==
  /\ Goto("pollA", "pollB")
  /\ cols' = IF a = 0 THEN Shift(cols) ELSE cols
  /\ UNCHANGED <<rows, a, b, matrixVars>>

PollB ==
  /\ Goto("pollB", "wrap")
  /\ IF b = 0 THEN rows' = {1} /\ cols' = {1} ELSE UNCHANGED <<rows, cols>>
  /\ UNCHANGED <<a, b, matrixVars>>

Wrap ==
  /\ Goto("wrap", "show")
  /\ IF PastLast(cols)
     THEN /\ cols' = {1}
          /\ rows' = IF PastLast(Shift(rows)) THEN {1} ELSE Shift(rows)
     ELSE UNCHANGED <<rows, cols>>
  /\ UNCHANGED <<a, b, matrixVars>>

Pin == SetPin /\ UNCHANGED <<program, a, b>>

\* External: somebody presses or releases a button.
MoveButton ==
  /\ \/ a' = 1 - a /\ UNCHANGED b
     \/ b' = 1 - b /\ UNCHANGED a
  /\ UNCHANGED <<program, matrixVars>>

Main == Begin \/ Show \/ PollA \/ PollB \/ Wrap \/ Pin

Next == Main \/ MoveButton

\* The program's only thread keeps running.
Spec == Init /\ [][Next]_vars /\ WF_vars(Main)

(***************************************************************************)
(* Whatever the buttons do, one LED is lit between two updates (line 30).  *)
(***************************************************************************)
OneLedAtRest == pc = "pollA" /\ AtRest => Lit = rows \X cols /\ Cardinality(Lit) = 1

(***************************************************************************)
(* Holding A alone visits every LED again and again, if the program came   *)
(* to its loop (lines 31-34, 39-47).                                       *)
(***************************************************************************)
HoldingAVisitsAll ==
  <>(pc = "show") /\ <>[](a = 0 /\ b = 1) => \A p \in Lines \X Lines : []<>(Lit = {p})
=============================================================================
