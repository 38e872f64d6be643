---------------------------- MODULE LampOnPress ----------------------------
(***************************************************************************)
(* buttons_with_interrupt/src/main.c: each press of button A switches the  *)
(* whole matrix, from the interrupt itself; the main thread only sets up   *)
(* and sleeps.                                                             *)
(***************************************************************************)
EXTENDS LedMatrix, ButtonIrq

VARIABLES
  pc,
  state,     \* the static variable of my_button_a_callback
  pressed    \* history: the callback has run

vars == <<pc, state, pressed, matrixVars, buttonVars>>

All == Lines \X Lines

Init ==
  /\ MatrixInit /\ ButtonInit
  /\ pc = "begin"
  /\ state = 0
  /\ pressed = FALSE

\* buttons_begin, matrix_begin: main returns if either finds no device.
Begin ==
  /\ pc = "begin"
  /\ \/ pc' = "attach" /\ matrix_begin
     \/ pc' = "dead" /\ UNCHANGED matrixVars
  /\ UNCHANGED <<state, pressed, buttonVars>>

AttachButton ==
  /\ pc = "attach" /\ AtRest
  /\ CallAttach \/ Attach
  /\ pc' = IF attach' = "done" THEN "sleep" ELSE pc
  /\ UNCHANGED <<state, pressed, matrixVars>>

Pin == SetPin /\ UNCHANGED <<pc, state, pressed, buttonVars>>

\* Mutant: the state is only changed after it was 0.
CallbackSticks ==
  /\ Served
  /\ Call(matrix_put_pattern(IF state = 1 THEN Lines ELSE {}, {}))
  /\ state' = 1
  /\ pressed' = TRUE
  /\ UNCHANGED pc

\* Mutant: the two patterns are swapped.
CallbackSwapped ==
  /\ Served
  /\ Call(matrix_put_pattern(IF state = 1 THEN {} ELSE Lines, {}))
  /\ state' = 1 - state
  /\ pressed' = TRUE
  /\ UNCHANGED pc

\* An interrupt is not interrupted by the next one: AtRest, in Call.
my_button_a_callback ==
  /\ Served
  /\ Call(matrix_put_pattern(IF state = 1 THEN Lines ELSE {}, {}))
  /\ state' = 1 - state
  /\ pressed' = TRUE
  /\ UNCHANGED pc

Ignored == Unserved /\ UNCHANGED <<pc, state, pressed, matrixVars>>

Push == MoveButton /\ UNCHANGED <<pc, state, pressed, matrixVars>>

Thread == Begin \/ AttachButton \/ Pin
Interrupts == my_button_a_callback \/ Ignored

Next == Thread \/ Interrupts \/ Push

\* Interrupts are served, and what they call goes on; the thread runs unless
\* it is preempted without end.
Spec == Init /\ [][Next]_vars /\ SF_vars(Thread) /\ WF_vars(Interrupts)

(***************************************************************************)
(* After a press the matrix agrees with the state the next press will act  *)
(* on (lines 31-43), even when presses come during an update.              *)
(***************************************************************************)
LampFollowsState ==
  pressed /\ AtRest => Lit = IF state = 0 THEN All ELSE {}

(***************************************************************************)
(* With the button attached, pressing again and again switches the matrix  *)
(* on and off again and again (lines 31-43).                               *)
(***************************************************************************)
PressesToggle ==
  <>[]Attached /\ []<>pending => []<>(Lit = All) /\ []<>(Lit = {})
=============================================================================
