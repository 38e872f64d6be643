------------------------------ MODULE LedWrite ------------------------------
(***************************************************************************)
(* microbit_demo/src/main.c, the LED characteristic: a central writes a    *)
(* number, all LEDs go on unless the number is 0.  A write replaces as     *)
(* many bytes of led as it brings, the lowest ones first, and of whatever  *)
(* follows led in memory if it brings more.                                *)
(***************************************************************************)
EXTENDS LedMatrix

Bytes == 1 .. 4    \* sizeof(led)
Longest == 5       \* bound on the length of a write; the link's on the board
Content == {0, 1}  \* zero and non-zero bytes

VARIABLES
  pc, led,
  overrun   \* history: a write was longer than led

vars == <<pc, led, overrun, matrixVars>>

Zero == [i \in Bytes |-> 0]
All == Lines \X Lines

Init ==
  /\ MatrixInit
  /\ pc = "begin"
  /\ led = Zero
  /\ overrun = FALSE

\* buttons_begin, matrix_begin: the program stops if either finds no device.
Begin ==
  /\ pc = "begin"
  /\ \/ pc' = "off" /\ matrix_begin
     \/ pc' = "dead" /\ UNCHANGED matrixVars
  /\ UNCHANGED <<led, overrun>>

\* while(1); and what is left of the program after a fault.
Hang == pc = "dead" /\ UNCHANGED vars

\* main switches everything off once more, then starts Bluetooth.
Off ==
  /\ pc = "off" /\ pc' = "loop"
  /\ Call(matrix_all_off)
  /\ UNCHANGED <<led, overrun>>

\* memcpy, as far as led goes.
Overwritten(data) == [i \in Bytes |-> IF i \in DOMAIN data THEN data[i] ELSE led[i]]

\* Mutant: what was written is tested, not what led has become.
WriteTestsData(data) ==
  /\ pc = "loop"
  /\ led' = Overwritten(data)
  /\ overrun' = (overrun \/ Len(data) > 4)
  /\ Call(IF \A i \in DOMAIN data : data[i] = 0
          THEN matrix_all_off ELSE matrix_put_pattern(Lines, Not(Lines)))
  /\ UNCHANGED pc

write_led(data) ==
  /\ pc = "loop"
  /\ led' = Overwritten(data)
  /\ overrun' = (overrun \/ Len(data) > 4)
  /\ Call(IF led' = Zero THEN matrix_all_off ELSE matrix_put_pattern(Lines, Not(Lines)))
  /\ UNCHANGED pc

Pin == SetPin /\ UNCHANGED <<pc, led, overrun>>

\* What follows led is up to the linker: the ports' addresses may be spoilt, so
\* that a pin write goes elsewhere, or an address may lead to a fault.
Spoilt ==
  /\ overrun
  /\ \/ todo # <<>> /\ todo' = Tail(todo) /\ UNCHANGED pc
     \/ pc = "loop" /\ pc' = "dead" /\ todo' = <<>>
  /\ UNCHANGED <<led, overrun, row, col>>

Next ==
  \/ Begin \/ Off \/ Pin \/ Spoilt \/ Hang
  \/ \E n \in 0 .. Longest : \E data \in [1 .. n -> Content] : write_led(data)

Spec == Init /\ [][Next]_vars

Shown == IF led = Zero THEN {} ELSE All

(***************************************************************************)
(* Between two updates the LEDs show led, all of it: they are on exactly   *)
(* when some byte is not 0, however few bytes the last write had (lines    *)
(* 303-311).  This is so until a write is longer than led, which the code  *)
(* lets pass.                                                              *)
(***************************************************************************)
LedsShowValue == pc = "loop" /\ AtRest /\ ~overrun => Lit = Shown
=============================================================================
