----------------------------- MODULE GpioLoops ------------------------------
(***************************************************************************)
(* The programs of one loop around a pin: blinking, copying a button to an *)
(* LED, switching it from the button's interrupt, and blinking before a    *)
(* value of a sensor driver is printed.                                    *)
(***************************************************************************)
EXTENDS Program

VARIABLES
  configured,  \* pins whose configuration has succeeded
  out,         \* pins whose output is high
  level,       \* of the button's pin; 0 while button A is pressed
  seen,        \* whether the loop saw the pin low
  edge,        \* the button's interrupt is pending
  sample,      \* the sensor driver's sample: "none", "old" or "new"
  value        \* the loop's copy of it

gpioVars == <<configured, out, level, seen, edge, sample, value>>

(***************************************************************************)
(* The programs                                                            *)
(***************************************************************************)
blink == <<"on", "off">>
print == <<"fetch", "get", "print">>

memory_io370 == [setup |-> <<"direction", "cathode">>, loop |-> blink]
memory_btn370 == [setup |-> <<"connect", "direction", "cathode">>, loop |-> <<"test">> \o blink]
basic_io370 == [setup |-> <<"anode_pin", "cathode_pin", "cathode">>, loop |-> blink]
blinky310 == [setup |-> <<"pin_2">>, loop |-> blink]
blinky260 == [setup |-> <<"pin_2">>, loop |-> blink]
button310 == [setup |-> <<"pin_2", "button">>, loop |-> <<"read", "copy">>]
button260 == [setup |-> <<"pin_2", "button">>, loop |-> <<"read", "copy">>]
toggle310 == [setup |-> <<"pin_2", "button", "interrupt", "callback">>, loop |-> <<"spin">>]
toggle260 == [setup |-> <<"pin_2", "button", "interrupt", "callback">>, loop |-> <<"spin">>]
buttons370 == [setup |-> <<"buttons_begin", "matrix_begin">>, loop |-> <<"read", "put_pattern">>]
accelerometer310 == [setup |-> <<"pin_2">>, loop |-> blink \o print]
accelerometer260 == [setup |-> <<"pin_2">>, loop |-> blink \o print]
magnetometer310 == [setup |-> <<"pin_2">>, loop |-> blink \o print]
magnetometer260 == [setup |-> <<"pin_2">>, loop |-> blink \o print]
temperature370 == [setup |-> <<>>, loop |-> print]

Programs ==
  [memory_io370 |-> memory_io370, memory_btn370 |-> memory_btn370, basic_io370 |-> basic_io370,
   blinky310 |-> blinky310, blinky260 |-> blinky260, button310 |-> button310, button260 |-> button260,
   toggle310 |-> toggle310, toggle260 |-> toggle260, buttons370 |-> buttons370,
   accelerometer310 |-> accelerometer310, accelerometer260 |-> accelerometer260,
   magnetometer310 |-> magnetometer310, magnetometer260 |-> magnetometer260,
   temperature370 |-> temperature370]
Boards == DOMAIN Programs
main == IF board \in Boards THEN Programs[board] ELSE Other

InMatrix == board \in {"memory_io370", "memory_btn370", "basic_io370"}
Copying == {"button310", "button260", "buttons370"}
Toggling == {"toggle310", "toggle260"}
Serial == {"accelerometer310", "accelerometer260", "magnetometer310", "magnetometer260"}
Blinking == Serial \cup {"memory_io370", "basic_io370", "blinky310", "blinky260"}
WithButton == Copying \cup Toggling \cup {"memory_btn370"}

\* The pin the loop writes: 0.21, the anode of an LED whose cathode is 0.28, or 0.2.
Led == IF InMatrix THEN "anode_pin" ELSE "pin_2"

Lit == Led \in configured \cap out /\ (InMatrix => "cathode_pin" \in configured \ out)

Init ==
  /\ board \in Boards /\ at = 1
  /\ configured = {} /\ out = {}
  /\ level \in IF board \in WithButton THEN {0, 1} ELSE {1}
  /\ seen = FALSE /\ edge = FALSE /\ sample = "none" /\ value = "none"

(***************************************************************************)
(* Start-up                                                                *)
(***************************************************************************)
\* gpio_pin_configure and its like: no caller looks at the result.
Configure ==
  \E s \in {"pin_2", "anode_pin", "cathode_pin", "button", "interrupt", "callback"} :
    /\ At(main, s) /\ Advance(main)
    /\ configured' \in {configured, configured \cup {s}}
    /\ UNCHANGED <<out, level, seen, edge, sample, value>>

\* Registers written directly: nothing can fail.
MapRegisters ==
  /\ Advance(main)
  /\ \/ At(main, "connect") /\ configured' = configured \cup {"button"}
     \/ At(main, "direction") /\ configured' = configured \cup {"anode_pin", "cathode_pin"}
  /\ UNCHANGED <<out, level, seen, edge, sample, value>>

DriveCathodeLow ==
  /\ At(main, "cathode") /\ Advance(main)
  /\ out' = out \ {"cathode_pin"}
  /\ UNCHANGED <<configured, level, seen, edge, sample, value>>

\* A failure ends main; buttons_begin itself looks at no result.
Begin ==
  /\ \/ At(main, "buttons_begin") /\ configured' \in {configured, configured \cup {"button"}}
     \/ At(main, "matrix_begin") /\ configured' = configured \cup {"pin_2"}
  /\ Advance(main) \/ Stop
  /\ UNCHANGED <<out, level, seen, edge, sample, value>>

(***************************************************************************)
(* The loops                                                               *)
(***************************************************************************)
Switch ==
  /\ \/ At(main, "on") /\ out' = out \cup {Led}
     \/ At(main, "off") /\ out' = out \ {Led}
  /\ Advance(main)
  /\ UNCHANGED <<configured, level, seen, edge, sample, value>>

\* P0_IN, gpio_pin_get: a pin that is not connected reads anything.
Low == IF "button" \in configured THEN {level = 0} ELSE BOOLEAN

\* memory_mapped_btn blinks once for each time it sees the button pressed.
Test ==
  /\ At(main, "test")
  /\ \/ TRUE \in Low /\ Advance(main)
     \/ FALSE \in Low /\ Repeat
  /\ UNCHANGED gpioVars

Read ==
  /\ At(main, "read") /\ Advance(main)
  /\ seen' \in Low
  /\ UNCHANGED <<configured, out, level, edge, sample, value>>

\* Mutant: the level of the pin is copied, as if nothing inverted it.
CopyLevel ==
  /\ At(main, "copy") \/ At(main, "put_pattern")
  /\ Advance(main)
  /\ out' = IF seen THEN {} ELSE {Led}
  /\ UNCHANGED <<configured, level, seen, edge, sample, value>>

\* The button is active low for the device tree, hence for gpio_pin_get_dt,
\* and a plain input for get_buttonA, which returns 0 while it is pressed.
Copy ==
  /\ At(main, "copy") \/ At(main, "put_pattern")
  /\ Advance(main)
  /\ out' = IF seen <=> At(main, "copy") THEN {Led} ELSE {}
  /\ UNCHANGED <<configured, level, seen, edge, sample, value>>

(***************************************************************************)
(* The sensor drivers                                                      *)
(***************************************************************************)
Fetch ==
  /\ At(main, "fetch")
  /\ \/ sample' = "new" /\ Advance(main)
     \/ UNCHANGED sample /\ IF board \in Serial THEN Again(main) ELSE Advance(main)
  /\ UNCHANGED <<configured, out, level, seen, edge, value>>

Get ==
  /\ At(main, "get")
  /\ \/ value' = sample /\ Advance(main)
     \/ UNCHANGED value /\ IF board \in Serial THEN Again(main) ELSE Advance(main)
  /\ UNCHANGED <<configured, out, level, seen, edge, sample>>

\* What was printed is no longer new.
Aged(s) == IF s = "new" THEN "old" ELSE s

PrintSample ==
  /\ At(main, "print") /\ Advance(main)
  /\ sample' = Aged(sample) /\ value' = Aged(value)
  /\ UNCHANGED <<configured, out, level, seen, edge>>

Main ==
  \/ Configure \/ MapRegisters \/ DriveCathodeLow \/ Begin
  \/ Switch \/ Test \/ Read \/ Copy \/ Fetch \/ Get \/ PrintSample

(***************************************************************************)
(* The button                                                              *)
(***************************************************************************)
MoveButton ==
  /\ board \in WithButton
  /\ level' = 1 - level
  /\ edge' = (edge \/ (level = 1 /\ board \in Toggling /\ {"button", "interrupt"} \subseteq configured))
  /\ UNCHANGED <<programVars, configured, out, seen, sample, value>>

\* gpio_pin_toggle, if the callback was added.
button_a_pressed ==
  /\ edge /\ edge' = FALSE
  /\ out' = IF "callback" \notin configured THEN out
            ELSE IF Led \in out THEN out \ {Led} ELSE out \cup {Led}
  /\ UNCHANGED <<programVars, configured, level, seen, sample, value>>

Next == Main \/ MoveButton \/ button_a_pressed

(***************************************************************************)
(* Properties                                                              *)
(***************************************************************************)
Working == at # 0 /\ Led \in configured /\ (InMatrix => "cathode_pin" \in configured)
Answering == Working /\ "button" \in configured
Interrupting == Answering /\ {"interrupt", "callback"} \subseteq configured

OnAndOff == []<>Lit /\ []<>~Lit

(***************************************************************************)
(* Once its pins could be configured, the LED does what the program's loop *)
(* and handler are for.  One that blinks does so for ever, by itself or    *)
(* while the button is held.  One that shows the button settles on what    *)
(* the button settles on (buttons_begin reads it the other way round).     *)
(* One that is toggled by the button's interrupt (line 16 of the handler,  *)
(* whatever line 10 says) goes on and off for ever as long as presses      *)
(* come, those made during start-up included: none leaves an edge pending  *)
(* for ever.  That each press counts is not said: one made before the      *)
(* interrupt of the last was served is lost in it.                         *)
(***************************************************************************)
LampsAnswer ==
  /\ board \in Blinking => (<>[]Working => OnAndOff)
  /\ board = "memory_btn370" => (<>[](Answering /\ level = 0) => OnAndOff)
  /\ board = "memory_btn370" => (<>[](Answering /\ level = 1) => <>[]~Lit)
  /\ board \in Copying => (<>[](Answering /\ level = 0) => <>[](Lit <=> board # "buttons370"))
  /\ board \in Copying => (<>[](Answering /\ level = 1) => <>[](Lit <=> board = "buttons370"))
  /\ board \in Toggling => (<>[]Interrupting /\ []<>(level = 0) /\ []<>(level = 1) => OnAndOff)

(***************************************************************************)
(* The serial programs print what they fetched in this turn of the loop,   *)
(* never an older or an uninitialised value, whichever of the two calls    *)
(* fails (lines 34-53).  The temperature program goes on after a failure.  *)
(***************************************************************************)
PrintsFresh == board \in Serial /\ At(main, "print") => value = "new"
=============================================================================
