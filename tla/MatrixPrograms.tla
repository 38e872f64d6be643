--------------------------- MODULE MatrixPrograms ---------------------------
(***************************************************************************)
(* The programs that drive the LED matrix, one of which is on the board:   *)
(* each is a module of its own over the same pins.  A program's actions    *)
(* leave the variables of the others at a fixed value.                     *)
(***************************************************************************)
EXTENDS LedMatrix

VARIABLES
  program,                          \* the program on the board
  pc, rows, cols,                   \* shared names of the programs
  a, b,                             \* MatrixPolled
  rowsArg, colsArg,                 \* MatrixOnPress
  attach, irq, cb, handler, level, pending,  \* ButtonIrq
  state, pressed,                   \* LampOnPress
  led, overrun                      \* LedWrite

Scan == INSTANCE LedScan
Polled == INSTANCE MatrixPolled
OnPress == INSTANCE MatrixOnPress
Lamp == INSTANCE LampOnPress
Write_led == INSTANCE LedWrite

position == <<rows, cols>>
polledVars == <<a, b>>
pressVars == <<rowsArg, colsArg>>
buttonVars == <<attach, irq, cb, handler, level, pending>>
lampVars == <<state, pressed>>
ledVars == <<led, overrun>>
vars == <<program, pc, matrixVars, position, polledVars, pressVars, buttonVars, lampVars, ledVars>>

NoPosition == rows = {} /\ cols = {}
NoPolled == a = 1 /\ b = 1
NoPress == rowsArg = {} /\ colsArg = {}
NoButton ==
  /\ attach = "uncalled" /\ level = 1
  /\ irq = FALSE /\ cb = FALSE /\ handler = FALSE /\ pending = FALSE
NoLamp == state = 0 /\ pressed = FALSE
NoLed == led = Write_led!Zero /\ overrun = FALSE

Init ==
  \/ program = "scan" /\ Scan!Init /\ NoPolled /\ NoPress /\ NoButton /\ NoLamp /\ NoLed
  \/ program = "polled" /\ Polled!Init /\ NoPress /\ NoButton /\ NoLamp /\ NoLed
  \/ program = "on_press" /\ OnPress!Init /\ NoPolled /\ NoLamp /\ NoLed
  \/ program = "lamp" /\ Lamp!Init /\ NoPosition /\ NoPolled /\ NoPress /\ NoLed
  \/ program = "write_led" /\ Write_led!Init
     /\ NoPosition /\ NoPolled /\ NoPress /\ NoButton /\ NoLamp

RunScan ==
  /\ program = "scan" /\ Scan!Next
  /\ UNCHANGED <<program, polledVars, pressVars, buttonVars, lampVars, ledVars>>

RunPolled ==
  /\ program = "polled" /\ Polled!Next
  /\ UNCHANGED <<program, pressVars, buttonVars, lampVars, ledVars>>

RunOnPress ==
  /\ program = "on_press" /\ OnPress!Next
  /\ UNCHANGED <<program, polledVars, lampVars, ledVars>>

RunLamp ==
  /\ program = "lamp" /\ Lamp!Next
  /\ UNCHANGED <<program, position, polledVars, pressVars, ledVars>>

RunWriteLed ==
  /\ program = "write_led" /\ Write_led!Next
  /\ UNCHANGED <<program, position, polledVars, pressVars, buttonVars, lampVars>>

Next == RunScan \/ RunPolled \/ RunOnPress \/ RunLamp \/ RunWriteLed

\* Each program with the fairness its module gives it.
Fairness ==
  /\ WF_vars(RunScan)
  /\ WF_vars(RunPolled /\ Polled!Main)
  /\ SF_vars(RunOnPress /\ OnPress!Thread)
  /\ WF_vars(RunOnPress /\ OnPress!Interrupts)
  /\ SF_vars(RunLamp /\ Lamp!Thread)
  /\ WF_vars(RunLamp /\ Lamp!Interrupts)

Spec == Init /\ [][Next]_vars /\ Fairness

(***************************************************************************)
(* Between two updates the three programs that move an LED show exactly    *)
(* one, whatever the buttons did meanwhile.                                *)
(***************************************************************************)
OneLedAtRest ==
  /\ program = "scan" => Scan!OneLedAtRest
  /\ program = "polled" => Polled!OneLedAtRest
  /\ program = "on_press" => OnPress!OneLedAtRest

\* While the scan moves along a row no two LEDs shine together (LedScan).
NoGhostInRow == program = "scan" => Scan!NoGhostInRow

(***************************************************************************)
(* Every LED is shown again and again: by the scan (LedScan), and by the   *)
(* polling program while A alone is held (MatrixPolled).                   *)
(***************************************************************************)
EveryLedShown ==
  /\ program = "scan" => Scan!EveryLedShown
  /\ program = "polled" => Polled!HoldingAVisitsAll

\* When the presses stop, the LED the position stands for stays lit (MatrixOnPress).
SettlesOnPosition == program = "on_press" => OnPress!SettlesOnPosition

\* After a press the matrix agrees with the state the next press acts on (LampOnPress).
LampFollowsState == program = "lamp" => Lamp!LampFollowsState

\* Presses switch the matrix on and off again and again (LampOnPress).
PressesToggle == program = "lamp" => Lamp!PressesToggle

\* The LEDs show led, all of its bytes, until a write is longer than it (LedWrite).
LedsShowValue == program = "write_led" => Write_led!LedsShowValue
=============================================================================
