---------------------------- MODULE Peripherals -----------------------------
(***************************************************************************)
(* The programs around one peripheral, one of which is on the board: each  *)
(* group is a module of its own.  StepSensor counts on every board that    *)
(* carries the LSM303 driver and stands here for the program "steps".      *)
(***************************************************************************)
EXTENDS StepSensor

CONSTANTS
  Explored,  \* the programs explored
  Voltages,  \* what the converter can measure
  Width,     \* of the shift register
  Turns,     \* turns until the screen is cleared
  MaxDrawn   \* bound on the numbers drawn

VARIABLES
  board, at,
  accepted, failed, low, reading,                         \* Readings
  bus, busy, measurement, asked, temperature, pressure,   \* PressureMonitor
  channel_0_data, adcvalue, duty, voltage, written,       \* AnalogLoop
  shift_register, shapes, drawn,                          \* Numbers
  configured, out, level, seen, edge, sample, value       \* GpioLoops

Lsm == INSTANCE Readings
Bmp == INSTANCE PressureMonitor
Analog == INSTANCE AnalogLoop
Demo == INSTANCE Numbers WITH count <- shapes
Gpio == INSTANCE GpioLoops

programVars == <<board, at>>
readingVars == <<accepted, failed, low, reading>>
monitorVars == <<bus, busy, measurement, asked, temperature, pressure>>
analogVars == <<channel_0_data, adcvalue, duty, voltage, written>>
numbersVars == <<shift_register, shapes, drawn>>
gpioVars == <<configured, out, level, seen, edge, sample, value>>
allVars == <<vars, programVars, readingVars, monitorVars, analogVars, numbersVars, gpioVars>>

ASSUME PeripheralsAssumption ==
  /\ Voltages \subseteq -4095 .. 4095
  /\ Width \in Nat \ (0 .. 4) /\ Turns \in Nat /\ MaxDrawn \in Nat
  /\ Explored \subseteq {"steps"} \cup Lsm!Boards \cup Bmp!Boards \cup Analog!Boards
                          \cup Demo!Boards \cup Gpio!Boards

NoSteps == Init /\ driver = "3.7.0" /\ held = FALSE
NoReadings == accepted = {} /\ failed = {} /\ low = Lsm!Unread /\ reading = Lsm!None
NoMonitor ==
  /\ bus = "up" /\ busy = FALSE /\ measurement = 0
  /\ asked = Bmp!Refused /\ temperature = {} /\ pressure = {}
NoAnalog ==
  /\ channel_0_data = 0 /\ adcvalue = 0 /\ duty = 0
  /\ voltage = Analog!Missed /\ written = FALSE
NoNumbers == shift_register = Demo!Seed /\ shapes = 0 /\ drawn = 0
NoGpio ==
  /\ configured = {} /\ out = {} /\ level = 1
  /\ seen = FALSE /\ edge = FALSE /\ sample = "none" /\ value = "none"

PeripheralsInit ==
  /\ board \in Explored /\ at = 1
  /\ IF board = "steps" THEN Init ELSE NoSteps
  /\ IF board \in Lsm!Boards THEN Lsm!Init ELSE NoReadings
  /\ IF board \in Bmp!Boards THEN Bmp!Init ELSE NoMonitor
  /\ IF board \in Analog!Boards THEN Analog!Init ELSE NoAnalog
  /\ IF board \in Demo!Boards THEN Demo!Init ELSE NoNumbers
  /\ IF board \in Gpio!Boards THEN Gpio!Init ELSE NoGpio

\* Steps of a program leave the variables of the others alone.
Steps(A) ==
  /\ board = "steps" /\ A
  /\ UNCHANGED <<programVars, readingVars, monitorVars, analogVars, numbersVars, gpioVars>>

Reads(A) ==
  /\ board \in Lsm!Boards /\ A
  /\ UNCHANGED <<vars, monitorVars, analogVars, numbersVars, gpioVars>>

Monitors(A) ==
  /\ board \in Bmp!Boards /\ A
  /\ UNCHANGED <<vars, readingVars, analogVars, numbersVars, gpioVars>>

Converts(A) ==
  /\ board \in Analog!Boards /\ A
  /\ UNCHANGED <<vars, readingVars, monitorVars, numbersVars, gpioVars>>

Draws(A) ==
  /\ board \in Demo!Boards /\ A
  /\ UNCHANGED <<vars, readingVars, monitorVars, analogVars, gpioVars>>

Switches(A) ==
  /\ board \in Gpio!Boards /\ A
  /\ UNCHANGED <<vars, readingVars, monitorVars, analogVars, numbersVars>>

PeripheralsNext ==
  \/ Steps(Next) \/ Reads(Lsm!Next) \/ Monitors(Bmp!Next)
  \/ Converts(Analog!Next) \/ Draws(Demo!Next) \/ Switches(Gpio!Next)

\* The processor runs, interrupts are served, the interface MCU boots and a
\* measurement ends.
PeripheralsFairness ==
  /\ WF_allVars(Steps(Driver))
  /\ WF_allVars(Steps(stepcount_handler))
  /\ WF_allVars(Steps(InterfaceBoots))
  /\ WF_allVars(Monitors(Bmp!Main))
  /\ WF_allVars(Monitors(Bmp!MeasurementEnds))
  /\ WF_allVars(Switches(Gpio!Main))
  /\ WF_allVars(Switches(Gpio!button_a_pressed))

PeripheralsSpec == PeripheralsInit /\ [][PeripheralsNext]_allVars /\ PeripheralsFairness

(***************************************************************************)
(* Properties                                                              *)
(***************************************************************************)
\* A read function returns what was measured, whole and in scale (Readings).
ReadingsWhole == board \in Lsm!Boards => Lsm!ReadingsWhole

\* What is shown is of the measurement just asked for: temperature and pressure
\* of one measurement (PressureMonitor), a sample just fetched (GpioLoops).
ShowsWhatItRead ==
  /\ board \in Bmp!Boards => Bmp!OneMeasurement
  /\ board \in Gpio!Boards => Gpio!PrintsFresh

\* The pressure monitor outlives a bus that failed (PressureMonitor).
MonitorGoesOn == board \in Bmp!Boards => Bmp!MonitorGoesOn

\* The duty stands for the voltage, over the whole range (AnalogLoop).
PulseInProportion == board \in Analog!Boards => Analog!PulseInProportion

\* Lines 4 and 34 of analog_io/src/main.c: "outputs a PWM signal in proportion
\* to this", for every voltage that was converted (AnalogLoop).
InProportion == board \in Analog!Boards => Analog!InProportion

\* The numbers come from a sequence of maximum length (Numbers).
MaximumLength == board \in Demo!Boards => Demo!MaximumLength

\* LEDs blink, follow the button or are toggled by its presses (GpioLoops).
LampsAnswer == board \in Gpio!Boards => Gpio!LampsAnswer
=============================================================================
