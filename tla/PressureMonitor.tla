-------------------------- MODULE PressureMonitor ---------------------------
(***************************************************************************)
(* bmp280_st7789: a pressure sensor that measures on command, read over an *)
(* I2C bus that may fail, and shown on the display.  The compensation      *)
(* formulas are left out: what counts is which measurement they are of.    *)
(***************************************************************************)
EXTENDS Program, FiniteSets

\* In the place of a measurement.
Refused == 3
Garbage == 4

VARIABLES
  bus,          \* "up" or "down"
  busy,         \* bit 3 of the sensor's status register
  measurement,  \* the one the sensor's registers hold, modulo 3
  asked,        \* the one the last command is to bring, or Refused
  temperature,  \* where the bytes behind t_fine came from
  pressure      \* where the bytes behind adc_P came from

monitorVars == <<bus, busy, measurement, asked, temperature, pressure>>

bmp280_readTemperature == <<"command", "status", "temperature", "temperature", "temperature">>
bmp280_readPressure == bmp280_readTemperature \o <<"pressure", "pressure", "pressure">>
bmp280_begin == <<"bus">> \o [i \in 1 .. 26 |-> "calibration"]

monitor310 ==
  [setup |-> <<"display_begin">> \o bmp280_begin,
   loop |-> bmp280_readTemperature \o <<"show">> \o bmp280_readPressure \o <<"show_pressure">>
            \o bmp280_readTemperature \o <<"show">> \o bmp280_readPressure \o <<"show_pressure">>]
monitor260 == monitor310

Programs == [monitor310 |-> monitor310, monitor260 |-> monitor260]
Boards == DOMAIN Programs
main == IF board \in Boards THEN Programs[board] ELSE Other

Init ==
  /\ board \in Boards /\ at = 1
  /\ bus = "up" /\ busy = FALSE /\ measurement = 0
  /\ asked = Refused /\ temperature = {} /\ pressure = {}

\* display_begin, the I2C device: a failure is tested.
Begin ==
  /\ At(main, "display_begin") \/ At(main, "bus")
  /\ Advance(main) \/ Stop
  /\ UNCHANGED monitorVars

\* No result of a transfer is looked at.
Calibrate ==
  /\ At(main, "calibration") /\ Advance(main)
  /\ UNCHANGED monitorVars

\* bmp280_writeRegister(0xF4, ...) starts a measurement.
Command ==
  /\ At(main, "command") /\ Advance(main)
  /\ IF bus = "up" THEN busy' = TRUE /\ asked' = (measurement + 1) % 3
                   ELSE UNCHANGED busy /\ asked' = Refused
  /\ temperature' = {} /\ pressure' = {}
  /\ UNCHANGED <<bus, measurement>>

\* Mutant: the bit is taken for a ready bit.
StatusInverted ==
  /\ At(main, "status")
  /\ IF bus = "up" /\ busy THEN Advance(main) ELSE Repeat
  /\ UNCHANGED monitorVars

\* Mutant: the loop ends when a read fails.
StatusGivesUp ==
  /\ At(main, "status")
  /\ IF bus = "up" /\ busy THEN Repeat ELSE Advance(main)
  /\ UNCHANGED monitorVars

\* A failed read leaves status as it was, with bit 3 set.
Status ==
  /\ At(main, "status")
  /\ IF bus = "up" /\ ~busy THEN Advance(main) ELSE Repeat
  /\ UNCHANGED monitorVars

\* A failed read leaves the byte as it was, uninitialised.
Byte == IF bus = "up" THEN {measurement} ELSE {Garbage}

ReadTemperature ==
  /\ At(main, "temperature") /\ Advance(main)
  /\ temperature' = temperature \cup Byte
  /\ UNCHANGED <<bus, busy, measurement, asked, pressure>>

ReadPressure ==
  /\ At(main, "pressure") /\ Advance(main)
  /\ pressure' = pressure \cup Byte
  /\ UNCHANGED <<bus, busy, measurement, asked, temperature>>

Showing == At(main, "show") \/ At(main, "show_pressure")

Show ==
  /\ Showing /\ Advance(main)
  /\ UNCHANGED monitorVars

Main == Begin \/ Calibrate \/ Command \/ Status \/ ReadTemperature \/ ReadPressure \/ Show

MeasurementEnds ==
  /\ busy
  /\ busy' = FALSE /\ measurement' = (measurement + 1) % 3
  /\ UNCHANGED <<programVars, bus, asked, temperature, pressure>>

BusChanges ==
  /\ bus' \in {"up", "down"} \ {bus}
  /\ UNCHANGED <<programVars, busy, measurement, asked, temperature, pressure>>

Next == Main \/ MeasurementEnds \/ BusChanges

(***************************************************************************)
(* Properties                                                              *)
(***************************************************************************)
(***************************************************************************)
(* What is shown (bmp280.c 40-100) is one measurement: temperature bytes   *)
(* of the command just given, and a pressure compensated with the          *)
(* temperature of the same measurement ("so that pressure routine can      *)
(* access temperature data", line 97), however transfers fail, except      *)
(* where a failed transfer is itself the cause: a byte that was not read,  *)
(* or a command that was refused.                                          *)
(***************************************************************************)
OneMeasurement ==
  LET shown == IF At(main, "show") THEN temperature ELSE temperature \cup pressure
  IN  Showing /\ Garbage \notin shown =>
        Cardinality(shown) = 1 /\ (asked # Refused => shown = {asked})

(***************************************************************************)
(* The status loop (lines 81-85) has no limit, yet once the bus works      *)
(* again the program shows readings for ever, whatever failed before.      *)
(***************************************************************************)
MonitorGoesOn == <>[](bus = "up" /\ at # 0) => []<>Showing
=============================================================================
