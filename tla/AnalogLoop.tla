----------------------------- MODULE AnalogLoop -----------------------------
(***************************************************************************)
(* analog_io: a voltage is sampled and the duty of a PWM output set in     *)
(* proportion to it, with the widths of the integers involved.             *)
(***************************************************************************)
EXTENDS Program, Integers

\* What a conversion can measure: 12 bits, and, single ended though it is, noise
\* near 0 V as a value below zero.
CONSTANT Voltages

VARIABLES
  channel_0_data,  \* what the last successful conversion left
  adcvalue,        \* main's sample
  duty,            \* the pulse the PWM hardware puts out
  \* history
  voltage,         \* what the first conversion of the turn measured, or Missed
  written         \* set once the turn has written its pulse

analogVars == <<channel_0_data, adcvalue, duty, voltage, written>>

adc_begin == <<"adc_device", "channel">>
pwm_begin == <<"pwm_device">>
turn == <<"readDigital", "readVoltage", "write">>

analog260 == [setup |-> adc_begin \o pwm_begin, loop |-> turn]
analog310 == [setup |-> adc_begin \o pwm_begin \o <<"half">>, loop |-> turn]
analog370 == [setup |-> adc_begin \o pwm_begin, loop |-> turn]

Programs == [analog260 |-> analog260, analog310 |-> analog310, analog370 |-> analog370]
Boards == DOMAIN Programs
main == IF board \in Boards THEN Programs[board] ELSE Other

\* In microseconds and nanoseconds.
PWM_PERIOD == IF board = "analog260" THEN 100 ELSE 1000000

Missed == 5000

Init ==
  /\ board \in Boards /\ at = 1
  /\ channel_0_data = 0 /\ adcvalue = 0 /\ duty = 0
  /\ voltage = Missed /\ written = FALSE

Begin ==
  /\ \E s \in {"adc_device", "channel", "pwm_device"} : At(main, s)
  /\ Advance(main) \/ Stop
  /\ UNCHANGED analogVars

(***************************************************************************)
(* adc.c.  The result of adc_read is dropped.                              *)
(***************************************************************************)
Converts(v) ==
  \/ v \in Voltages /\ channel_0_data' = v
  \/ v = Missed /\ UNCHANGED channel_0_data

adc_readDigital ==
  /\ At(main, "readDigital") /\ Advance(main)
  /\ \E v \in Voltages \cup {Missed} : Converts(v) /\ voltage' = v
  /\ adcvalue' = channel_0_data'
  /\ written' = FALSE
  /\ UNCHANGED duty

\* Only for the console, but a conversion of its own.
adc_readVoltage ==
  /\ At(main, "readVoltage") /\ Advance(main)
  /\ \E v \in Voltages \cup {Missed} : Converts(v)
  /\ UNCHANGED <<adcvalue, duty, voltage, written>>

(***************************************************************************)
(* pwm.c                                                                   *)
(***************************************************************************)
\* (n * PWM_PERIOD) / 4095 in 32 bits without a sign.  The product itself is
\* beyond TLC's integers: 4095 is divided out, and 2^32 = 4095 * 1048832 + 256.
Pulse(n) ==
  IF n < 0 THEN 1048832 + ((256 + (n * PWM_PERIOD)) \div 4095)
  ELSE (n * (PWM_PERIOD \div 4095)) + ((n * (PWM_PERIOD % 4095)) \div 4095)

\* pwm_write of 2.6.0 takes a uint16_t.
Argument(value) == IF board = "analog260" THEN value % 65536 ELSE value

\* The PWM driver refuses a pulse longer than the period; nobody looks.
pwm_write(value) ==
  duty' = IF Argument(value) <= PWM_PERIOD THEN Argument(value) ELSE duty

WriteHalf ==
  /\ At(main, "half") /\ Advance(main)
  /\ pwm_write(Pulse(2048))
  /\ UNCHANGED <<channel_0_data, adcvalue, voltage, written>>

\* Mutant: the sample is taken again instead of kept.
WriteLatest ==
  /\ At(main, "write") /\ Advance(main)
  /\ pwm_write(Pulse(channel_0_data))
  /\ written' = TRUE
  /\ UNCHANGED <<channel_0_data, adcvalue, voltage>>

Write ==
  /\ At(main, "write") /\ Advance(main)
  /\ pwm_write(Pulse(adcvalue))
  /\ written' = TRUE
  /\ UNCHANGED <<channel_0_data, adcvalue, voltage>>

Next == Begin \/ adc_readDigital \/ adc_readVoltage \/ WriteHalf \/ Write

(***************************************************************************)
(* Properties                                                              *)
(***************************************************************************)
iabs(n) == IF n < 0 THEN -n ELSE n

\* The share of the period the output is high, against the share of the range
\* the voltage stands at, in thousandths.
Proportional(v) ==
  iabs(((duty * 1000) \div PWM_PERIOD) - ((v * 1000) \div 4095)) <= (IF PWM_PERIOD = 100 THEN 10 ELSE 1)

(***************************************************************************)
(* Lines 28-32 of main.c, line 4 "in proportion": over the whole range,    *)
(* 0 V and full scale included, the output of a turn stands for the        *)
(* voltage the turn converted first, whatever the conversion for the       *)
(* console measured or failed to measure in between: no product overflows  *)
(* and no pulse is refused.  A voltage below zero is left out.             *)
(***************************************************************************)
PulseInProportion ==
  written /\ voltage \in 0 .. 4095 => Proportional(voltage)

\* The same for every voltage that was converted, zero for one below zero.
InProportion ==
  written /\ voltage # Missed => Proportional(IF voltage < 0 THEN 0 ELSE voltage)
=============================================================================
