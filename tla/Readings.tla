------------------------------ MODULE Readings ------------------------------
(***************************************************************************)
(* lsm303_ll.c: reading acceleration and magnetic field, in the programs   *)
(* that do.  Two bytes are read in one burst, the low one first, and the   *)
(* sensor may finish a measurement in between.                             *)
(***************************************************************************)
EXTENDS Program, Integers

VARIABLES
  accepted,  \* registers that hold the driver's value
  failed,   \* writes that failed; no caller looks
  low,       \* while a burst runs, the measurement its low byte is of
  reading    \* what the last read function returned, and out of what

readingVars == <<accepted, failed, low, reading>>

(***************************************************************************)
(* The programs.  A register's address stands for the write to it.         *)
(***************************************************************************)
begin370 == <<"who", "0x20", "0x23", "0x60", "0x62">>
begin310 == <<"who", "0x20", "0x23">>
begin260 == <<"who", "0x20", "0x23">>

lowlevel370 == [setup |-> begin370 \o <<"matrix_begin">>, loop |-> <<"X", "Y", "Z">>]
lowlevel310 == [setup |-> begin310, loop |-> <<"Y">>]
lowlevel260 == [setup |-> begin260, loop |-> <<"Y">>]
accel370 == [setup |-> begin370, loop |-> <<"X">>]
demo370 == [setup |-> begin370 \o <<"buttons_begin", "matrix_begin", "bt_enable">>,
            loop |-> <<"X", "Y", "Z", "MagX", "MagY", "MagZ">>]

Programs == [lowlevel370 |-> lowlevel370, lowlevel310 |-> lowlevel310,
             lowlevel260 |-> lowlevel260, accel370 |-> accel370, demo370 |-> demo370]
Boards == DOMAIN Programs
main == IF board \in Boards THEN Programs[board] ELSE Other

Axes == {"X", "Y", "Z", "MagX", "MagY", "MagZ"}
Magnetic(axis) == axis \in {"MagX", "MagY", "MagZ"}

Unread == {}
None == [axis |-> "none"]

Init ==
  /\ board \in Boards /\ at = 1
  /\ accepted = {} /\ failed = {} /\ low = Unread /\ reading = None

(***************************************************************************)
(* The sensor                                                              *)
(***************************************************************************)
\* 12 bits left justified: the ends of the range, both sides of a byte, zero.
Measurements == {-32768, -256, -16, 0, 240, 256, 32752}

\* Until it is woken up the sensor's registers hold zero.
Measured(axis) ==
  IF (IF Magnetic(axis) THEN "0x60" ELSE "0x20") \in accepted THEN Measurements ELSE {0}

\* Block data update: the second byte comes from the measurement of the first.
Blocked(axis) == Magnetic(axis) /\ "0x62" \in accepted

(***************************************************************************)
(* The driver                                                              *)
(***************************************************************************)
\* A transfer or a start-up that the caller tests.
Begin ==
  /\ \E s \in {"who", "matrix_begin", "buttons_begin", "bt_enable"} : At(main, s)
  /\ Advance(main) \/ Stop
  /\ UNCHANGED readingVars

WriteRegister ==
  \E r \in {"0x20", "0x23", "0x60", "0x62"} :
    /\ At(main, r) /\ Advance(main)
    /\ \/ accepted' = accepted \cup {r} /\ UNCHANGED failed
       \/ failed' = failed \cup {r} /\ UNCHANGED accepted
    /\ UNCHANGED <<low, reading>>

S16(n) == IF n % 65536 < 32768 THEN n % 65536 ELSE (n % 65536) - 65536

\* Division in C goes towards zero.
Quotient(n, d) == IF n < 0 THEN -((-n) \div d) ELSE n \div d

\* Mutant: the product is kept in 16 bits.
ScaleNarrow(raw) == Quotient(S16(Quotient(raw, 16) * 2 * 981), 2047)

\* 2 g, or 1962 cm/s^2, for 2047 sixteenths.
Scale(raw) == Quotient(Quotient(raw, 16) * 2 * 981, 2047)

Value(axis, raw) == IF Magnetic(axis) THEN raw ELSE Scale(raw)

LowByte ==
  /\ low = Unread
  /\ \E axis \in Axes : At(main, axis) /\ \E m \in Measured(axis) : low' = {m}
  /\ reading' = None
  /\ UNCHANGED <<programVars, accepted, failed>>

HighByte ==
  /\ low # Unread
  /\ \E axis \in Axes :
       /\ At(main, axis)
       /\ \E first \in low, last \in IF Blocked(axis) THEN low ELSE Measured(axis) :
            LET buf == <<first % 256, (last \div 256) % 256>>
                raw == S16((buf[2] * 256) + buf[1])
            IN  reading' = [axis |-> axis, first |-> first, last |-> last,
                             value |-> Value(axis, raw)]
  /\ Advance(main)
  /\ low' = Unread
  /\ UNCHANGED <<accepted, failed>>

\* The result of i2c_burst_read is dropped: buf holds anything.
BurstFails ==
  /\ \E axis \in Axes : At(main, axis)
  /\ Advance(main)
  /\ low' = Unread /\ reading' = None
  /\ UNCHANGED <<accepted, failed>>

Next == Begin \/ WriteRegister \/ LowByte \/ HighByte \/ BurstFails

(***************************************************************************)
(* Properties                                                              *)
(***************************************************************************)
iabs(n) == IF n < 0 THEN -n ELSE n

\* The value stands for the measurement, at most slack sixteenths off.
Reads(slack) ==
  iabs((reading.value * 2047) - ((reading.last \div 16) * 1962)) < 2047 + (slack * 1962)

(***************************************************************************)
(* What a transfer that succeeds returns (lines 109-190): for an           *)
(* acceleration the measurement in cm/s^2, sign included and without        *)
(* overflow at full scale; a new measurement between the two bytes costs   *)
(* at most 16 units.  For a field exactly what was measured, "ensure bytes *)
(* from different readings don't get mixed up" (line 58), unless that      *)
(* write was refused.                                                      *)
(***************************************************************************)
ReadingsWhole ==
  reading # None =>
    IF Magnetic(reading.axis)
    THEN reading.value = reading.last
         \/ ("0x62" \in failed /\ iabs(reading.value - reading.last) < 256)
    ELSE Reads(IF reading.first = reading.last THEN 0 ELSE 16)
=============================================================================
