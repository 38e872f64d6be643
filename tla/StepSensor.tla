----------------------------- MODULE StepSensor -----------------------------
(***************************************************************************)
(* lsm303_ll.c: starting the LSM303 and counting steps.  The driver talks  *)
(* to the sensor over I2C and hears of steps through GPIO P0.25, a line    *)
(* it shares with the interface MCU (DAPLink).  The sensor and the         *)
(* interface MCU keep their power, hence their state, when the target MCU  *)
(* restarts.  The three generations of the driver differ in how they start.*)
(***************************************************************************)
EXTENDS Integers, Sequences

CONSTANTS MaxEdges,    \* bound on the edges explored
          MaxRestarts  \* bound on the restarts explored

ASSUME SensorAssumption == MaxEdges \in Nat /\ MaxRestarts \in Nat

VARIABLES
  driver,      \* the generation of the driver on the board
  pc,          \* next statement of the driver
  ret,         \* what the last call returned; 1 before any call returns
  pStepCount,  \* "NULL" or "counter"
  pinInt,      \* the pin interrupt is enabled
  callback,    \* stepcount_cb is on the port's list
  pending,     \* an edge was detected and its interrupt is about to be served
  count,       \* *pStepCount
  \* outside the target MCU
  regs,        \* configuration registers that hold the driver's value
  event,       \* the sensor asserts its interrupt output
  booting,     \* the interface MCU has not finished booting
  held,        \* the interface MCU holds the line
  \* history
  refused,     \* addresses whose transfer failed unnoticed since the last restart
  edges,       \* edges detected with the callback in place, since the last restart
  restarts

driverVars == <<pStepCount, pinInt, callback>>
outside == <<regs, event, booting, held>>
vars == <<driver, pc, ret, driverVars, pending, count, outside, refused, edges, restarts>>

AccelOn == "0x20"
Route == "0x22"
Source == "0x30"
Threshold == "0x32"
Registers == {AccelOn, Route, Source, Threshold}
InterfaceMcu == "0x70"

Statements == {"idle", "dead", "i2c", "settle", "dummy", "who", "wake", "test",
               "pin", "interrupt", "attach", "route", "source", "threshold"}

(***************************************************************************)
(* The two functions of each generation, statement by statement.           *)
(***************************************************************************)
begin260 == <<"i2c", "who", "wake">>
begin310 == <<"i2c", "who", "wake">>
begin370 == <<"i2c", "settle", "dummy", "who", "wake">>

countSteps260 == <<"test", "pin", "interrupt", "attach", "route", "source", "threshold">>
countSteps310 == <<"test", "pin", "interrupt", "attach", "route", "source", "threshold">>
countSteps370 == <<"test", "pin", "interrupt", "attach", "route", "source", "threshold">>

begin == CASE driver = "2.6.0" -> begin260 [] driver = "3.1.0" -> begin310
           [] driver = "3.7.0" -> begin370
countSteps == CASE driver = "2.6.0" -> countSteps260 [] driver = "3.1.0" -> countSteps310
                [] driver = "3.7.0" -> countSteps370

Following(s) ==
  CHOOSE t \in Statements :
    \E f \in {begin, countSteps}, i \in 1 .. 6 :
      i + 1 \in DOMAIN f /\ f[i] = s /\ f[i + 1] = t

Init ==
  /\ driver \in {"2.6.0", "3.1.0", "3.7.0"}
  /\ pc = begin[1]
  /\ ret = 1
  /\ pStepCount = "NULL"
  /\ pinInt = FALSE /\ callback = FALSE /\ pending = FALSE
  /\ count = 0
  /\ regs = {} /\ event = FALSE
  /\ booting = TRUE
  /\ held \in BOOLEAN
  /\ refused = {} /\ edges = 0 /\ restarts = 0

\* Statements of the thread: an interrupt about to be served preempts it.
At(s) == pc = s /\ ~pending

Continue(s) == At(s) /\ pc' = Following(s)

Return(r) == pc' = "idle" /\ ret' = r

\* A failed start-up ends in while(1) in every caller.
Die(r) == pc' = "dead" /\ ret' = r

(***************************************************************************)
(* lsm303_ll_begin                                                         *)
(***************************************************************************)
\* The I2C device is looked up.
AcquireI2c ==
  /\ At("i2c")
  /\ Die(-1) \/ (Continue("i2c") /\ UNCHANGED ret)
  /\ UNCHANGED <<driverVars, pending, count, outside, refused, edges, restarts, driver>>

\* Mutant: no delay before the dummy read.
SettleAtOnce ==
  /\ Continue("settle")
  /\ UNCHANGED <<ret, driverVars, pending, count, outside, refused, edges, restarts, driver>>

\* k_msleep(1000): longer than the interface MCU takes to boot.
Settle ==
  /\ Continue("settle")
  /\ ~booting
  /\ UNCHANGED <<ret, driverVars, pending, count, outside, refused, edges, restarts, driver>>

\* The dummy read of the interface MCU makes it release the line.  The result
\* of i2c_read is only printed: a read that fails leaves the line as it is.
DummyRead ==
  /\ Continue("dummy")
  /\ \/ held' = (held /\ booting) /\ UNCHANGED refused
     \/ refused' = refused \cup {InterfaceMcu} /\ UNCHANGED held
  /\ UNCHANGED <<ret, driverVars, pending, count, regs, event, booting, edges, restarts, driver>>

\* WHO_AM_I: the only transfer whose result is looked at.
WhoAmI ==
  /\ At("who")
  /\ Die(-2) \/ (Continue("who") /\ UNCHANGED ret)
  /\ UNCHANGED <<driverVars, pending, count, outside, refused, edges, restarts, driver>>

\* lsm303_ll_writeRegister; no caller looks at the result.
WriteRegister(r) ==
  /\ \/ regs' = regs \cup {r} /\ UNCHANGED refused
     \/ refused' = refused \cup {r} /\ UNCHANGED regs
  /\ UNCHANGED <<event, booting, held>>

\* The other registers begin writes play no part in counting.
WakeSensor ==
  /\ At("wake")
  /\ Return(0)
  /\ WriteRegister(AccelOn)
  /\ UNCHANGED <<driverVars, pending, count, edges, restarts, driver>>

(***************************************************************************)
(* lsm303_countSteps                                                       *)
(***************************************************************************)
CallCountSteps ==
  /\ At("idle") /\ pc' = countSteps[1]
  /\ UNCHANGED <<ret, driverVars, pending, count, outside, refused, edges, restarts, driver>>

TestPointer ==
  /\ At("test")
  /\ IF pStepCount # "NULL"
     THEN Return(-1) /\ UNCHANGED pStepCount
     ELSE /\ pStepCount' = "counter"
          /\ Return(-2) \/ (Continue("test") /\ UNCHANGED ret)  \* the GPIO device
  /\ UNCHANGED <<pinInt, callback, pending, count, outside, refused, edges, restarts, driver>>

ConfigurePin ==
  /\ At("pin")
  /\ Return(-3) \/ (Continue("pin") /\ UNCHANGED ret)
  /\ UNCHANGED <<driverVars, pending, count, outside, refused, edges, restarts, driver>>

ConfigureInterrupt ==
  /\ At("interrupt")
  /\ \/ Return(-4) /\ UNCHANGED pinInt
     \/ Continue("interrupt") /\ pinInt' = TRUE /\ UNCHANGED ret
  /\ UNCHANGED <<pStepCount, callback, pending, count, outside, refused, edges, restarts, driver>>

AddCallback ==
  /\ At("attach")
  /\ \/ Return(-5) /\ UNCHANGED callback
     \/ Continue("attach") /\ callback' = TRUE /\ UNCHANGED ret
  /\ UNCHANGED <<pStepCount, pinInt, pending, count, outside, refused, edges, restarts, driver>>

ConfigureSensor ==
  /\ \/ Continue("route") /\ WriteRegister(Route) /\ UNCHANGED ret
     \/ Continue("source") /\ WriteRegister(Source) /\ UNCHANGED ret
     \/ At("threshold") /\ Return(0) /\ WriteRegister(Threshold)
  /\ UNCHANGED <<driverVars, pending, count, edges, restarts, driver>>

Driver ==
  \/ AcquireI2c \/ Settle \/ DummyRead \/ WhoAmI \/ WakeSensor
  \/ TestPointer \/ ConfigurePin \/ ConfigureInterrupt \/ AddCallback \/ ConfigureSensor

(***************************************************************************)
(* The step interrupt                                                      *)
(***************************************************************************)
\* Mutant: the handler does not test the pointer and clears it.
HandlerOnce ==
  /\ pending /\ callback
  /\ pending' = FALSE
  /\ IF pStepCount # "NULL" THEN count' = count + 1 ELSE UNCHANGED count
  /\ pStepCount' = "NULL"
  /\ UNCHANGED <<pc, ret, pinInt, callback, outside, refused, edges, restarts, driver>>

\* Mutant: the interrupt is not acknowledged and served again.
HandlerAgain ==
  /\ pending /\ callback
  /\ IF pStepCount # "NULL" THEN count' = count + 1 ELSE UNCHANGED count
  /\ UNCHANGED <<pc, ret, driverVars, pending, outside, refused, edges, restarts, driver>>

stepcount_handler ==
  /\ pending /\ callback
  /\ pending' = FALSE
  /\ IF pStepCount # "NULL" THEN count' = count + 1 ELSE UNCHANGED count
  /\ UNCHANGED <<pc, ret, driverVars, outside, refused, edges, restarts, driver>>

\* The port driver serves an edge for which no callback is registered.
NoCallback ==
  /\ pending /\ ~callback
  /\ pending' = FALSE
  /\ UNCHANGED <<pc, ret, driverVars, count, outside, refused, edges, restarts, driver>>

(***************************************************************************)
(* Sensor, interface MCU and power                                         *)
(***************************************************************************)
Configured == regs = Registers

\* A low acceleration on all axes: the sensor asserts its output.
EventStarts ==
  /\ Configured /\ ~event
  /\ event' = TRUE
  /\ UNCHANGED <<pc, ret, driverVars, pending, count, regs, booting, held, refused, edges, restarts, driver>>

\* Its end is the falling edge, if nobody else holds the line.
EventEnds ==
  /\ event
  /\ event' = FALSE
  /\ IF pinInt /\ ~held
     THEN /\ edges < MaxEdges
          /\ pending' = TRUE
          /\ edges' = IF callback THEN edges + 1 ELSE edges
     ELSE UNCHANGED <<pending, edges>>
  /\ UNCHANGED <<pc, ret, driverVars, count, regs, booting, held, refused, restarts, driver>>

InterfaceBoots ==
  /\ booting
  /\ booting' = FALSE
  /\ UNCHANGED <<pc, ret, driverVars, pending, count, regs, event, held, refused, edges, restarts, driver>>

\* The target MCU restarts.  A board reset also restarts the interface MCU,
\* which may leave the line asserted; the sensor keeps its registers.
Restart ==
  /\ restarts < MaxRestarts
  /\ restarts' = restarts + 1
  /\ pc' = begin[1] /\ ret' = 1
  /\ pStepCount' = "NULL" /\ pinInt' = FALSE /\ callback' = FALSE
  /\ pending' = FALSE /\ count' = 0 /\ refused' = {} /\ edges' = 0
  /\ \/ booting' = TRUE /\ held' \in {held, TRUE}
     \/ UNCHANGED <<booting, held>>
  /\ UNCHANGED <<regs, event, driver>>

Next ==
  \/ Driver \/ CallCountSteps \/ stepcount_handler \/ NoCallback
  \/ EventStarts \/ EventEnds \/ InterfaceBoots \/ Restart

Safety == Init /\ [][Next]_vars

\* The driver's thread runs, interrupts are served and the interface MCU boots.
Fairness ==
  /\ WF_vars(Driver)
  /\ WF_vars(stepcount_handler)
  /\ WF_vars(InterfaceBoots)

Spec == Safety /\ Fairness

(***************************************************************************)
(* Properties                                                              *)
(***************************************************************************)
Counting == pStepCount # "NULL" /\ pinInt /\ callback

(***************************************************************************)
(* Lines 102-107, "All of the callback plumbing is now done": when         *)
(* lsm303_countSteps has returned 0, an event of the sensor reaches the    *)
(* counter: pointer, pin and callback are set up, each of the sensor's     *)
(* registers was written or its own write failed unnoticed, and with the   *)
(* 3.7.0 driver nobody else holds the line, unless the dummy read failed   *)
(* unnoticed (line 41); warm restarts included.  A failure of its own (-2  *)
(* to -5, lines 79-101) leaves the handler unarmed.  pStepCount tells the  *)
(* return of countSteps from that of begin.                                *)
(***************************************************************************)
AnswersHold ==
  /\ ret = 0 /\ pc = "idle" /\ pStepCount # "NULL" =>
       /\ Counting
       /\ Registers \subseteq regs \cup refused
       /\ driver = "3.7.0" /\ held => InterfaceMcu \in refused
  /\ ret \in {-2, -3, -4, -5} /\ pc = "idle" => ~callback

(***************************************************************************)
(* No step is counted twice or out of nothing, warm restarts included      *)
(* (lines 62-69): the counter never exceeds the edges seen.                *)
(***************************************************************************)
NoPhantomSteps == count + (IF pending /\ callback THEN 1 ELSE 0) <= edges

(***************************************************************************)
(* Every edge detected once the callback is in place is counted (lines     *)
(* 64-68), unless the MCU restarts first.                                  *)
(***************************************************************************)
StepsAreCounted ==
  \A n \in 0 .. (MaxEdges - 1) :
    (pending /\ callback /\ count = n) ~> (count = n + 1 \/ pc = begin[1])
=============================================================================
