------------------------- MODULE PeripheralsProofs --------------------------
(***************************************************************************)
(* Proofs about the programs of Peripherals, for any set of programs and   *)
(* any bounds.                                                             *)
(***************************************************************************)
EXTENDS Peripherals, FiniteSetTheorems, TLAPS

(***************************************************************************)
(* The step counter: what each statement of the driver may rely on.        *)
(***************************************************************************)
Drivers == {"2.6.0", "3.1.0", "3.7.0"}

SensorTypeOK ==
  /\ driver \in Drivers
  /\ pc \in Statements
  /\ ret \in {1, 0, -1, -2, -3, -4, -5}
  /\ pStepCount \in {"NULL", "counter"}
  /\ pinInt \in BOOLEAN /\ callback \in BOOLEAN /\ pending \in BOOLEAN
  /\ booting \in BOOLEAN /\ held \in BOOLEAN
  /\ refused \subseteq Registers \cup {InterfaceMcu}
  /\ regs \subseteq Registers
  /\ count \in Nat /\ edges \in Nat

Starting == {"i2c", "settle", "dummy", "who", "wake"}
Arming == {"pin", "interrupt", "attach", "route", "source", "threshold"}
Between == {"idle", "test"}

Written(r) == r \in regs \cup refused

\* Only one generation reads the interface MCU; once it has, nobody else
\* holds the line until the target MCU restarts, or the read has failed.
LineFreed ==
  /\ pc \in {"settle", "dummy"} => driver = "3.7.0"
  /\ pc = "dummy" => ~booting
  /\ driver = "3.7.0" /\ held /\ pc \notin {"i2c", "settle", "dummy", "dead"} =>
       InterfaceMcu \in refused

\* How far the pointer, the pin and the callback have got.
PlumbedSoFar ==
  /\ pc \in Starting \cup {"dead"} => pStepCount = "NULL"
  /\ pc \in Arming => pStepCount = "counter"
  /\ pStepCount = "NULL" \/ pc \in {"pin", "interrupt"} => ~pinInt /\ ~callback
  /\ pc = "attach" => pinInt /\ ~callback
  /\ pc \in {"route", "source", "threshold"} => pinInt /\ callback

\* How far the sensor's registers have got.
WrittenSoFar ==
  /\ pc \in Arming \cup Between => Written(AccelOn)
  /\ pc \in {"source", "threshold"} => Written(Route)
  /\ pc = "threshold" => Written(Source)

\* What the last result says; an earlier call's stands until a call returns.
ResultMeans ==
  /\ pc \in Arming \/ (pc \in Between /\ pStepCount = "NULL") => ret = 0
  /\ pc \in Between /\ ret \in {-2, -3, -4, -5} => ~callback
  /\ pc \in Between /\ pStepCount = "counter" /\ ret = 0 =>
       pinInt /\ callback /\ \A r \in Registers : Written(r)

StepsInv ==
  /\ SensorTypeOK /\ LineFreed /\ PlumbedSoFar /\ WrittenSoFar /\ ResultMeans
  /\ NoPhantomSteps

-----------------------------------------------------------------------------
(***************************************************************************)
(* The order of the driver's statements.                                   *)
(***************************************************************************)
LEMMA FollowingIs ==
  ASSUME driver \in Drivers
  PROVE  /\ Following("i2c") = IF driver = "3.7.0" THEN "settle" ELSE "who"
         /\ Following("who") = "wake"
         /\ Following("test") = "pin"
         /\ Following("pin") = "interrupt"
         /\ Following("interrupt") = "attach"
         /\ Following("attach") = "route"
         /\ Following("route") = "source"
         /\ Following("source") = "threshold"
         /\ driver = "3.7.0" => Following("settle") = "dummy" /\ Following("dummy") = "who"
  <1> DEFINE Succeeds(s, t) ==
               \E f \in {begin, countSteps}, i \in 1 .. 6 :
                 i + 1 \in DOMAIN f /\ f[i] = s /\ f[i + 1] = t
  <1>1. \A s, t : t \in Statements /\ Succeeds(s, t) /\ (\A u \in Statements : Succeeds(s, u) => u = t)
                    => Following(s) = t
    BY DEF Following
  <1>2. countSteps = <<"test", "pin", "interrupt", "attach", "route", "source", "threshold">>
    BY DEF Drivers, countSteps, countSteps260, countSteps310, countSteps370
  <1>3. CASE driver # "3.7.0"
    <2>1. begin = <<"i2c", "who", "wake">>
      BY <1>3 DEF Drivers, begin, begin260, begin310
    <2> HIDE DEF Succeeds
    <2>2. \A s, t : Succeeds(s, t) <=> <<s, t>> \in
            {<<"i2c", "who">>, <<"who", "wake">>, <<"test", "pin">>, <<"pin", "interrupt">>,
             <<"interrupt", "attach">>, <<"attach", "route">>, <<"route", "source">>, <<"source", "threshold">>}
      BY <2>1, <1>2 DEF Succeeds
    <2> QED BY <1>1, <1>3, <2>2 DEF Statements
  <1>4. CASE driver = "3.7.0"
    <2>1. begin = <<"i2c", "settle", "dummy", "who", "wake">>
      BY <1>4 DEF begin, begin370
    <2> HIDE DEF Succeeds
    <2>2. \A s, t : Succeeds(s, t) <=> <<s, t>> \in
            {<<"i2c", "settle">>, <<"settle", "dummy">>, <<"dummy", "who">>,
             <<"who", "wake">>, <<"test", "pin">>, <<"pin", "interrupt">>, <<"interrupt", "attach">>,
             <<"attach", "route">>, <<"route", "source">>, <<"source", "threshold">>}
      BY <2>1, <1>2 DEF Succeeds
    <2> QED BY <1>1, <1>4, <2>2 DEF Statements
  <1> QED BY <1>3, <1>4

-----------------------------------------------------------------------------
(***************************************************************************)
(* The step counter's invariant.                                           *)
(***************************************************************************)
LEMMA FirstStatement ==
  ASSUME driver \in Drivers
  PROVE  begin[1] = "i2c"
  <1>1. CASE driver # "3.7.0"
    <2>1. begin = <<"i2c", "who", "wake">>
      BY <1>1 DEF Drivers, begin, begin260, begin310
    <2> QED BY <1>1, <2>1
  <1>2. CASE driver = "3.7.0"
    <2>1. begin = <<"i2c", "settle", "dummy", "who", "wake">>
      BY <1>2 DEF begin, begin370
    <2> QED BY <1>2, <2>1
  <1> QED BY <1>1, <1>2

LEMMA StepsInit == Init => StepsInv
  <1> SUFFICES ASSUME Init PROVE StepsInv
    OBVIOUS
  <1>1. driver \in Drivers /\ pc = "i2c"
    BY FirstStatement DEF Init, Drivers
  <1>2. SensorTypeOK
    BY <1>1 DEF Init, SensorTypeOK, Statements, Registers
  <1>3. LineFreed /\ PlumbedSoFar
    BY <1>1 DEF Init, LineFreed, PlumbedSoFar, Starting, Arming, Between
  <1>4. WrittenSoFar /\ ResultMeans
    BY <1>1 DEF Init, WrittenSoFar, ResultMeans, Starting, Arming, Between
  <1>5. NoPhantomSteps
    BY DEF Init, NoPhantomSteps
  <1> QED BY <1>2, <1>3, <1>4, <1>5 DEF StepsInv

\* lsm303_ll_begin
LEMMA BeginStep ==
  StepsInv /\ (AcquireI2c \/ Settle \/ DummyRead \/ WhoAmI \/ WakeSensor) => StepsInv'
  <1> SUFFICES ASSUME StepsInv, AcquireI2c \/ Settle \/ DummyRead \/ WhoAmI \/ WakeSensor PROVE StepsInv'
    OBVIOUS
  <1> USE DEF At, Continue, Return, Die, driverVars, outside, WriteRegister
  <1>0. StepsInv /\ SensorTypeOK /\ driver \in Drivers
    BY DEF StepsInv, SensorTypeOK
  <1>1. LineFreed /\ PlumbedSoFar /\ WrittenSoFar /\ ResultMeans /\ NoPhantomSteps
    BY DEF StepsInv
  <1>2. SensorTypeOK'
    BY <1>0, <1>1, FollowingIs
       DEF SensorTypeOK, LineFreed, AcquireI2c, Settle, DummyRead, WhoAmI, WakeSensor, Statements, Registers
  <1>3. LineFreed'
    BY <1>0, <1>1, FollowingIs DEF SensorTypeOK, LineFreed, AcquireI2c, Settle, DummyRead, WhoAmI, WakeSensor
  <1>4. PlumbedSoFar'
    BY <1>0, <1>1, FollowingIs
       DEF LineFreed, PlumbedSoFar, AcquireI2c, Settle, DummyRead, WhoAmI, WakeSensor, Starting, Arming
  <1>5. WrittenSoFar'
    BY <1>0, <1>1, FollowingIs
       DEF LineFreed, WrittenSoFar, Written, AcquireI2c, Settle, DummyRead, WhoAmI, WakeSensor, Arming, Between
  <1>6. ResultMeans'
    BY <1>0, <1>1, FollowingIs
       DEF LineFreed, PlumbedSoFar, ResultMeans, AcquireI2c, Settle, DummyRead, WhoAmI, WakeSensor,
           Starting, Arming, Between
  <1>7. NoPhantomSteps'
    BY <1>1 DEF NoPhantomSteps, AcquireI2c, Settle, DummyRead, WhoAmI, WakeSensor
  <1> QED BY <1>2, <1>3, <1>4, <1>5, <1>6, <1>7 DEF StepsInv

\* lsm303_countSteps, as far as the callback
LEMMA PlumbingStep ==
  StepsInv /\ (CallCountSteps \/ TestPointer \/ ConfigurePin \/ ConfigureInterrupt \/ AddCallback)
    => StepsInv'
  <1> SUFFICES ASSUME StepsInv, CallCountSteps \/ TestPointer \/ ConfigurePin
                                \/ ConfigureInterrupt \/ AddCallback
               PROVE  StepsInv'
    OBVIOUS
  <1> USE DEF At, Continue, Return, driverVars, outside, Starting, Arming, Between
  <1>0. StepsInv /\ SensorTypeOK /\ driver \in Drivers
    BY DEF StepsInv, SensorTypeOK
  <1>1. LineFreed /\ PlumbedSoFar /\ WrittenSoFar /\ ResultMeans /\ NoPhantomSteps
    BY DEF StepsInv
  <1>2. countSteps[1] = "test"
    BY <1>0 DEF Drivers, countSteps, countSteps260, countSteps310, countSteps370
  <1> HIDE DEF Drivers
  <1> USE <1>0, <1>1, <1>2, FollowingIs
          DEF CallCountSteps, TestPointer, ConfigurePin, ConfigureInterrupt, AddCallback
  <1>3. SensorTypeOK'
    BY DEF SensorTypeOK, Statements
  <1>4. LineFreed'
    BY DEF LineFreed
  <1>5. PlumbedSoFar'
    BY DEF PlumbedSoFar, SensorTypeOK
  <1>6. WrittenSoFar'
    BY DEF WrittenSoFar, Written
  <1>7. ResultMeans'
    BY DEF PlumbedSoFar, ResultMeans, Written
  <1>8. NoPhantomSteps'
    BY DEF NoPhantomSteps, SensorTypeOK
  <1> QED BY <1>3, <1>4, <1>5, <1>6, <1>7, <1>8 DEF StepsInv

\* lsm303_countSteps, the sensor
LEMMA ConfigureStep == StepsInv /\ ConfigureSensor => StepsInv'
  <1> SUFFICES ASSUME StepsInv, ConfigureSensor PROVE StepsInv'
    OBVIOUS
  <1> USE DEF At, Continue, Return, driverVars, outside, WriteRegister, ConfigureSensor,
              Starting, Arming, Between
  <1>0. StepsInv /\ SensorTypeOK /\ driver \in Drivers
    BY DEF StepsInv, SensorTypeOK
  <1>1. LineFreed /\ PlumbedSoFar /\ WrittenSoFar /\ ResultMeans /\ NoPhantomSteps
    BY DEF StepsInv
  <1> USE <1>0, <1>1, FollowingIs
  <1>2. SensorTypeOK'
    BY DEF SensorTypeOK, Statements, Registers
  <1>3. LineFreed'
    BY DEF LineFreed
  <1>4. PlumbedSoFar'
    BY DEF PlumbedSoFar
  <1>5. WrittenSoFar'
    BY DEF WrittenSoFar, Written
  <1>6. ResultMeans'
    BY DEF PlumbedSoFar, WrittenSoFar, ResultMeans, Written, Registers
  <1>7. NoPhantomSteps'
    BY DEF NoPhantomSteps
  <1> QED BY <1>2, <1>3, <1>4, <1>5, <1>6, <1>7 DEF StepsInv

\* The interrupt, the sensor and the interface MCU
LEMMA OutsideStep ==
  StepsInv /\ (stepcount_handler \/ NoCallback \/ EventStarts \/ EventEnds \/ InterfaceBoots)
    => StepsInv'
  <1> SUFFICES ASSUME StepsInv, stepcount_handler \/ NoCallback \/ EventStarts
                                \/ EventEnds \/ InterfaceBoots
               PROVE  StepsInv'
    OBVIOUS
  <1>1. UNCHANGED <<driver, pc, ret, pStepCount, pinInt, callback, regs, held, refused>>
        /\ (booting' => booting)
    BY DEF stepcount_handler, NoCallback, EventStarts, EventEnds, InterfaceBoots, driverVars, outside
  <1>2. LineFreed' /\ PlumbedSoFar' /\ WrittenSoFar' /\ ResultMeans'
    BY <1>1 DEF StepsInv, LineFreed, PlumbedSoFar, WrittenSoFar, ResultMeans, Written
  <1>3. SensorTypeOK
    BY DEF StepsInv
  <1>4. SensorTypeOK'
    <2>1. driver' \in Drivers /\ pc' \in Statements /\ ret' \in {1, 0, -1, -2, -3, -4, -5}
      BY <1>1, <1>3 DEF SensorTypeOK
    <2>2. /\ pStepCount' \in {"NULL", "counter"}
          /\ pinInt' \in BOOLEAN /\ callback' \in BOOLEAN
          /\ held' \in BOOLEAN /\ regs' \subseteq Registers
          /\ refused' \subseteq Registers \cup {InterfaceMcu}
      BY <1>1, <1>3 DEF SensorTypeOK
    <2>3. pending' \in BOOLEAN /\ booting' \in BOOLEAN
      BY <1>3 DEF SensorTypeOK, outside,
                  stepcount_handler, NoCallback, EventStarts, EventEnds, InterfaceBoots
    <2>4. count' \in Nat /\ edges' \in Nat
      BY <1>3 DEF SensorTypeOK, stepcount_handler, NoCallback, EventStarts, EventEnds, InterfaceBoots
    <2> QED BY <2>1, <2>2, <2>3, <2>4 DEF SensorTypeOK
  <1>5. NoPhantomSteps'
    <2> USE <1>3 DEF StepsInv, SensorTypeOK, NoPhantomSteps, driverVars
    <2>1. CASE stepcount_handler \/ NoCallback
      BY <2>1 DEF stepcount_handler, NoCallback
    <2>2. CASE EventStarts \/ EventEnds \/ InterfaceBoots
      BY <2>2 DEF EventStarts, EventEnds, InterfaceBoots
    <2> QED BY <2>1, <2>2
  <1> QED BY <1>2, <1>4, <1>5 DEF StepsInv

LEMMA RestartStep == StepsInv /\ Restart => StepsInv'
  <1> SUFFICES ASSUME StepsInv, Restart PROVE StepsInv'
    OBVIOUS
  <1>1. pc' = "i2c"
    BY FirstStatement DEF Restart, StepsInv, SensorTypeOK
  <1>2. SensorTypeOK
    BY DEF StepsInv
  <1>3. SensorTypeOK'
    BY <1>1, <1>2 DEF SensorTypeOK, Restart, Statements
  <1>4. LineFreed' /\ PlumbedSoFar' /\ WrittenSoFar' /\ ResultMeans'
    BY <1>1, <1>2 DEF SensorTypeOK, Restart, LineFreed, PlumbedSoFar, WrittenSoFar, ResultMeans,
                      Starting, Arming, Between
  <1>5. NoPhantomSteps'
    BY DEF Restart, NoPhantomSteps
  <1> QED BY <1>3, <1>4, <1>5 DEF StepsInv

LEMMA StepsNext == StepsInv /\ [Next]_vars => StepsInv'
  <1>1. StepsInv /\ UNCHANGED vars => StepsInv'
    BY DEF StepsInv, SensorTypeOK, LineFreed, PlumbedSoFar, WrittenSoFar, ResultMeans, Written,
           NoPhantomSteps, vars, driverVars, outside
  <1> QED BY <1>1, BeginStep, PlumbingStep, ConfigureStep, OutsideStep, RestartStep DEF Next, Driver

\* The invariant is strong enough.
LEMMA StepsAnswer == StepsInv => AnswersHold
  BY DEF StepsInv, SensorTypeOK, LineFreed, PlumbedSoFar, ResultMeans, Written, Between, AnswersHold,
         Counting, Configured, Registers

(***************************************************************************)
(* The driver on its own: what lsm303_countSteps answers holds, and no     *)
(* step comes out of nothing, however often the processor restarts.        *)
(***************************************************************************)
THEOREM DriverCorrect == Safety => []AnswersHold /\ []NoPhantomSteps
  <1>1. StepsInv => AnswersHold /\ NoPhantomSteps
    BY StepsAnswer DEF StepsInv
  <1> QED BY <1>1, StepsInit, StepsNext, PTL DEF Safety
-----------------------------------------------------------------------------
(***************************************************************************)
(* The bodies of the other programs, statement by statement.               *)
(***************************************************************************)
LEMMA DomainIs ==
  ASSUME NEW S, NEW s \in Seq(S)
  PROVE  DOMAIN s = 1 .. Len(s)
  OBVIOUS

MonitorWords ==
  {"display_begin", "bus", "calibration", "command", "status", "temperature", "pressure",
   "show", "show_pressure"}

\* Where main's loop, which follows body[first], does what.
MonitorLoop(body, first) ==
  /\ \A i \in {1, 7, 16, 22} : body[first + i] = "command" /\ body[first + i + 1] = "status"
  /\ \A i \in {3, 4, 5, 9, 10, 11, 18, 19, 20, 24, 25, 26} : body[first + i] = "temperature"
  /\ \A i \in {12, 13, 14, 27, 28, 29} : body[first + i] = "pressure"
  /\ \A i \in {6, 21} : body[first + i] = "show"
  /\ \A i \in {15, 30} : body[first + i] = "show_pressure"

\* 28 statements of start-up, the last 26 of them the calibration.
LEMMA MonitorBody ==
  ASSUME board \in Bmp!Boards
  PROVE  /\ Len(Bmp!main.setup) = 28
         /\ DOMAIN Bmp!Body(Bmp!main) = 1 .. 58 /\ Len(Bmp!Body(Bmp!main)) = 58
         /\ \A i \in 1 .. 28 : Bmp!Body(Bmp!main)[i] \in {"display_begin", "bus", "calibration"}
         /\ MonitorLoop(Bmp!Body(Bmp!main), 28)
  <1> DEFINE setup == <<"display_begin">> \o Bmp!bmp280_begin
             loop  == Bmp!monitor310.loop
  <1>1. Bmp!main = Bmp!monitor310
    BY DEF Bmp!Boards, Bmp!main, Bmp!Programs, Bmp!monitor260
  <1>2. Bmp!main.setup = setup /\ Bmp!main.loop = loop
    BY <1>1 DEF Bmp!monitor310
  <1>3. setup \in Seq(MonitorWords) /\ Len(setup) = 28
    BY DEF Bmp!bmp280_begin, MonitorWords
  <1>4. \A i \in 1 .. 28 : setup[i] \in {"display_begin", "bus", "calibration"}
    BY DEF Bmp!bmp280_begin
  <1>5. loop \in Seq(MonitorWords) /\ Len(loop) = 30
    BY DEF Bmp!monitor310, Bmp!bmp280_readTemperature, Bmp!bmp280_readPressure, MonitorWords
  <1>6. MonitorLoop(loop, 0)
    BY DEF Bmp!monitor310, Bmp!bmp280_readTemperature, Bmp!bmp280_readPressure, MonitorLoop
  <1> HIDE DEF setup, loop
  <1>7. Bmp!Body(Bmp!main) = setup \o loop
    BY <1>2 DEF Bmp!Body
  <1> DEFINE body == setup \o loop
  <1>8. /\ DOMAIN body = 1 .. 58 /\ Len(body) = 58
        /\ \A i \in 1 .. 28 : body[i] = setup[i]
        /\ \A i \in 1 .. 30 : body[28 + i] = loop[i]
    <2>1. setup \in Seq(MonitorWords) /\ 28 <= Len(setup) /\ Len(setup) <= 28
      BY <1>3
    <2>2. loop \in Seq(MonitorWords) /\ 30 <= Len(loop) /\ Len(loop) <= 30
      BY <1>5
    <2>3. body \in Seq(MonitorWords)
      BY <2>1, <2>2
    <2>4. Len(body) = 58
      BY <2>1, <2>2
    <2>5. \A i \in 1 .. 28 : body[i] = setup[i]
      BY <2>1, <2>2
    <2>6. \A i \in 1 .. 30 : body[28 + i] = loop[i]
      BY <2>1, <2>2
    <2> HIDE DEF body
    <2>7. DOMAIN body = 1 .. Len(body)
      BY <2>3, DomainIs
    <2> QED BY <2>4, <2>5, <2>6, <2>7
  <1> HIDE DEF body
  <1>9. \A i \in 1 .. 29 : body[28 + i] = loop[i] /\ body[28 + i + 1] = loop[i + 1]
    BY <1>8
  <1>10. MonitorLoop(body, 28)
    BY <1>6, <1>8, <1>9, SMTT(30) DEF MonitorLoop
  <1>11. Bmp!Body(Bmp!main) = body
    BY <1>7 DEF body
  <1>12. Len(Bmp!main.setup) = 28
    BY <1>2, <1>3
  <1>13. \A i \in 1 .. 28 : body[i] \in {"display_begin", "bus", "calibration"}
    BY <1>4, <1>8
  <1> QED
    BY <1>8, <1>10, <1>11, <1>12, <1>13

LEMMA AnalogBody ==
  ASSUME board \in Analog!Boards
  PROVE  LET body == Analog!Body(Analog!main)
             setup == IF board = "analog310" THEN 4 ELSE 3
         IN  /\ Len(Analog!main.setup) = setup
             /\ DOMAIN body = 1 .. setup + 3 /\ Len(body) = setup + 3
             /\ \A i \in 1 .. 3 : body[i] \in {"adc_device", "channel", "pwm_device"}
             /\ setup = 4 => body[4] = "half"
             /\ body[setup + 1] = "readDigital"
             /\ body[setup + 2] = "readVoltage"
             /\ body[setup + 3] = "write"
  <1> DEFINE Words == {"adc_device", "channel", "pwm_device", "half", "readDigital", "readVoltage", "write"}
             setup310 == Analog!analog310.setup
             setup370 == Analog!analog370.setup
             loop  == <<"readDigital", "readVoltage", "write">>
  <1> USE DEF Analog!adc_begin, Analog!pwm_begin, Analog!turn
  <1>1. Analog!main = IF board = "analog310" THEN Analog!analog310 ELSE Analog!analog370
    <2>1. Analog!analog260 = Analog!analog370
      BY DEF Analog!analog260, Analog!analog370
    <2>2. board \in {"analog260", "analog310", "analog370"}
      BY DEF Analog!Boards, Analog!Programs
    <2>3. Analog!main = Analog!Programs[board]
      BY DEF Analog!main
    <2> QED BY <2>1, <2>2, <2>3 DEF Analog!Programs
  <1>2. loop \in Seq(Words) /\ Len(loop) = 3
    OBVIOUS
  <1>3. /\ setup310 \in Seq(Words) /\ Len(setup310) = 4
        /\ \A i \in 1 .. 3 : setup310[i] \in {"adc_device", "channel", "pwm_device"}
        /\ setup310[4] = "half"
    BY DEF Analog!analog310
  <1>4. /\ setup370 \in Seq(Words) /\ Len(setup370) = 3
        /\ \A i \in 1 .. 3 : setup370[i] \in {"adc_device", "channel", "pwm_device"}
    BY DEF Analog!analog370
  <1>5. Analog!analog310.loop = loop /\ Analog!analog370.loop = loop
    BY DEF Analog!analog310, Analog!analog370
  <1> HIDE DEF setup310, setup370, Words
  <1>6. CASE board = "analog310"
    <2> DEFINE body == setup310 \o loop
    <2>1. Analog!Body(Analog!main) = body /\ Analog!main.setup = setup310
      BY <1>1, <1>5, <1>6 DEF Analog!Body, setup310
    <2>2. setup310 \in Seq(Words) /\ 4 <= Len(setup310) /\ Len(setup310) <= 4
      BY <1>3
    <2>3. /\ body \in Seq(Words) /\ Len(body) = 7
          /\ \A i \in 1 .. 4 : body[i] = setup310[i]
          /\ body[5] = "readDigital" /\ body[6] = "readVoltage" /\ body[7] = "write"
      BY <1>2, <2>2
    <2> HIDE DEF body
    <2>4. DOMAIN body = 1 .. Len(body)
      BY <2>3, DomainIs
    <2> QED BY <1>3, <1>6, <2>1, <2>3, <2>4
  <1>7. CASE board # "analog310"
    <2> DEFINE body == setup370 \o loop
    <2>1. Analog!Body(Analog!main) = body /\ Analog!main.setup = setup370
      BY <1>1, <1>5, <1>7 DEF Analog!Body, setup370
    <2>2. setup370 \in Seq(Words) /\ 3 <= Len(setup370) /\ Len(setup370) <= 3
      BY <1>4
    <2>3. /\ body \in Seq(Words) /\ Len(body) = 6
          /\ \A i \in 1 .. 3 : body[i] = setup370[i]
          /\ body[4] = "readDigital" /\ body[5] = "readVoltage" /\ body[6] = "write"
      BY <1>2, <2>2
    <2> HIDE DEF body
    <2>4. DOMAIN body = 1 .. Len(body)
      BY <2>3, DomainIs
    <2> QED BY <1>4, <1>7, <2>1, <2>3, <2>4
  <1> QED BY <1>6, <1>7
-----------------------------------------------------------------------------
(***************************************************************************)
(* The pressure monitor.                                                   *)
(***************************************************************************)
CommandAt == {29, 35, 44, 50}
StatusAt == {30, 36, 45, 51}
TemperatureAt == {31, 32, 33, 37, 38, 39, 46, 47, 48, 52, 53, 54}
PressureAt == {40, 41, 42, 55, 56, 57}
ShowAt == {34, 49}
ShowPressureAt == {43, 58}

LEMMA MonitorPlaces ==
  ASSUME board \in Bmp!Boards
  PROVE  /\ Bmp!At(Bmp!main, "command") <=> at \in CommandAt
         /\ Bmp!At(Bmp!main, "status") <=> at \in StatusAt
         /\ Bmp!At(Bmp!main, "temperature") <=> at \in TemperatureAt
         /\ Bmp!At(Bmp!main, "pressure") <=> at \in PressureAt
         /\ Bmp!At(Bmp!main, "show") <=> at \in ShowAt
         /\ Bmp!At(Bmp!main, "show_pressure") <=> at \in ShowPressureAt
         /\ \A s \in {"display_begin", "bus", "calibration"} : Bmp!At(Bmp!main, s) => at \in 1 .. 28
         /\ Bmp!Advance(Bmp!main) => at' = (IF at < 58 THEN at + 1 ELSE 29)
  <1> DEFINE body == Bmp!Body(Bmp!main)
  <1>1. /\ Len(Bmp!main.setup) = 28
        /\ DOMAIN body = 1 .. 58 /\ Len(body) = 58
        /\ \A i \in 1 .. 28 : body[i] \in {"display_begin", "bus", "calibration"}
        /\ MonitorLoop(body, 28)
    BY MonitorBody
  <1>2. \A s : Bmp!At(Bmp!main, s) <=> at \in 1 .. 58 /\ body[at] = s
    BY <1>1 DEF Bmp!At
  <1>3. Bmp!Advance(Bmp!main) => at' = (IF at < 58 THEN at + 1 ELSE 29)
    BY <1>1 DEF Bmp!Advance
  <1> HIDE DEF body
  <1>4. /\ \A i \in CommandAt : body[i] = "command"
        /\ \A i \in StatusAt : body[i] = "status"
        /\ \A i \in TemperatureAt : body[i] = "temperature"
        /\ \A i \in PressureAt : body[i] = "pressure"
        /\ \A i \in ShowAt : body[i] = "show"
        /\ \A i \in ShowPressureAt : body[i] = "show_pressure"
    BY <1>1 DEF MonitorLoop, CommandAt, StatusAt, TemperatureAt, PressureAt, ShowAt, ShowPressureAt
  <1>5. 1 .. 58 = (1 .. 28) \cup CommandAt \cup StatusAt \cup TemperatureAt \cup PressureAt
                     \cup ShowAt \cup ShowPressureAt
    BY DEF CommandAt, StatusAt, TemperatureAt, PressureAt, ShowAt, ShowPressureAt
  <1> QED BY <1>1, <1>2, <1>3, <1>4, <1>5

\* A measurement is only under way while main waits for it, with nothing read
\* yet: what is read afterwards is of the measurement the registers hold, and
\* that is the one asked for.
MonitorInv ==
  /\ at \in 0 .. 58
  /\ measurement \in 0 .. 2 /\ busy \in BOOLEAN
  /\ busy => at \in StatusAt
  /\ at \in StatusAt => temperature = {} /\ pressure = {}
  /\ temperature \cup pressure \subseteq {measurement, Bmp!Garbage}
  /\ asked # Bmp!Refused => asked = IF busy THEN (measurement + 1) % 3 ELSE measurement
  /\ at \in {32, 33, 34} \cup (38 .. 43) \cup {47, 48, 49} \cup (53 .. 58) => temperature # {}

LEMMA MonitorStep ==
  ASSUME board \in Bmp!Boards, MonitorInv, Bmp!Next
  PROVE  MonitorInv'
  <1> USE DEF CommandAt, StatusAt, TemperatureAt, PressureAt, ShowAt, ShowPressureAt, Bmp!Garbage, Bmp!Refused
  <1>1. CASE Bmp!Begin \/ Bmp!Calibrate \/ Bmp!Show
    BY <1>1, MonitorPlaces
       DEF MonitorInv, Bmp!Begin, Bmp!Calibrate, Bmp!Show, Bmp!Showing, Bmp!Stop, Bmp!monitorVars
  <1>0. (measurement + 1) % 3 \in 0 .. 2
    BY DEF MonitorInv
  <1>2. CASE Bmp!Command
    <2>1. at \in CommandAt /\ at' \in StatusAt /\ ~busy
      BY <1>2, MonitorPlaces DEF MonitorInv, Bmp!Command
    <2>2. temperature' = {} /\ pressure' = {} /\ UNCHANGED measurement
      BY <1>2 DEF Bmp!Command
    <2>3. CASE bus = "up"
      <3>1. busy' = TRUE /\ asked' = (measurement + 1) % 3
        BY <1>2, <2>3 DEF Bmp!Command
      <3> QED BY <1>0, <2>1, <2>2, <3>1 DEF MonitorInv
    <2>4. CASE bus # "up"
      <3>1. UNCHANGED busy /\ asked' = Bmp!Refused
        BY <1>2, <2>4 DEF Bmp!Command
      <3> QED BY <2>1, <2>2, <3>1 DEF MonitorInv
    <2> QED BY <2>3, <2>4
  <1>3. CASE Bmp!Status
    BY <1>3, MonitorPlaces DEF MonitorInv, Bmp!Status, Bmp!Repeat, Bmp!programVars, Bmp!monitorVars
  <1>4. CASE Bmp!ReadTemperature
    BY <1>4, MonitorPlaces DEF MonitorInv, Bmp!ReadTemperature, Bmp!Byte
  <1>5. CASE Bmp!ReadPressure
    BY <1>5, MonitorPlaces DEF MonitorInv, Bmp!ReadPressure, Bmp!Byte
  <1>6. CASE Bmp!MeasurementEnds
    <2>1. /\ at \in StatusAt /\ temperature = {} /\ pressure = {}
          /\ asked # Bmp!Refused => asked = (measurement + 1) % 3
      BY <1>6 DEF MonitorInv, Bmp!MeasurementEnds
    <2>2. /\ UNCHANGED <<at, asked, temperature, pressure>>
          /\ busy' = FALSE /\ measurement' = (measurement + 1) % 3
      BY <1>6 DEF Bmp!MeasurementEnds, Bmp!programVars
    <2> QED BY <1>0, <2>1, <2>2 DEF MonitorInv
  <1>7. CASE Bmp!BusChanges
    BY <1>7 DEF MonitorInv, Bmp!BusChanges, Bmp!programVars
  <1> QED BY <1>1, <1>2, <1>3, <1>4, <1>5, <1>6, <1>7 DEF Bmp!Next, Bmp!Main

LEMMA CardinalityIs ==
  ASSUME NEW S
  PROVE  Bmp!Cardinality(S) = Cardinality(S)
  BY DEF Bmp!Cardinality, Cardinality

LEMMA MonitorShows ==
  ASSUME board \in Bmp!Boards, MonitorInv
  PROVE  Bmp!OneMeasurement
  <1> DEFINE shown == IF Bmp!At(Bmp!main, "show") THEN temperature ELSE temperature \cup pressure
  <1>1. ASSUME Bmp!Showing, Bmp!Garbage \notin shown
        PROVE  Bmp!Cardinality(shown) = 1 /\ (asked # Bmp!Refused => shown = {asked})
    <2>1. at \in ShowAt \cup ShowPressureAt
      BY <1>1, MonitorPlaces DEF Bmp!Showing
    <2>2. shown = {measurement} /\ ~busy
      BY <1>1, <2>1 DEF MonitorInv, ShowAt, ShowPressureAt, StatusAt
    <2>3. Bmp!Cardinality({measurement}) = 1
      BY FS_Singleton, CardinalityIs
    <2> QED BY <2>2, <2>3 DEF MonitorInv
  <1> HIDE DEF shown
  <1>2. Bmp!Showing /\ Bmp!Garbage \notin shown =>
          Bmp!Cardinality(shown) = 1 /\ (asked # Bmp!Refused => shown = {asked})
    BY <1>1
  <1> QED BY <1>2 DEF Bmp!OneMeasurement, shown

-----------------------------------------------------------------------------
(***************************************************************************)
(* The duty.                                                               *)
(***************************************************************************)
WriteAt == IF board = "analog310" THEN 7 ELSE 6

LEMMA AnalogPlaces ==
  ASSUME board \in Analog!Boards
  PROVE  /\ Analog!At(Analog!main, "readDigital") <=> at = WriteAt - 2
         /\ Analog!At(Analog!main, "readVoltage") <=> at = WriteAt - 1
         /\ Analog!At(Analog!main, "write") <=> at = WriteAt
         /\ Analog!At(Analog!main, "half") => at = 4 /\ WriteAt = 7
         /\ \A s \in {"adc_device", "channel", "pwm_device"} : Analog!At(Analog!main, s) => at \in 1 .. 3
         /\ Analog!Advance(Analog!main) => at' = (IF at < WriteAt THEN at + 1 ELSE WriteAt - 2)
  <1> DEFINE body == Analog!Body(Analog!main)
             setup == WriteAt - 3
  <1>1. /\ Len(Analog!main.setup) = setup
        /\ DOMAIN body = 1 .. WriteAt /\ Len(body) = WriteAt
        /\ \A i \in 1 .. 3 : body[i] \in {"adc_device", "channel", "pwm_device"}
        /\ setup = 4 => body[4] = "half"
        /\ body[WriteAt - 2] = "readDigital"
        /\ body[WriteAt - 1] = "readVoltage"
        /\ body[WriteAt] = "write"
    BY AnalogBody DEF WriteAt
  <1>2. \A s : Analog!At(Analog!main, s) <=> at \in 1 .. WriteAt /\ body[at] = s
    BY <1>1 DEF Analog!At
  <1>3. Analog!Advance(Analog!main) => at' = (IF at < WriteAt THEN at + 1 ELSE WriteAt - 2)
    BY <1>1 DEF Analog!Advance, WriteAt
  <1> HIDE DEF body
  <1>4. CASE board = "analog310"
    BY <1>1, <1>2, <1>3, <1>4 DEF WriteAt
  <1>5. CASE board # "analog310"
    BY <1>1, <1>2, <1>3, <1>5 DEF WriteAt
  <1> QED BY <1>4, <1>5

LEMMA Division ==
  ASSUME NEW n \in Nat, NEW d \in {100, 4095, 1000000}
  PROVE  /\ n \div d \in Nat
         /\ d * (n \div d) <= n
         /\ n < d * (n \div d) + d
  BY SMT

\* The arithmetic of pwm_write, for every voltage of the converter's range:
\* the pulse fits its parameter and the period, and is in proportion.
InRange(v) == v \in 0 .. 4095

LEMMA PulseFits ==
  ASSUME NEW v, InRange(v)
  PROVE  /\ Analog!PWM_PERIOD \in Nat
         /\ Analog!Argument(Analog!Pulse(v)) = Analog!Pulse(v)
         /\ Analog!Pulse(v) \in Nat /\ Analog!Pulse(v) <= Analog!PWM_PERIOD
         /\ duty = Analog!Pulse(v) => Analog!Proportional(v)
  <1> DEFINE y == (v * 1000) \div 4095
  <1> USE DEF InRange
  <1>0. y \in Nat /\ 4095 * y <= v * 1000 /\ v * 1000 < 4095 * y + 4095
    BY Division, SMT
  <1>1. CASE board = "analog260"
    <2> DEFINE p == (v * 100) \div 4095
               x == (p * 1000) \div 100
    <2>1. Analog!PWM_PERIOD = 100 /\ 100 \div 4095 = 0 /\ 100 % 4095 = 100
      BY <1>1, SMT DEF Analog!PWM_PERIOD
    <2>2. Analog!Pulse(v) = p
      BY <2>1, SMT DEF Analog!Pulse
    <2>3. p \in Nat /\ 4095 * p <= v * 100 /\ v * 100 < 4095 * p + 4095
      BY Division, SMT
    <2> HIDE DEF p
    <2>4. p \in Nat /\ p <= 100
      <3>1. v \in Nat /\ v <= 4095
        OBVIOUS
      <3>2. \A n \in Nat : 4095 * n <= 409500 => n <= 100
        BY SMT
      <3>3. 4095 * p <= 409500
        BY <2>3, <3>1, SMT
      <3> QED BY <2>3, <3>2, <3>3
    <2>9. p % 65536 = p
      BY <2>4, SMT
    <2>5. x \in Nat /\ 100 * x <= p * 1000 /\ p * 1000 < 100 * x + 100
      BY <2>3, Division, SMT
    <2> HIDE DEF x, y
    <2>6. x - y <= 10 /\ y - x <= 10
      BY <1>0, <2>3, <2>5, SMT
    <2>7. Analog!iabs(x - y) <= 10
      BY <1>0, <2>5, <2>6, SMT DEF Analog!iabs
    <2>8. duty = p => Analog!Proportional(v)
      BY <2>1, <2>7, SMT DEF Analog!Proportional, x, y
    <2> QED BY <1>1, <2>1, <2>2, <2>4, <2>8, <2>9, SMT DEF Analog!Argument
  <1>2. CASE board # "analog260"
    <2> DEFINE q == (v * 820) \div 4095
               p == (v * 244) + q
               x == (p * 1000) \div 1000000
    <2>1. Analog!PWM_PERIOD = 1000000 /\ 1000000 \div 4095 = 244 /\ 1000000 % 4095 = 820
      BY <1>2, SMT DEF Analog!PWM_PERIOD
    <2>2. Analog!Pulse(v) = p
      BY <2>1, SMT DEF Analog!Pulse
    <2>3. q \in Nat /\ 4095 * q <= v * 820 /\ v * 820 < 4095 * q + 4095
      BY Division, SMT
    <2> HIDE DEF q
    <2>4. p \in Nat /\ p <= 1000000
      BY <2>3, SMT
    <2> HIDE DEF p
    <2>5. x \in Nat /\ 1000000 * x <= p * 1000 /\ p * 1000 < 1000000 * x + 1000000
      BY <2>4, Division, SMT
    <2> HIDE DEF x, y
    <2>6. x - y <= 1 /\ y - x <= 1
      BY <1>0, <2>3, <2>5, SMT DEF p
    <2>7. Analog!iabs(x - y) <= 1
      BY <1>0, <2>5, <2>6, SMT DEF Analog!iabs
    <2>8. duty = p => Analog!Proportional(v)
      BY <2>1, <2>7, SMT DEF Analog!Proportional, x, y
    <2>9. Analog!Argument(p) = p
      BY <1>2, SMT DEF Analog!Argument
    <2>10. p \in Nat /\ p <= Analog!PWM_PERIOD
      BY <2>1, <2>4, SMT
    <2>11. Analog!PWM_PERIOD \in Nat
      BY <2>1, SMT
    <2> HIDE <2>1
    <2> QED BY <2>2, <2>8, <2>9, <2>10, <2>11
  <1> QED BY <1>1, <1>2

\* main's sample is the first conversion of the turn, and the duty its pulse.
AnalogInv ==
  /\ at \in 0 .. WriteAt
  /\ at \in {WriteAt - 1, WriteAt} /\ voltage # Analog!Missed => adcvalue = voltage
  /\ written \in BOOLEAN
  /\ written => at = WriteAt - 2
  /\ written /\ voltage \in 0 .. 4095 => duty = Analog!Pulse(voltage)
  /\ voltage \in Voltages \cup {Analog!Missed}

LEMMA AnalogStep ==
  ASSUME board \in Analog!Boards, AnalogInv, Analog!Next, UNCHANGED board
  PROVE  AnalogInv'
  <1> WriteAt' = WriteAt /\ WriteAt \in {6, 7}
    BY DEF WriteAt
  <1>0. voltage' = voltage => Analog!Pulse(voltage)' = Analog!Pulse(voltage)
    BY DEF Analog!Pulse, Analog!PWM_PERIOD
  <1>1. CASE Analog!Begin
    <2>1. at \in 1 .. 3 /\ at' \in {0, at + 1} /\ UNCHANGED <<written, voltage, adcvalue>>
      BY <1>1, AnalogPlaces DEF Analog!Begin, Analog!Stop, Analog!analogVars
    <2>2. written' = FALSE
      BY <2>1 DEF AnalogInv
    <2> QED BY <2>1, <2>2 DEF AnalogInv
  <1>2. CASE Analog!adc_readDigital
    <2>1. at = WriteAt - 2 /\ at' = WriteAt - 1 /\ written' = FALSE
      BY <1>2, AnalogPlaces DEF Analog!adc_readDigital
    <2>2. /\ voltage' # Analog!Missed => adcvalue' = voltage'
          /\ voltage' \in Voltages \cup {Analog!Missed}
      BY <1>2 DEF Analog!adc_readDigital, Analog!Converts
    <2>3. at' \in 0 .. WriteAt'
      BY <2>1
    <2>4. written' \in BOOLEAN /\ ~written'
      BY <2>1
    <2> QED BY <2>2, <2>3, <2>4 DEF AnalogInv
  <1>3. CASE Analog!adc_readVoltage
    <2>1. at = WriteAt - 1 /\ at' = WriteAt /\ UNCHANGED <<written, voltage, adcvalue>>
      BY <1>3, AnalogPlaces DEF Analog!adc_readVoltage
    <2>2. written' = FALSE
      BY <2>1 DEF AnalogInv
    <2> QED BY <2>1, <2>2 DEF AnalogInv
  <1>4. CASE Analog!WriteHalf
    BY <1>4, AnalogPlaces DEF AnalogInv, Analog!WriteHalf
  <1>5. CASE Analog!Write
    <2>1. written' /\ UNCHANGED <<adcvalue, voltage>> /\ at = WriteAt /\ at' = WriteAt - 2
      BY <1>5, AnalogPlaces DEF Analog!Write
    <2>2. ASSUME voltage \in 0 .. 4095 PROVE duty' = Analog!Pulse(voltage)
      <3>1. adcvalue = voltage
        BY <2>1, <2>2 DEF AnalogInv, Analog!Missed
      <3>2. duty' = IF Analog!Argument(Analog!Pulse(voltage)) <= Analog!PWM_PERIOD
                    THEN Analog!Argument(Analog!Pulse(voltage)) ELSE duty
        BY <1>5, <3>1 DEF Analog!Write, Analog!pwm_write
      <3>3. /\ Analog!PWM_PERIOD \in Nat
            /\ Analog!Argument(Analog!Pulse(voltage)) = Analog!Pulse(voltage)
            /\ Analog!Pulse(voltage) <= Analog!PWM_PERIOD
        <4>1. InRange(voltage)
          BY <2>2 DEF InRange
        <4> QED BY <4>1, PulseFits
      <3> QED BY <3>2, <3>3
    <2>3. voltage' \in 0 .. 4095 => duty' = Analog!Pulse(voltage)'
      BY <1>0, <2>1, <2>2
    <2> QED BY <2>1, <2>3 DEF AnalogInv
  <1> QED BY <1>1, <1>2, <1>3, <1>4, <1>5 DEF Analog!Next

LEMMA AnalogProportional ==
  ASSUME board \in Analog!Boards, AnalogInv
  PROVE  Analog!PulseInProportion
  <1> SUFFICES ASSUME written, voltage \in 0 .. 4095 PROVE Analog!Proportional(voltage)
    BY DEF Analog!PulseInProportion
  <1>1. duty = Analog!Pulse(voltage)
    BY DEF AnalogInv
  <1>2. InRange(voltage)
    BY DEF InRange
  <1> QED BY <1>1, <1>2, PulseFits
-----------------------------------------------------------------------------
(***************************************************************************)
(* The shift register of the display demo.                                 *)
(***************************************************************************)
LEMMA ShiftFacts ==
  ASSUME NEW r, r \subseteq Demo!Positions
  PROVE  /\ Demo!Shift(r) \subseteq Demo!Positions
         /\ \A i \in 0 .. (Width - 2) : i + 1 \in Demo!Shift(r) <=> i \in r
         /\ 0 \in Demo!Shift(r) <=> (Width - 4 \in r <=> Width - 1 \in r)
  <1> Width \in Nat /\ Width > 4
    BY PeripheralsAssumption
  <1>1. r \subseteq 0 .. (Width - 1)
    BY DEF Demo!Positions
  <1>2. Demo!MovedUp(r) \subseteq 1 .. (Width - 1)
    BY <1>1 DEF Demo!MovedUp
  <1>3. \A i \in 0 .. (Width - 2) : i + 1 \in Demo!MovedUp(r) <=> i \in r
    BY <1>1 DEF Demo!MovedUp
  <1>4. Demo!Shift(r) = Demo!MovedUp(r) \cup (IF Width - 4 \in r <=> Width - 1 \in r THEN {0} ELSE {})
    BY DEF Demo!Shift
  <1>5. Demo!Shift(r) \subseteq Demo!Positions
    BY <1>2, <1>4 DEF Demo!Positions
  <1>6. 0 \in Demo!Shift(r) <=> (Width - 4 \in r <=> Width - 1 \in r)
    BY <1>2, <1>4
  <1>7. \A i \in 0 .. (Width - 2) : i + 1 \in Demo!Shift(r) <=> i \in r
    BY <1>3, <1>4
  <1> QED BY <1>5, <1>6, <1>7

(***************************************************************************)
(* prbs loses nothing: two registers never have the same successor, for    *)
(* every width.  So the sequence has no lead-in: it can only come back to  *)
(* the seed it started from.                                               *)
(***************************************************************************)
THEOREM ShiftLosesNothing ==
  ASSUME NEW r, NEW t, r \subseteq Demo!Positions, t \subseteq Demo!Positions,
         Demo!Shift(r) = Demo!Shift(t)
  PROVE  r = t
  <1> Width \in Nat /\ Width > 4
    BY PeripheralsAssumption
  <1>1. \A i \in 0 .. (Width - 2) : i \in r <=> i \in t
    BY ShiftFacts
  <1>2. Width - 4 \in 0 .. (Width - 2)
    OBVIOUS
  <1>3. Width - 4 \in r <=> Width - 4 \in t
    BY <1>1, <1>2
  <1>4. (Width - 4 \in r <=> Width - 1 \in r) <=> (Width - 4 \in t <=> Width - 1 \in t)
    BY ShiftFacts
  <1>5. Width - 1 \in r <=> Width - 1 \in t
    BY <1>3, <1>4
  <1>6. \A i \in 0 .. (Width - 1) : i \in r <=> i \in t
    BY <1>1, <1>5
  <1> QED BY <1>6 DEF Demo!Positions

\* A register full of ones would never change again.
LEMMA FullIsStuck == Demo!Shift(Demo!Positions) = Demo!Positions
  <1> Width \in Nat /\ Width > 4
    BY PeripheralsAssumption
  <1>1. 0 \in Demo!Shift(Demo!Positions)
    BY ShiftFacts DEF Demo!Positions
  <1>2. \A i \in 1 .. (Width - 1) : i \in Demo!Shift(Demo!Positions)
    <2> TAKE i \in 1 .. (Width - 1)
    <2>1. i - 1 \in 0 .. (Width - 2) /\ (i - 1) + 1 = i /\ i - 1 \in Demo!Positions
      BY DEF Demo!Positions
    <2> QED BY <2>1, ShiftFacts
  <1>3. Demo!Positions \subseteq Demo!Shift(Demo!Positions)
    BY <1>1, <1>2 DEF Demo!Positions
  <1> QED BY <1>3, ShiftFacts

RegisterInv == shift_register \subseteq Demo!Positions /\ shift_register # Demo!Positions

LEMMA RegisterStarts ==
  ASSUME shift_register = Demo!Seed
  PROVE  RegisterInv
  <1>1. Demo!Seed \subseteq Demo!Positions /\ 1 \notin Demo!Seed
    BY DEF Demo!Seed
  <1>2. 1 \in Demo!Positions
    BY PeripheralsAssumption DEF Demo!Positions
  <1> QED BY <1>1, <1>2 DEF RegisterInv

LEMMA RegisterStep ==
  ASSUME RegisterInv, Demo!Next
  PROVE  RegisterInv'
  <1>1. CASE Demo!random
    <2>1. shift_register' = Demo!Shift(shift_register)
      BY <1>1 DEF Demo!random
    <2>2. shift_register \subseteq Demo!Positions /\ shift_register # Demo!Positions
      BY DEF RegisterInv
    <2>3. Demo!Shift(shift_register) \subseteq Demo!Positions
      BY <2>2, ShiftFacts
    <2>4. Demo!Shift(shift_register) # Demo!Positions
      BY <2>2, FullIsStuck, ShiftLosesNothing
    <2> QED BY <2>1, <2>3, <2>4 DEF RegisterInv, Demo!Positions
  <1>2. CASE Demo!Begin \/ Demo!Count
    BY <1>2 DEF Demo!Begin, Demo!Count, Demo!numbersVars, RegisterInv, Demo!Positions
  <1> QED BY <1>1, <1>2 DEF Demo!Next

-----------------------------------------------------------------------------
(***************************************************************************)
(* The serial programs.                                                    *)
(***************************************************************************)
LEMMA PrintBody ==
  ASSUME board \in Gpio!Serial
  PROVE  LET body == Gpio!Body(Gpio!main)
         IN  /\ Len(Gpio!main.setup) = 1 /\ Len(body) = 6 /\ DOMAIN body = 1 .. 6
             /\ body[1] = "pin_2" /\ body[2] = "on" /\ body[3] = "off"
             /\ body[4] = "fetch" /\ body[5] = "get" /\ body[6] = "print"
  <1> DEFINE Words == {"pin_2", "on", "off", "fetch", "get", "print"}
             setup == <<"pin_2">>
             loop == Gpio!blink \o Gpio!print
             body == setup \o loop
  <1> USE DEF Gpio!blink, Gpio!print
  <1>1. Gpio!main.setup = setup /\ Gpio!main.loop = loop
    <2>1. board \in {"accelerometer310", "accelerometer260", "magnetometer310", "magnetometer260"}
      BY DEF Gpio!Serial
    <2>2. Gpio!main = Gpio!Programs[board]
      BY <2>1 DEF Gpio!main, Gpio!Boards, Gpio!Programs
    <2>3. Gpio!Programs[board] = Gpio!accelerometer310
      BY <2>1 DEF Gpio!Programs, Gpio!accelerometer310, Gpio!accelerometer260,
                  Gpio!magnetometer310, Gpio!magnetometer260
    <2>4. Gpio!accelerometer310.setup = setup /\ Gpio!accelerometer310.loop = loop
      BY DEF Gpio!accelerometer310
    <2> QED BY <2>2, <2>3, <2>4
  <1>2. setup \in Seq(Words) /\ loop \in Seq(Words)
    OBVIOUS
  <1> HIDE DEF Words
  <1>3. body \in Seq(Words) /\ Len(body) = 6
    BY <1>2
  <1>4. /\ body[1] = "pin_2" /\ body[2] = "on" /\ body[3] = "off"
        /\ body[4] = "fetch" /\ body[5] = "get" /\ body[6] = "print"
    OBVIOUS
  <1>5. Gpio!Body(Gpio!main) = body /\ Len(Gpio!main.setup) = 1
    BY <1>1 DEF Gpio!Body
  <1> HIDE DEF body
  <1>6. DOMAIN body = 1 .. 6
    BY <1>3, DomainIs
  <1> QED BY <1>3, <1>4, <1>5, <1>6

LEMMA PrintPlaces ==
  ASSUME board \in Gpio!Serial
  PROVE  /\ \A s : Gpio!At(Gpio!main, s) =>
              /\ at \in 1 .. 6
              /\ s \in {"pin_2", "on", "off", "fetch", "get", "print"}
              /\ s = "fetch" <=> at = 4
              /\ s = "get" <=> at = 5
              /\ s = "print" <=> at = 6
         /\ Gpio!Advance(Gpio!main) => at' = (IF at < 6 THEN at + 1 ELSE 2)
         /\ Gpio!Again(Gpio!main) => at' = 2
  <1> DEFINE body == Gpio!Body(Gpio!main)
  <1>1. /\ Len(Gpio!main.setup) = 1 /\ Len(body) = 6 /\ DOMAIN body = 1 .. 6
        /\ body[1] = "pin_2" /\ body[2] = "on" /\ body[3] = "off"
        /\ body[4] = "fetch" /\ body[5] = "get" /\ body[6] = "print"
    BY PrintBody
  <1>2. \A s : Gpio!At(Gpio!main, s) <=> at \in DOMAIN body /\ body[at] = s
    BY DEF Gpio!At
  <1>3. /\ Gpio!Advance(Gpio!main) => at' = (IF at < 6 THEN at + 1 ELSE 2)
        /\ Gpio!Again(Gpio!main) => at' = 2
    BY <1>1 DEF Gpio!Advance, Gpio!Again
  <1> HIDE DEF body
  <1> QED BY <1>1, <1>2, <1>3

\* Print is only reached through a fetch and a get that succeeded in this turn.
PrintInv ==
  /\ at \in 0 .. 6
  /\ at = 5 => sample = "new"
  /\ at = 6 => value = "new"

LEMMA PrintStep ==
  ASSUME board \in Gpio!Serial, PrintInv, Gpio!Next
  PROVE  PrintInv'
  <1>1. CASE Gpio!Configure \/ Gpio!MapRegisters \/ Gpio!DriveCathodeLow \/ Gpio!Begin
             \/ Gpio!Switch \/ Gpio!Test \/ Gpio!Read \/ Gpio!Copy
    <2>1. at \in 1 .. 3
      <3>1. CASE Gpio!Configure
        BY <3>1, PrintPlaces DEF Gpio!Configure
      <3>2. CASE Gpio!MapRegisters
        BY <3>2, PrintPlaces DEF Gpio!MapRegisters
      <3>3. CASE Gpio!DriveCathodeLow
        BY <3>3, PrintPlaces DEF Gpio!DriveCathodeLow
      <3>4. CASE Gpio!Begin
        BY <3>4, PrintPlaces DEF Gpio!Begin
      <3>5. CASE Gpio!Switch
        BY <3>5, PrintPlaces DEF Gpio!Switch
      <3>6. CASE Gpio!Test
        BY <3>6, PrintPlaces DEF Gpio!Test
      <3>7. CASE Gpio!Read
        BY <3>7, PrintPlaces DEF Gpio!Read
      <3>8. CASE Gpio!Copy
        BY <3>8, PrintPlaces DEF Gpio!Copy
      <3> QED BY <1>1, <3>1, <3>2, <3>3, <3>4, <3>5, <3>6, <3>7, <3>8
    <2>2. at' = at \/ at' = 0 \/ Gpio!Advance(Gpio!main)
      BY <1>1 DEF Gpio!Configure, Gpio!MapRegisters, Gpio!DriveCathodeLow, Gpio!Begin,
                  Gpio!Switch, Gpio!Test, Gpio!Read, Gpio!Copy, Gpio!Stop, Gpio!Repeat, Gpio!programVars
    <2>3. at' \in 0 .. 4
      BY <2>1, <2>2, PrintPlaces
    <2> QED BY <2>3 DEF PrintInv
  <1>2. CASE Gpio!Fetch
    BY <1>2, PrintPlaces DEF PrintInv, Gpio!Fetch
  <1>3. CASE Gpio!Get
    BY <1>3, PrintPlaces DEF PrintInv, Gpio!Get
  <1>4. CASE Gpio!PrintSample
    BY <1>4, PrintPlaces DEF PrintInv, Gpio!PrintSample
  <1>5. CASE Gpio!MoveButton \/ Gpio!button_a_pressed
    BY <1>5 DEF PrintInv, Gpio!MoveButton, Gpio!button_a_pressed, Gpio!programVars
  <1> QED BY <1>1, <1>2, <1>3, <1>4, <1>5 DEF Gpio!Next, Gpio!Main

LEMMA PrintShows == PrintInv => Gpio!PrintsFresh
  BY PrintPlaces DEF PrintInv, Gpio!PrintsFresh

-----------------------------------------------------------------------------
(***************************************************************************)
(* Readings.                                                               *)
(***************************************************************************)
MagneticAxes == {"MagX", "MagY", "MagZ"}

LEMMA ElementIs ==
  ASSUME NEW S, NEW s \in Seq(S), NEW i \in DOMAIN s
  PROVE  s[i] \in S
  OBVIOUS

LEMMA DemoBody ==
  ASSUME board = "demo370"
  PROVE  LET body == Lsm!Body(Lsm!main)
         IN  /\ Len(Lsm!main.setup) = 8 /\ Len(body) = 14 /\ DOMAIN body = 1 .. 14
             /\ body[1] = "who" /\ body[2] = "0x20" /\ body[3] = "0x23" /\ body[4] = "0x60"
             /\ body[5] = "0x62"
             /\ \A i \in 6 .. 14 : body[i] # "0x62"
  <1> DEFINE Words == {"who", "0x20", "0x23", "0x60", "0x62", "buttons_begin", "matrix_begin", "bt_enable",
                       "X", "Y", "Z", "MagX", "MagY", "MagZ"}
             setup == Lsm!begin370 \o <<"buttons_begin", "matrix_begin", "bt_enable">>
             loop == <<"X", "Y", "Z", "MagX", "MagY", "MagZ">>
             body == setup \o loop
  <1> USE DEF Lsm!begin370
  <1>1. Lsm!main.setup = setup /\ Lsm!main.loop = loop
    BY DEF Lsm!main, Lsm!Boards, Lsm!Programs, Lsm!demo370
  <1>2. setup \in Seq(Words) /\ loop \in Seq(Words) /\ Len(setup) = 8
    OBVIOUS
  <1>3. Len(body) = 14
    OBVIOUS
  <1>4. /\ body[1] = "who" /\ body[2] = "0x20" /\ body[3] = "0x23" /\ body[4] = "0x60"
        /\ body[5] = "0x62"
    OBVIOUS
  <1>5. \A i \in 6 .. 14 : body[i] # "0x62"
    OBVIOUS
  <1>6. Lsm!Body(Lsm!main) = body /\ Len(Lsm!main.setup) = 8
    BY <1>1, <1>2 DEF Lsm!Body
  <1> HIDE DEF setup, loop, Words
  <1>7. body \in Seq(Words)
    BY <1>2
  <1> HIDE DEF body
  <1>8. DOMAIN body = 1 .. 14
    BY <1>3, <1>7, DomainIs
  <1> QED BY <1>3, <1>4, <1>5, <1>6, <1>8

LEMMA PlainBody ==
  ASSUME board \in Lsm!Boards, board # "demo370"
  PROVE  \A axis \in MagneticAxes : ~Lsm!At(Lsm!main, axis)
  <1> DEFINE Words == {"who", "0x20", "0x23", "0x60", "0x62", "matrix_begin", "X", "Y", "Z"}
  <1> USE DEF Lsm!begin370, Lsm!begin310, Lsm!begin260
  <1>1. board \in {"lowlevel370", "lowlevel310", "lowlevel260", "accel370"}
    BY DEF Lsm!Boards, Lsm!Programs
  <1>2. Lsm!main = Lsm!Programs[board]
    BY <1>1 DEF Lsm!main, Lsm!Boards, Lsm!Programs
  <1>3. Lsm!main \in {Lsm!lowlevel370, Lsm!lowlevel310, Lsm!lowlevel260, Lsm!accel370}
    BY <1>1, <1>2 DEF Lsm!Programs
  <1>4. Lsm!main.setup \in Seq(Words) /\ Lsm!main.loop \in Seq(Words)
    <2>1. Lsm!lowlevel370.setup \in Seq(Words) /\ Lsm!lowlevel370.loop \in Seq(Words)
      BY DEF Lsm!lowlevel370
    <2>2. Lsm!lowlevel310.setup \in Seq(Words) /\ Lsm!lowlevel310.loop \in Seq(Words)
      BY DEF Lsm!lowlevel310
    <2>3. Lsm!lowlevel260.setup \in Seq(Words) /\ Lsm!lowlevel260.loop \in Seq(Words)
      BY DEF Lsm!lowlevel260
    <2>4. Lsm!accel370.setup \in Seq(Words) /\ Lsm!accel370.loop \in Seq(Words)
      BY DEF Lsm!accel370
    <2> HIDE DEF Words
    <2> QED BY <1>3, <2>1, <2>2, <2>3, <2>4
  <1> HIDE DEF Words
  <1>5. Lsm!Body(Lsm!main) \in Seq(Words)
    BY <1>4 DEF Lsm!Body
  <1>6. \A i \in DOMAIN Lsm!Body(Lsm!main) : Lsm!Body(Lsm!main)[i] \in Words
    BY <1>5, ElementIs
  <1> QED BY <1>6 DEF Lsm!At, Words, MagneticAxes

LEMMA ReadingPlaces ==
  ASSUME board \in Lsm!Boards
  PROVE  /\ \A axis \in MagneticAxes : Lsm!At(Lsm!main, axis) => board = "demo370" /\ at > 5
         /\ board = "demo370" =>
              /\ Lsm!At(Lsm!main, "0x62") <=> at = 5
              /\ \A s : Lsm!At(Lsm!main, s) => at \in 1 .. 14
              /\ Lsm!Advance(Lsm!main) => at' = (IF at < 14 THEN at + 1 ELSE 9)
  <1>1. CASE board = "demo370"
    <2> DEFINE body == Lsm!Body(Lsm!main)
    <2>1. /\ Len(Lsm!main.setup) = 8 /\ Len(body) = 14 /\ DOMAIN body = 1 .. 14
          /\ body[1] = "who" /\ body[2] = "0x20" /\ body[3] = "0x23" /\ body[4] = "0x60"
          /\ body[5] = "0x62"
          /\ \A i \in 6 .. 14 : body[i] # "0x62"
      BY <1>1, DemoBody
    <2>2. \A s : Lsm!At(Lsm!main, s) <=> at \in DOMAIN body /\ body[at] = s
      BY DEF Lsm!At
    <2>3. Lsm!Advance(Lsm!main) => at' = (IF at < 14 THEN at + 1 ELSE 9)
      BY <2>1 DEF Lsm!Advance
    <2> HIDE DEF body
    <2> QED BY <1>1, <2>1, <2>2, <2>3 DEF MagneticAxes
  <1> QED BY <1>1, PlainBody

(***************************************************************************)
(* The arithmetic of the driver, for any two 16 bit measurements.          *)
(***************************************************************************)
Int16(m) == m \in Int /\ -32768 <= m /\ m <= 32767

\* What the driver puts together from the low byte of first and the high one of last.
Raw(first, last) == Lsm!S16((((last \div 256) % 256) * 256) + (first % 256))

LEMMA Bytes ==
  ASSUME NEW m, Int16(m)
  PROVE  /\ m \div 256 \in Int /\ m % 256 \in Int
         /\ m = 256 * (m \div 256) + (m % 256)
         /\ 0 <= m % 256 /\ m % 256 <= 255
         /\ -128 <= m \div 256 /\ m \div 256 <= 127
  <1> DEFINE h == m \div 256
             l == m % 256
  <1>1. m \in Int /\ -32768 <= m /\ m <= 32767
    BY DEF Int16
  <1>2. h \in Int /\ l \in Int /\ 0 <= l /\ l <= 255
    BY <1>1, SMT
  <1>3. m = 256 * h + l
    BY <1>1, SMT
  <1> HIDE DEF h, l
  <1>4. -128 <= h
    BY <1>1, <1>2, <1>3, SMT
  <1>5. h <= 127
    BY <1>1, <1>2, <1>3, SMT
  <1> QED BY <1>2, <1>3, <1>4, <1>5 DEF h, l

LEMMA RawIs ==
  ASSUME NEW first, NEW last, Int16(first), Int16(last)
  PROVE  Raw(first, last) = 256 * (last \div 256) + (first % 256)
  <1> DEFINE h == last \div 256
             l == first % 256
             n == (h % 256) * 256 + l
  <1>1. h \in Int /\ -128 <= h /\ h <= 127 /\ l \in Int /\ 0 <= l /\ l <= 255
    BY Bytes
  <1>0. Raw(first, last) = Lsm!S16(n)
    BY DEF Raw
  <1> HIDE DEF h, l
  <1>2. h % 256 = IF h < 0 THEN h + 256 ELSE h
    BY <1>1, SMT
  <1>3. CASE h < 0
    <2>1. n = (h + 256) * 256 + l
      BY <1>2, <1>3
    <2>2. n \in Int /\ 32768 <= n /\ n <= 65535
      BY <1>1, <1>3, <2>1, SMT
    <2> HIDE DEF n
    <2>3. n % 65536 = n
      BY <2>2, SMT
    <2>4. Lsm!S16(n) = n - 65536
      BY <2>2, <2>3, SMT DEF Lsm!S16
    <2>5. n - 65536 = 256 * h + l
      BY <1>1, <2>1, SMT
    <2> QED BY <1>0, <2>4, <2>5 DEF h, l
  <1>4. CASE ~(h < 0)
    <2>1. n = h * 256 + l
      BY <1>2, <1>4
    <2>2. n \in Int /\ 0 <= n /\ n < 32768
      BY <1>1, <1>4, <2>1, SMT
    <2> HIDE DEF n
    <2>3. n % 65536 = n
      BY <2>2, SMT
    <2>4. Lsm!S16(n) = n
      BY <2>2, <2>3, SMT DEF Lsm!S16
    <2> QED BY <1>0, <1>1, <2>1, <2>4, SMT DEF h, l
  <1> QED BY <1>3, <1>4

\* At most the low byte is off.
LEMMA RawNear ==
  ASSUME NEW first, NEW last, Int16(first), Int16(last)
  PROVE  /\ Int16(Raw(first, last))
         /\ Raw(first, last) \div 256 = last \div 256
         /\ Lsm!iabs(Raw(first, last) - last) < 256
         /\ first = last => Raw(first, last) = last
  <1> DEFINE h == last \div 256
             l == first % 256
             r == last % 256
             n == Raw(first, last)
  <1>1. h \in Int /\ -128 <= h /\ h <= 127 /\ l \in Int /\ 0 <= l /\ l <= 255
        /\ r \in Int /\ 0 <= r /\ r <= 255 /\ last = 256 * h + r
    BY Bytes
  <1>2. n = 256 * h + l
    BY RawIs
  <1>3. first = last => l = r
    OBVIOUS
  <1> HIDE DEF h, l, r, n
  <1>4. Int16(n)
    BY <1>1, <1>2, SMT DEF Int16
  <1>5. n \div 256 = h
    BY <1>1, <1>2, SMT
  <1>6. Lsm!iabs(n - last) < 256
    BY <1>1, <1>2, SMT DEF Lsm!iabs
  <1>7. first = last => n = last
    BY <1>1, <1>2, <1>3
  <1> QED BY <1>4, <1>5, <1>6, <1>7 DEF n, h

LEMMA QuotientNear ==
  ASSUME NEW n \in Int
  PROVE  /\ Lsm!Quotient(n, 2047) \in Int
         /\ Lsm!iabs((Lsm!Quotient(n, 2047) * 2047) - n) < 2047
  <1> DEFINE q == n \div 2047
             p == (-n) \div 2047
  <1>1. q \in Int /\ 2047 * q <= n /\ n < 2047 * q + 2047
    BY SMT
  <1>2. p \in Int /\ 2047 * p <= -n /\ -n < 2047 * p + 2047
    BY SMT
  <1>3. Lsm!Quotient(n, 2047) = IF n < 0 THEN -p ELSE q
    BY DEF Lsm!Quotient
  <1> HIDE DEF p, q
  <1>4. CASE n < 0
    BY <1>2, <1>3, <1>4, SMT DEF Lsm!iabs
  <1>5. CASE ~(n < 0)
    BY <1>1, <1>3, <1>5, SMT DEF Lsm!iabs
  <1> QED BY <1>4, <1>5

LEMMA SixteenthsExact ==
  ASSUME NEW n \in Int, n % 16 = 0
  PROVE  Lsm!Quotient(n, 16) \in Int /\ Lsm!Quotient(n, 16) * 16 = n
  <1>1. n \div 16 \in Int /\ (-n) \div 16 \in Int
    BY SMT
  <1>2. (n \div 16) * 16 = n /\ ((-n) \div 16) * 16 = -n
    BY SMT
  <1> QED BY <1>1, <1>2, SMT DEF Lsm!Quotient

\* Left justified, 12 bits: at most 15 units of the high byte are off.
LEMMA ScaleNear ==
  ASSUME NEW first, NEW last, Int16(first), Int16(last), first % 16 = 0, last % 16 = 0
  PROVE  /\ Lsm!iabs((Lsm!Scale(Raw(first, last)) * 2047) - ((last \div 16) * 1962)) < 2047 + (16 * 1962)
         /\ first = last =>
              Lsm!iabs((Lsm!Scale(Raw(first, last)) * 2047) - ((last \div 16) * 1962)) < 2047 + (0 * 1962)
  <1> DEFINE n == Raw(first, last)
             k == Lsm!Quotient(n, 16)
             j == last \div 16
             v == Lsm!Quotient(k * 2 * 981, 2047)
             h == last \div 256
             l == first % 256
             r == last % 256
  <1>1. /\ h \in Int /\ l \in Int /\ 0 <= l /\ l <= 255
        /\ r \in Int /\ 0 <= r /\ r <= 255 /\ last = 256 * h + r
        /\ n = 256 * h + l
    BY Bytes, RawIs
  <1>2. last \in Int /\ first \in Int
    BY DEF Int16
  <1>3. l % 16 = 0 /\ r % 16 = 0
    BY <1>2, SMT
  <1>4. j \in Int /\ last = 16 * j
    BY <1>2, SMT
  <1>5. first = last => l = r
    OBVIOUS
  <1>6. Lsm!Scale(n) = v
    BY DEF Lsm!Scale
  <1> HIDE DEF h, l, r, n, j
  <1>7. n \in Int /\ n % 16 = 0
    BY <1>1, <1>3, SMT
  <1>8. k \in Int /\ k * 16 = n
    BY <1>7, SixteenthsExact
  <1> HIDE DEF k
  <1>9. k - j < 16 /\ j - k < 16 /\ (l = r => k = j)
    BY <1>1, <1>4, <1>8, SMT
  <1>10. k * 2 * 981 \in Int /\ k * 2 * 981 = k * 1962
    BY <1>8, SMT
  <1>11. v \in Int /\ Lsm!iabs((v * 2047) - (k * 1962)) < 2047
    BY <1>10, QuotientNear
  <1> HIDE DEF v
  <1>12. Lsm!iabs((v * 2047) - (j * 1962)) < 2047 + (16 * 1962)
    BY <1>4, <1>8, <1>9, <1>11, SMT DEF Lsm!iabs
  <1>13. first = last => Lsm!iabs((v * 2047) - (j * 1962)) < 2047 + (0 * 1962)
    BY <1>4, <1>5, <1>8, <1>9, <1>11, SMT DEF Lsm!iabs
  <1> QED BY <1>6, <1>12, <1>13 DEF n, j

MeasurementsAre == \A m \in Lsm!Measurements : Int16(m) /\ m % 16 = 0

LEMMA MeasurementsFit == MeasurementsAre
  BY SMT DEF MeasurementsAre, Lsm!Measurements, Int16

\* Between the bytes the driver holds one low byte; MAG_CTRL's block data update
\* has been accepted or refused once main has passed its statement.
ReadingsInv ==
  /\ board = "demo370" => at \in 0 .. 14 /\ (at > 5 => "0x62" \in accepted \cup failed)
  /\ low # Lsm!Unread => \E m \in Lsm!Measurements : low = {m}
  /\ Lsm!ReadingsWhole

LEMMA HighByteStep ==
  ASSUME board \in Lsm!Boards, ReadingsInv, Lsm!HighByte
  PROVE  Lsm!ReadingsWhole'
  <1>0. PICK axis \in Lsm!Axes :
          /\ Lsm!At(Lsm!main, axis)
          /\ \E first \in low, last \in IF Lsm!Blocked(axis) THEN low ELSE Lsm!Measured(axis) :
               reading' = [axis |-> axis, first |-> first, last |-> last,
                           value |-> Lsm!Value(axis, Raw(first, last))]
    BY DEF Lsm!HighByte, Raw
  <1>1. PICK first \in low, last \in IF Lsm!Blocked(axis) THEN low ELSE Lsm!Measured(axis) :
          reading' = [axis |-> axis, first |-> first, last |-> last,
                      value |-> Lsm!Value(axis, Raw(first, last))]
    BY <1>0
  <1>2. PICK m \in Lsm!Measurements : low = {m}
    BY DEF Lsm!HighByte, ReadingsInv
  <1>3. first = m
    BY <1>2
  <1>4. last \in Lsm!Measurements /\ (Lsm!Blocked(axis) => last = first)
    BY <1>2 DEF Lsm!Measured, Lsm!Measurements
  <1>5. Int16(first) /\ first % 16 = 0 /\ Int16(last) /\ last % 16 = 0
    BY <1>3, <1>4, MeasurementsFit DEF MeasurementsAre
  <1>6. /\ reading'.axis = axis /\ reading'.first = first /\ reading'.last = last
        /\ reading'.value = Lsm!Value(axis, Raw(first, last))
    BY <1>1
  <1>7. UNCHANGED failed
    BY DEF Lsm!HighByte
  <1>8. CASE Lsm!Magnetic(axis)
    <2>1. "0x62" \in failed \/ first = last
      BY <1>0, <1>4, <1>8, ReadingPlaces DEF ReadingsInv, Lsm!Blocked, Lsm!Magnetic, MagneticAxes
    <2>2. reading'.value = Raw(first, last)
      BY <1>6, <1>8 DEF Lsm!Value
    <2>3. reading'.value = last \/ ("0x62" \in failed /\ Lsm!iabs(reading'.value - last) < 256)
      BY <1>5, <2>1, <2>2, RawNear
    <2> QED BY <1>6, <1>7, <1>8, <2>3 DEF Lsm!ReadingsWhole
  <1>9. CASE ~Lsm!Magnetic(axis)
    <2>1. reading'.value = Lsm!Scale(Raw(first, last))
      BY <1>6, <1>9 DEF Lsm!Value
    <2>2. Lsm!Reads(IF first = last THEN 0 ELSE 16)'
      BY <1>5, <1>6, <2>1, ScaleNear DEF Lsm!Reads
    <2> QED BY <1>6, <1>9, <2>2 DEF Lsm!ReadingsWhole
  <1> QED BY <1>8, <1>9

LEMMA ReadingsStep ==
  ASSUME board \in Lsm!Boards, ReadingsInv, Lsm!Next
  PROVE  ReadingsInv'
  <1> USE DEF Lsm!Unread, Lsm!None
  <1>0. /\ \A s : Lsm!At(Lsm!main, s) /\ s # "0x62" /\ board = "demo370" => at # 5 /\ at \in 1 .. 14
        /\ board = "demo370" /\ Lsm!At(Lsm!main, "0x62") => at = 5
        /\ board = "demo370" /\ Lsm!Advance(Lsm!main) => at' = (IF at < 14 THEN at + 1 ELSE 9)
        /\ Lsm!Advance(Lsm!main) => UNCHANGED board
    BY ReadingPlaces DEF Lsm!At, Lsm!Advance
  <1>1. CASE Lsm!Begin
    <2>1. UNCHANGED <<board, accepted, failed, low, reading>>
      BY <1>1, <1>0 DEF Lsm!Begin, Lsm!Stop, Lsm!readingVars
    <2>2. board = "demo370" => at # 5 /\ at \in 1 .. 14
      BY <1>1, <1>0 DEF Lsm!Begin
    <2>3. at' = 0 \/ Lsm!Advance(Lsm!main)
      BY <1>1 DEF Lsm!Begin, Lsm!Stop
    <2>4. board = "demo370" => at' \in 0 .. 14 /\ (at' > 5 => at > 5)
      BY <1>0, <2>2, <2>3
    <2>5. Lsm!ReadingsWhole'
      BY <2>1 DEF ReadingsInv, Lsm!ReadingsWhole, Lsm!Reads
    <2> QED BY <2>1, <2>4, <2>5 DEF ReadingsInv
  <1>2. CASE Lsm!WriteRegister
    <2>1. PICK r \in {"0x20", "0x23", "0x60", "0x62"} :
            /\ Lsm!At(Lsm!main, r) /\ Lsm!Advance(Lsm!main)
            /\ \/ accepted' = accepted \cup {r} /\ UNCHANGED failed
               \/ failed' = failed \cup {r} /\ UNCHANGED accepted
            /\ UNCHANGED <<low, reading>>
      BY <1>2 DEF Lsm!WriteRegister
    <2>2. /\ accepted \cup failed \subseteq accepted' \cup failed' /\ failed \subseteq failed'
          /\ r \in accepted' \cup failed' /\ UNCHANGED <<board, low, reading>>
      BY <1>0, <2>1
    <2>3. board = "demo370" => at \in 1 .. 14 /\ (at = 5 => r = "0x62")
      BY <1>0, <2>1
    <2>4. board = "demo370" => at' \in 0 .. 14 /\ (at' > 5 => at > 5 \/ at = 5)
      BY <1>0, <2>1, <2>3
    <2>5. Lsm!ReadingsWhole'
      BY <2>2 DEF ReadingsInv, Lsm!ReadingsWhole, Lsm!Reads
    <2> QED BY <2>2, <2>3, <2>4, <2>5 DEF ReadingsInv
  <1>3. CASE Lsm!LowByte
    BY <1>3, ReadingPlaces DEF ReadingsInv, Lsm!LowByte, Lsm!Measured, Lsm!Measurements, Lsm!programVars,
                               Lsm!ReadingsWhole
  <1>6. ASSUME Lsm!HighByte \/ Lsm!BurstFails
        PROVE  UNCHANGED <<board, accepted, failed>> /\ low' = {}
               /\ (board = "demo370" => at' \in 0 .. 14 /\ (at' > 5 => at > 5))
    <2>1. UNCHANGED <<accepted, failed>> /\ low' = {} /\ Lsm!Advance(Lsm!main)
      BY <1>6 DEF Lsm!HighByte, Lsm!BurstFails
    <2>2. PICK axis \in Lsm!Axes : Lsm!At(Lsm!main, axis)
      BY <1>6 DEF Lsm!HighByte, Lsm!BurstFails
    <2>3. axis # "0x62"
      BY DEF Lsm!Axes
    <2> QED BY <1>0, <2>1, <2>2, <2>3
  <1>4. CASE Lsm!HighByte
    BY <1>4, <1>6, HighByteStep DEF ReadingsInv
  <1>5. CASE Lsm!BurstFails
    <2>1. Lsm!ReadingsWhole'
      BY <1>5 DEF Lsm!BurstFails, Lsm!ReadingsWhole
    <2> QED BY <1>5, <1>6, <2>1 DEF ReadingsInv
  <1> QED BY <1>1, <1>2, <1>3, <1>4, <1>5 DEF Lsm!Next

-----------------------------------------------------------------------------
(***************************************************************************)
(* All programs together: one is on the board, and stays there.            *)
(***************************************************************************)
LEMMA BoardsAre ==
  /\ Lsm!Boards = {"lowlevel370", "lowlevel310", "lowlevel260", "accel370", "demo370"}
  /\ Bmp!Boards = {"monitor310", "monitor260"}
  /\ Analog!Boards = {"analog260", "analog310", "analog370"}
  /\ Demo!Boards = {"numbers310", "numbers260"}
  /\ Gpio!Serial \subseteq Gpio!Boards
  /\ Gpio!Boards = {"memory_io370", "memory_btn370", "basic_io370", "blinky310", "blinky260", "button310",
                    "button260", "toggle310", "toggle260", "buttons370", "accelerometer310",
                    "accelerometer260", "magnetometer310", "magnetometer260", "temperature370"}
  <1>1. Lsm!Boards = {"lowlevel370", "lowlevel310", "lowlevel260", "accel370", "demo370"}
    BY DEF Lsm!Boards, Lsm!Programs
  <1>2. Bmp!Boards = {"monitor310", "monitor260"}
    BY DEF Bmp!Boards, Bmp!Programs
  <1>3. Analog!Boards = {"analog260", "analog310", "analog370"}
    BY DEF Analog!Boards, Analog!Programs
  <1>4. Demo!Boards = {"numbers310", "numbers260"}
    BY DEF Demo!Boards, Demo!Programs
  <1>5. Gpio!Boards = {"memory_io370", "memory_btn370", "basic_io370", "blinky310", "blinky260", "button310",
                       "button260", "toggle310", "toggle260", "buttons370", "accelerometer310",
                       "accelerometer260", "magnetometer310", "magnetometer260", "temperature370"}
    BY DEF Gpio!Boards, Gpio!Programs
  <1>6. Gpio!Serial \subseteq Gpio!Boards
    BY <1>5 DEF Gpio!Serial
  <1> QED BY <1>1, <1>2, <1>3, <1>4, <1>5, <1>6

LEMMA BoardStays ==
  /\ Lsm!Next => UNCHANGED board
  /\ Bmp!Next => UNCHANGED board
  /\ Analog!Next => UNCHANGED board
  /\ Demo!Next => UNCHANGED board
  /\ Gpio!Next => UNCHANGED board
  <1>1. Lsm!Next => UNCHANGED board
    BY DEF Lsm!Next, Lsm!Begin, Lsm!WriteRegister, Lsm!LowByte, Lsm!HighByte, Lsm!BurstFails, Lsm!Advance,
           Lsm!Stop, Lsm!programVars
  <1>2. Bmp!Next => UNCHANGED board
    BY DEF Bmp!Next, Bmp!Main, Bmp!Begin, Bmp!Calibrate, Bmp!Command, Bmp!Status, Bmp!ReadTemperature,
           Bmp!ReadPressure, Bmp!Show, Bmp!MeasurementEnds, Bmp!BusChanges, Bmp!Advance, Bmp!Stop,
           Bmp!Repeat, Bmp!Again, Bmp!programVars
  <1>3. Analog!Next => UNCHANGED board
    BY DEF Analog!Next, Analog!Begin, Analog!adc_readDigital, Analog!adc_readVoltage, Analog!WriteHalf,
           Analog!Write, Analog!Advance, Analog!Stop
  <1>4. Demo!Next => UNCHANGED board
    BY DEF Demo!Next, Demo!Begin, Demo!random, Demo!Count, Demo!Advance, Demo!Stop, Demo!Repeat, Demo!programVars
  <1>5. Gpio!Next => UNCHANGED board
    BY DEF Gpio!Next, Gpio!Main, Gpio!Configure, Gpio!MapRegisters, Gpio!DriveCathodeLow, Gpio!Begin,
           Gpio!Switch, Gpio!Test, Gpio!Read, Gpio!Copy, Gpio!Fetch, Gpio!Get, Gpio!PrintSample,
           Gpio!MoveButton, Gpio!button_a_pressed, Gpio!Advance, Gpio!Again, Gpio!Stop, Gpio!Repeat,
           Gpio!programVars
  <1> QED BY <1>1, <1>2, <1>3, <1>4, <1>5

\* Each group's invariant, while one of its programs is on the board.
PeripheralsInv ==
  /\ StepsInv
  /\ board \in Lsm!Boards => ReadingsInv
  /\ board \in Bmp!Boards => MonitorInv
  /\ board \in Analog!Boards => AnalogInv
  /\ RegisterInv
  /\ board \in Gpio!Serial => PrintInv

LEMMA PeripheralsStart == PeripheralsInit => PeripheralsInv
  <1> SUFFICES ASSUME PeripheralsInit PROVE PeripheralsInv
    OBVIOUS
  <1>1. StepsInv
    BY StepsInit DEF PeripheralsInit, NoSteps
  <1>2. board \in Lsm!Boards => ReadingsInv
    BY DEF PeripheralsInit, Lsm!Init, ReadingsInv, Lsm!ReadingsWhole
  <1>3. board \in Bmp!Boards => MonitorInv
    <2> SUFFICES ASSUME board \in Bmp!Boards PROVE MonitorInv
      OBVIOUS
    <2>1. /\ at = 1 /\ busy = FALSE /\ measurement = 0
          /\ asked = Bmp!Refused /\ temperature = {} /\ pressure = {}
      BY DEF PeripheralsInit, Bmp!Init
    <2>2. at \in 0 .. 58 /\ at \notin StatusAt
          /\ at \notin {32, 33, 34} \cup (38 .. 43) \cup {47, 48, 49} \cup (53 .. 58)
      BY <2>1 DEF StatusAt
    <2>3. measurement \in 0 .. 2 /\ temperature \cup pressure \subseteq {measurement, Bmp!Garbage}
      BY <2>1
    <2>4. busy \in BOOLEAN /\ ~busy
      BY <2>1
    <2> QED BY <2>1, <2>2, <2>3, <2>4 DEF MonitorInv
  <1>4. board \in Analog!Boards => AnalogInv
    <2> SUFFICES ASSUME board \in Analog!Boards PROVE AnalogInv
      OBVIOUS
    <2>1. at = 1 /\ voltage = Analog!Missed /\ written = FALSE
      BY DEF PeripheralsInit, Analog!Init
    <2>2. WriteAt \in {6, 7}
      BY DEF WriteAt
    <2>3. at \in 0 .. WriteAt
      BY <2>1, <2>2
    <2>4. written \in BOOLEAN /\ ~written
      BY <2>1
    <2> QED BY <2>1, <2>3, <2>4 DEF AnalogInv
  <1>5. board \in Gpio!Serial => PrintInv
    BY BoardsAre DEF PeripheralsInit, Gpio!Init, PrintInv
  <1>6. RegisterInv
    BY RegisterStarts DEF PeripheralsInit, NoNumbers, Demo!Init
  <1> QED BY <1>1, <1>2, <1>3, <1>4, <1>5, <1>6 DEF PeripheralsInv

\* A step of one program: what the other groups' invariants say is about boards
\* this one is not on.
LEMMA PeripheralsStep == PeripheralsInv /\ [PeripheralsNext]_allVars => PeripheralsInv'
  <1> SUFFICES ASSUME PeripheralsInv, [PeripheralsNext]_allVars PROVE PeripheralsInv'
    OBVIOUS
  <1> DEFINE Lb == board \in Lsm!Boards
             Bb == board \in Bmp!Boards
             Ab == board \in Analog!Boards
             Db == board \in Demo!Boards
             Gb == board \in Gpio!Boards
             Sb == board \in Gpio!Serial
             Kb == board = "steps"
  <1>1. /\ ~(Kb /\ (Lb \/ Bb \/ Ab \/ Db \/ Gb)) /\ ~(Lb /\ (Bb \/ Ab \/ Db \/ Gb))
        /\ ~(Bb /\ (Ab \/ Db \/ Gb)) /\ ~(Ab /\ (Db \/ Gb)) /\ ~(Db /\ Gb) /\ (Sb => Gb)
    BY BoardsAre
  <1>2. UNCHANGED board
    BY BoardStays DEF PeripheralsNext, Steps, Reads, Monitors, Converts, Draws, Switches, allVars, programVars
  <1>3. StepsInv'
    BY StepsNext DEF PeripheralsInv, PeripheralsNext, Steps, Reads, Monitors, Converts, Draws, Switches, allVars
  <1>4. RegisterInv'
    <2>1. Demo!Next \/ UNCHANGED shift_register
      BY DEF PeripheralsNext, Steps, Reads, Monitors, Converts, Draws, Switches, allVars, numbersVars
    <2>2. RegisterInv
      BY DEF PeripheralsInv
    <2> QED BY <2>1, <2>2, RegisterStep DEF RegisterInv, Demo!Positions
  <1>5. Lb' = Lb /\ Bb' = Bb /\ Ab' = Ab /\ Db' = Db /\ Gb' = Gb /\ Sb' = Sb
    BY <1>2, BoardsAre DEF Lsm!Boards, Lsm!Programs, Bmp!Boards, Bmp!Programs, Analog!Boards, Analog!Programs,
           Demo!Boards, Demo!Programs, Gpio!Boards, Gpio!Programs, Gpio!Serial
  <1> HIDE DEF Lb, Bb, Ab, Db, Gb, Sb, Kb
  <1>6. CASE Steps(Next)
    BY <1>1, <1>3, <1>4, <1>5, <1>6 DEF PeripheralsInv, Steps, Kb, Lb, Bb, Ab, Gb, Sb
  <1>7. CASE Reads(Lsm!Next)
    BY <1>1, <1>3, <1>4, <1>5, <1>7, ReadingsStep DEF PeripheralsInv, Reads, Lb, Bb, Ab, Gb, Sb
  <1>8. CASE Monitors(Bmp!Next)
    BY <1>1, <1>3, <1>4, <1>5, <1>8, MonitorStep DEF PeripheralsInv, Monitors, Lb, Bb, Ab, Gb, Sb
  <1>9. CASE Converts(Analog!Next)
    BY <1>1, <1>2, <1>3, <1>4, <1>5, <1>9, AnalogStep DEF PeripheralsInv, Converts, Lb, Bb, Ab, Gb, Sb
  <1>10. CASE Draws(Demo!Next)
    BY <1>1, <1>3, <1>4, <1>5, <1>10 DEF PeripheralsInv, Draws, Lb, Bb, Ab, Db, Gb, Sb
  <1>11. CASE Switches(Gpio!Next)
    BY <1>1, <1>3, <1>4, <1>5, <1>11, PrintStep DEF PeripheralsInv, Switches, Lb, Bb, Ab, Gb, Sb
  <1>12. CASE UNCHANGED allVars
    <2>1. UNCHANGED <<programVars, readingVars, monitorVars, analogVars, gpioVars>>
      BY <1>12 DEF allVars
    <2>2. board \in Lsm!Boards => ReadingsInv'
      BY <2>1 DEF PeripheralsInv, ReadingsInv, Lsm!ReadingsWhole, Lsm!Reads, programVars, readingVars
    <2>3. board \in Bmp!Boards => MonitorInv'
      BY <2>1 DEF PeripheralsInv, MonitorInv, programVars, monitorVars
    <2>4. board \in Analog!Boards => AnalogInv'
      BY <2>1 DEF PeripheralsInv, AnalogInv, WriteAt, Analog!Pulse, Analog!PWM_PERIOD, programVars, analogVars
    <2>5. board \in Gpio!Serial => PrintInv'
      BY <2>1 DEF PeripheralsInv, PrintInv, programVars, gpioVars
    <2> QED BY <1>3, <1>5, <1>4, <2>2, <2>3, <2>4, <2>5 DEF PeripheralsInv, Lb, Bb, Ab, Sb
  <1> QED BY <1>6, <1>7, <1>8, <1>9, <1>10, <1>11, <1>12 DEF PeripheralsNext

LEMMA PeripheralsAlways == PeripheralsSpec => []PeripheralsInv
  BY PeripheralsStart, PeripheralsStep, PTL DEF PeripheralsSpec

\* The step counter answers for the pin, the callback and the registers it set
\* up (StepSensor), on any board.
THEOREM StepsAnswered == PeripheralsSpec => []AnswersHold
  <1>1. PeripheralsInv => AnswersHold
    BY StepsAnswer DEF PeripheralsInv
  <1> QED BY <1>1, PeripheralsAlways, PTL

\* The counter never runs ahead of the sensor (StepSensor).
THEOREM StepsReal == PeripheralsSpec => []NoPhantomSteps
  <1>1. PeripheralsInv => NoPhantomSteps
    BY DEF PeripheralsInv, StepsInv
  <1> QED BY <1>1, PeripheralsAlways, PTL

\* What lsm303_ll_readAccel and its kin return is of one measurement and in
\* scale, or as far off as a torn reading can be (Readings).
THEOREM ReadingsCorrect == PeripheralsSpec => []ReadingsWhole
  <1>1. PeripheralsInv => ReadingsWhole
    BY DEF PeripheralsInv, ReadingsInv, ReadingsWhole
  <1> QED BY <1>1, PeripheralsAlways, PTL

\* The pressure monitor shows the measurement it asked for, and the serial
\* programs print a sample they have just fetched.
THEOREM ShowsCorrect == PeripheralsSpec => []ShowsWhatItRead
  <1>1. PeripheralsInv => ShowsWhatItRead
    <2>1. PeripheralsInv /\ board \in Bmp!Boards => Bmp!OneMeasurement
      BY MonitorShows DEF PeripheralsInv
    <2>2. PeripheralsInv => Gpio!PrintsFresh
      <3>1. CASE board \in Gpio!Serial
        BY <3>1, PrintShows DEF PeripheralsInv
      <3>2. CASE board \notin Gpio!Serial
        BY <3>2 DEF Gpio!PrintsFresh
      <3> QED BY <3>1, <3>2
    <2> QED BY <2>1, <2>2 DEF ShowsWhatItRead
  <1> QED BY <1>1, PeripheralsAlways, PTL

\* The duty is in proportion to the voltage of the same turn, for every value
\* the converter can return (AnalogLoop).
THEOREM PulseCorrect == PeripheralsSpec => []PulseInProportion
  <1>1. PeripheralsInv => PulseInProportion
    BY AnalogProportional DEF PeripheralsInv, PulseInProportion
  <1> QED BY <1>1, PeripheralsAlways, PTL

(***************************************************************************)
(* Lines 4 and 34 of analog_io/src/main.c hold but for noise: the duty is  *)
(* out of proportion only when the converter has measured a voltage below  *)
(* zero (AnalogLoop).                                                      *)
(***************************************************************************)
THEOREM OutOfProportionBelowZeroOnly ==
  PeripheralsSpec /\ [](voltage \in Nat) => []InProportion
  <1>1. PeripheralsInv /\ voltage \in Nat => InProportion
    <2> SUFFICES ASSUME PeripheralsInv, voltage \in Nat, board \in Analog!Boards,
                        written, voltage # Analog!Missed
                 PROVE  Analog!Proportional(IF voltage < 0 THEN 0 ELSE voltage)
      BY DEF InProportion, Analog!InProportion
    <2>1. voltage \in 0 .. 4095
      BY PeripheralsAssumption DEF PeripheralsInv, AnalogInv
    <2>2. Analog!Proportional(voltage)
      BY <2>1, AnalogProportional DEF PeripheralsInv, Analog!PulseInProportion
    <2> QED BY <2>1, <2>2
  <1> QED BY <1>1, PeripheralsAlways, PTL

(***************************************************************************)
(* The numbers of the display demo never end in the register full of ones  *)
(* that prbs does not leave (Numbers), for every width of the register     *)
(* with the seed and the taps of the code.                                 *)
(***************************************************************************)
THEOREM NeverLocksUp ==
  PeripheralsSpec => [](board \in Demo!Boards => shift_register # Demo!Positions)
  <1>1. PeripheralsInv => (board \in Demo!Boards => shift_register # Demo!Positions)
    BY DEF PeripheralsInv, RegisterInv
  <1> QED BY <1>1, PeripheralsAlways, PTL
=============================================================================
