-------------------------- MODULE MicrobitDemoProofs --------------------------
(***************************************************************************)
(* The combined demo, for any bounds on the changes of its three values    *)
(* and any number of transmit buffers: its attribute tables agree with     *)
(* each other, its flags with the host's CCC values, its buttons are not   *)
(* forgotten, and it implements Telling on every channel.                  *)
(***************************************************************************)
EXTENDS MicrobitDemo, BtLinkProofs

(***************************************************************************)
(* The invariant.                                                          *)
(***************************************************************************)
Early == {At("lsm"), At("buttons"), At("matrix"), At("enable"), At("ready")}

StartedInOrder == pc \in Early => link = "off"

FlagsAreCcc == subscribed = ccc

NoCccUnlinked == link \in {"off", "advertising"} => \A c \in Chan : ~ccc[c]

NotedOrdered == noted \in [Chan -> Nat] /\ \A c \in Chan : noted[c] <= gen[c]

\* What is assigned after the notification has been told.
InTime(c) == pc = <<"assign", c>> /\ Reaches(c) => gen[c] <= Informed(c)

\* For button A it always is, as its level is main's own.
AssignedInTime == InTime("a")

DemoInv ==
  /\ LinkInv
  /\ StartedInOrder
  /\ FlagsAreCcc
  /\ NoCccUnlinked
  /\ NotedOrdered
  /\ AssignedInTime
  /\ ButtonsNothingSkipped

-----------------------------------------------------------------------------
(***************************************************************************)
(* The attribute tables.                                                   *)
(***************************************************************************)
\* An entry's parts.
Is(e, k, v, n) == e.kind = k /\ e.of = v /\ e.id = n

LEMMA DomainIs ==
  ASSUME NEW S, NEW s \in Seq(S)
  PROVE  DOMAIN s = 1 .. Len(s)
  OBVIOUS

Names == {"-", "x_accel", "y_accel", "z_accel", "step", "x_mag", "y_mag", "z_mag", "a", "b", "led"}

Entry == [kind : {"service", "declaration", "value", "ccc"}, of : Names, id : Nat]

LEMMA ShortSequences ==
  ASSUME NEW S, NEW d \in S, NEW e \in S
  PROVE  <<d>> \in Seq(S) /\ <<d, e>> \in Seq(S)
  OBVIOUS

LEMMA PieceTypes ==
  /\ Service \in Seq(Entry)
  /\ \A id \in Nat, variable \in Names : Characteristic(id, variable) \in Seq(Entry)
  /\ \A flag \in Names : Ccc(flag) \in Seq(Entry)
  <1>1. Service \in Seq(Entry)
    <2>1. [kind |-> "service", of |-> "-", id |-> 0] \in Entry
      BY DEF Entry, Names
    <2> QED BY <2>1, ShortSequences DEF Service
  <1>2. ASSUME NEW id \in Nat, NEW variable \in Names
        PROVE  Characteristic(id, variable) \in Seq(Entry)
    <2>1. /\ [kind |-> "declaration", of |-> variable, id |-> id] \in Entry
          /\ [kind |-> "value", of |-> variable, id |-> id] \in Entry
      BY DEF Entry, Names
    <2> QED BY <2>1, ShortSequences DEF Characteristic
  <1>3. ASSUME NEW flag \in Names
        PROVE  Ccc(flag) \in Seq(Entry)
    <2>1. [kind |-> "ccc", of |-> flag, id |-> 0] \in Entry
      BY DEF Entry, Names
    <2> QED BY <2>1, ShortSequences DEF Ccc
  <1> QED BY <1>1, <1>2, <1>3

LEMMA ConcatType ==
  ASSUME NEW S, NEW s \in Seq(S), NEW t \in Seq(S)
  PROVE  s \o t \in Seq(S)
  OBVIOUS

LEMMA AccelService ==
  LET svc == my_accel_service_svc
  IN  /\ DOMAIN svc = 1 .. 10
      /\ \A i \in 1 .. 7 : svc[i].of \notin Notifiable /\ svc[i].kind # "ccc" /\ svc[i].id # 4
      /\ Is(svc[8], "declaration", "step", 4)
      /\ Is(svc[9], "value", "step", 4)
      /\ Is(svc[10], "ccc", "step", 0)
  <1> DEFINE svc == my_accel_service_svc
  <1>1. 10 <= Len(svc) /\ Len(svc) <= 10
    BY DEF my_accel_service_svc, Service, x_accel, y_accel, z_accel, stepcount,
              step_subscribe_changed, Characteristic, Ccc
  <1>2. svc \in Seq(Entry)
    <2>1. /\ x_accel \in Seq(Entry) /\ y_accel \in Seq(Entry) /\ z_accel \in Seq(Entry)
          /\ stepcount \in Seq(Entry) /\ step_subscribe_changed \in Seq(Entry)
      BY PieceTypes DEF Names, x_accel, y_accel, z_accel, stepcount, step_subscribe_changed
    <2> QED BY <2>1, PieceTypes, ConcatType DEF my_accel_service_svc
  <1>3. /\ svc[1] = [kind |-> "service", of |-> "-", id |-> 0]
        /\ svc[2] = [kind |-> "declaration", of |-> "x_accel", id |-> 1]
        /\ svc[3] = [kind |-> "value", of |-> "x_accel", id |-> 1]
        /\ svc[4] = [kind |-> "declaration", of |-> "y_accel", id |-> 2]
        /\ svc[5] = [kind |-> "value", of |-> "y_accel", id |-> 2]
        /\ svc[6] = [kind |-> "declaration", of |-> "z_accel", id |-> 3]
        /\ svc[7] = [kind |-> "value", of |-> "z_accel", id |-> 3]
        /\ svc[8] = [kind |-> "declaration", of |-> "step", id |-> 4]
        /\ svc[9] = [kind |-> "value", of |-> "step", id |-> 4]
        /\ svc[10] = [kind |-> "ccc", of |-> "step", id |-> 0]
    BY DEF my_accel_service_svc, Service, x_accel, y_accel, z_accel, stepcount,
              step_subscribe_changed, Characteristic, Ccc
  <1> HIDE DEF svc
  <1>5. DOMAIN svc = 1 .. 10
    <2>1. Len(svc) \in Nat
      BY <1>2
    <2>2. \A n \in Nat : 10 <= n /\ n <= 10 => n = 10
      OBVIOUS
    <2>3. Len(svc) = 10
      BY ONLY <1>1, <2>1, <2>2, Zenon
    <2> QED BY <1>2, <2>3, DomainIs
  <1>6. \A i \in 1 .. 7 : svc[i].of \notin Notifiable /\ svc[i].kind # "ccc" /\ svc[i].id # 4
    BY <1>3 DEF Notifiable
  <1>7. Is(svc[8], "declaration", "step", 4) /\ Is(svc[9], "value", "step", 4)
        /\ Is(svc[10], "ccc", "step", 0)
    BY <1>3 DEF Is
  <1> QED BY <1>5, <1>6, <1>7 DEF svc

LEMMA ButtonService ==
  LET svc == my_button_service_svc
  IN  /\ DOMAIN svc = 1 .. 7
      /\ Is(svc[1], "service", "-", 0)
      /\ Is(svc[2], "declaration", "a", 8193)
      /\ Is(svc[3], "value", "a", 8193)
      /\ Is(svc[4], "ccc", "a", 0)
      /\ Is(svc[5], "declaration", "b", 8194)
      /\ Is(svc[6], "value", "b", 8194)
      /\ Is(svc[7], "ccc", "b", 0)
  <1> DEFINE svc == my_button_service_svc
  <1>1. 7 <= Len(svc) /\ Len(svc) <= 7
    BY DEF my_button_service_svc, Service, button_a, button_b, button_a_subscribe_changed,
           button_b_subscribe_changed, Characteristic, Ccc
  <1>2. svc \in Seq(Entry)
    <2>0. "a" \in Names /\ "b" \in Names
      BY DEF Names
    <2>1. button_a \in Seq(Entry)
      BY <2>0, PieceTypes DEF button_a
    <2>2. button_b \in Seq(Entry)
      BY <2>0, PieceTypes DEF button_b
    <2>3. button_a_subscribe_changed \in Seq(Entry)
      BY <2>0, PieceTypes DEF button_a_subscribe_changed
    <2>4. button_b_subscribe_changed \in Seq(Entry)
      BY <2>0, PieceTypes DEF button_b_subscribe_changed
    <2> QED BY <2>1, <2>2, <2>3, <2>4, PieceTypes, ConcatType DEF my_button_service_svc
  <1>3. /\ svc[1] = [kind |-> "service", of |-> "-", id |-> 0]
        /\ svc[2] = [kind |-> "declaration", of |-> "a", id |-> 8193]
        /\ svc[3] = [kind |-> "value", of |-> "a", id |-> 8193]
        /\ svc[4] = [kind |-> "ccc", of |-> "a", id |-> 0]
        /\ svc[5] = [kind |-> "declaration", of |-> "b", id |-> 8194]
        /\ svc[6] = [kind |-> "value", of |-> "b", id |-> 8194]
        /\ svc[7] = [kind |-> "ccc", of |-> "b", id |-> 0]
    BY DEF my_button_service_svc, Service, button_a, button_b, button_a_subscribe_changed,
           button_b_subscribe_changed, Characteristic, Ccc
  <1> HIDE DEF svc
  <1>4. DOMAIN svc = 1 .. 7
    <2>1. Len(svc) \in Nat
      BY <1>2
    <2>2. \A n \in Nat : 7 <= n /\ n <= 7 => n = 7
      OBVIOUS
    <2>3. Len(svc) = 7
      BY ONLY <1>1, <2>1, <2>2, Zenon
    <2> QED BY <1>2, <2>3, DomainIs
  <1> QED BY <1>3, <1>4 DEF svc, Is

\* The other two services hold nothing that is notified.
LEMMA OtherServices ==
  /\ \A i \in DOMAIN my_mag_service_svc : my_mag_service_svc[i].of \notin Notifiable
  /\ \A i \in DOMAIN my_led_service_svc : my_led_service_svc[i].of \notin Notifiable
  <1> DEFINE mag == my_mag_service_svc
             ledSvc == my_led_service_svc
  <1>1. /\ 7 <= Len(mag) /\ Len(mag) <= 7
        /\ mag[1].of = "-" /\ mag[2].of = "x_mag" /\ mag[3].of = "x_mag"
        /\ mag[4].of = "y_mag" /\ mag[5].of = "y_mag"
        /\ mag[6].of = "z_mag" /\ mag[7].of = "z_mag"
    BY DEF my_mag_service_svc, Service, x_mag, y_mag, z_mag, Characteristic
  <1>2. /\ 3 <= Len(ledSvc) /\ Len(ledSvc) <= 3
        /\ ledSvc[1].of = "-" /\ ledSvc[2].of = "led" /\ ledSvc[3].of = "led"
    BY DEF my_led_service_svc, Service, led, Characteristic
  <1>3. mag \in Seq(Entry) /\ ledSvc \in Seq(Entry)
    <2>0. "x_mag" \in Names /\ "y_mag" \in Names /\ "z_mag" \in Names /\ "led" \in Names
      BY DEF Names
    <2>1. x_mag \in Seq(Entry)
      BY <2>0, PieceTypes DEF x_mag
    <2>2. y_mag \in Seq(Entry)
      BY <2>0, PieceTypes DEF y_mag
    <2>3. z_mag \in Seq(Entry)
      BY <2>0, PieceTypes DEF z_mag
    <2>4. led \in Seq(Entry)
      BY <2>0, PieceTypes DEF led
    <2> QED BY <2>1, <2>2, <2>3, <2>4, PieceTypes, ConcatType DEF my_mag_service_svc, my_led_service_svc
  <1> HIDE DEF mag, ledSvc
  <1>4. DOMAIN mag = 1 .. Len(mag) /\ DOMAIN ledSvc = 1 .. Len(ledSvc)
    BY <1>3, DomainIs
  <1>5. DOMAIN mag = 1 .. 7 /\ DOMAIN ledSvc = 1 .. 3
    BY <1>1, <1>2, <1>3, <1>4
  <1>6. \A i \in DOMAIN mag : mag[i].of \notin Notifiable
    BY <1>1, <1>5 DEF Notifiable
  <1>7. \A i \in DOMAIN ledSvc : ledSvc[i].of \notin Notifiable
    BY <1>2, <1>5 DEF Notifiable
  <1> QED BY <1>6, <1>7 DEF mag, ledSvc

\* Main notifies the entry of the value itself, or its declaration.
LEMMA TargetIs == \A c \in Notifiable : Target[c] = c
  <1>1. Target["step"] = "step"
    <2>1. NotifyIndex("step") = <<my_accel_service_svc, 8>>
      BY DEF NotifyIndex
    <2>2. Target["step"] = Notified(my_accel_service_svc, 8)
      BY <2>1 DEF Target, Notifiable
    <2> QED BY <2>2, AccelService DEF Notified, Is
  <1>2. Target["a"] = "a"
    <2>1. NotifyIndex("a") = <<my_button_service_svc, 2>>
      BY DEF NotifyIndex
    <2>2. Target["a"] = Notified(my_button_service_svc, 2)
      BY <2>1 DEF Target, Notifiable
    <2> QED BY <2>2, ButtonService DEF Notified, Is
  <1>3. Target["b"] = "b"
    <2>1. NotifyIndex("b") = <<my_button_service_svc, 4>>
      BY DEF NotifyIndex
    <2>2. Target["b"] = Notified(my_button_service_svc, 4)
      BY <2>1 DEF Target, Notifiable
    <2> QED BY <2>2, ButtonService DEF Notified, Is
  <1> QED BY <1>1, <1>2, <1>3 DEF Notifiable

\* One service holds each notified variable.
LEMMA ServiceIs ==
  /\ ServiceOf("step") = my_accel_service_svc
  /\ ServiceOf("a") = my_button_service_svc
  /\ ServiceOf("b") = my_button_service_svc
  <1> DEFINE Holds(svc, c) == \E i \in DOMAIN svc : svc[i].of = c
  <1>1. /\ Holds(my_accel_service_svc, "step")
        /\ ~Holds(my_accel_service_svc, "a") /\ ~Holds(my_accel_service_svc, "b")
    BY AccelService DEF Is, Notifiable
  <1>2. /\ ~Holds(my_button_service_svc, "step")
        /\ Holds(my_button_service_svc, "a") /\ Holds(my_button_service_svc, "b")
    BY ButtonService DEF Is
  <1>3. \A c \in Notifiable : ~Holds(my_mag_service_svc, c) /\ ~Holds(my_led_service_svc, c)
    BY OtherServices
  <1>4. \A c : ServiceOf(c) = CHOOSE svc \in Services : Holds(svc, c)
    BY DEF ServiceOf
  <1> HIDE DEF Holds
  <1>5. \A svc \in Services : Holds(svc, "step") => svc = my_accel_service_svc
    BY <1>2, <1>3 DEF Services, Notifiable
  <1>6. \A svc \in Services, c \in {"a", "b"} : Holds(svc, c) => svc = my_button_service_svc
    BY <1>1, <1>3 DEF Services, Notifiable
  <1>7. my_accel_service_svc \in Services /\ my_button_service_svc \in Services
    BY DEF Services
  <1> QED BY <1>1, <1>2, <1>4, <1>5, <1>6, <1>7

\* The flag of the first CCC entry after the only value of a variable.
LEMMA CccOfIs ==
  ASSUME NEW svc, NEW variable, DOMAIN svc \subseteq Nat, NEW v \in DOMAIN svc, NEW w \in DOMAIN svc,
         \A i \in DOMAIN svc : svc[i].kind = "value" /\ svc[i].of = variable <=> i = v,
         w > v, svc[w].kind = "ccc",
         \A j \in DOMAIN svc : j > v /\ svc[j].kind = "ccc" => w <= j
  PROVE  CccOf(svc, variable) = svc[w].of
  <1> DEFINE later == {j \in DOMAIN svc : j > v /\ svc[j].kind = "ccc"}
  <1>1. v = CHOOSE i \in DOMAIN svc : svc[i].kind = "value" /\ svc[i].of = variable
    OBVIOUS
  <1>2. CccOf(svc, variable) = svc[CHOOSE j \in later : \A k \in later : j <= k].of
    BY <1>1 DEF CccOf
  <1>3. w \in later /\ \A k \in later : w <= k
    OBVIOUS
  <1>4. \A j \in later : (\A k \in later : j <= k) => j = w
    BY <1>3
  <1> HIDE DEF later
  <1>5. w = CHOOSE j \in later : \A k \in later : j <= k
    BY <1>3, <1>4
  <1> QED BY <1>2, <1>5

\* A subscription to a characteristic sets the flag of the same name.
LEMMA FlagIs == \A c \in Notifiable : Flag[c] = c
  <1>1. CccOf(my_accel_service_svc, "step") = "step"
    <2> DEFINE svc == my_accel_service_svc
    <2>1. /\ DOMAIN svc = 1 .. 10
          /\ \A i \in 1 .. 7 : svc[i].of # "step" /\ svc[i].kind # "ccc"
          /\ svc[8].kind = "declaration" /\ svc[9].kind = "value" /\ svc[9].of = "step"
          /\ svc[10].kind = "ccc" /\ svc[10].of = "step"
      BY AccelService DEF Is, Notifiable
    <2> HIDE DEF svc
    <2>2. \A i \in DOMAIN svc : svc[i].kind = "value" /\ svc[i].of = "step" <=> i = 9
      BY <2>1
    <2>3. \A j \in DOMAIN svc : j > 9 /\ svc[j].kind = "ccc" => 10 <= j
      BY <2>1
    <2>4. CccOf(svc, "step") = svc[10].of
      BY <2>1, <2>2, <2>3, CccOfIs
    <2> QED BY <2>1, <2>4 DEF svc
  <1>2. CccOf(my_button_service_svc, "a") = "a" /\ CccOf(my_button_service_svc, "b") = "b"
    <2> DEFINE svc == my_button_service_svc
    <2>1. /\ DOMAIN svc = 1 .. 7
          /\ svc[1].kind = "service" /\ svc[2].kind = "declaration"
          /\ svc[3].kind = "value" /\ svc[3].of = "a" /\ svc[4].kind = "ccc" /\ svc[4].of = "a"
          /\ svc[5].kind = "declaration"
          /\ svc[6].kind = "value" /\ svc[6].of = "b" /\ svc[7].kind = "ccc" /\ svc[7].of = "b"
      BY ButtonService DEF Is
    <2> HIDE DEF svc
    <2>2. \A i \in DOMAIN svc : svc[i].kind = "value" /\ svc[i].of = "a" <=> i = 3
      BY <2>1
    <2>3. \A i \in DOMAIN svc : svc[i].kind = "value" /\ svc[i].of = "b" <=> i = 6
      BY <2>1
    <2>4. \A j \in DOMAIN svc : j > 3 /\ svc[j].kind = "ccc" => 4 <= j
      BY <2>1
    <2>5. \A j \in DOMAIN svc : j > 6 /\ svc[j].kind = "ccc" => 7 <= j
      BY <2>1
    <2>6. CccOf(svc, "a") = svc[4].of
      BY <2>1, <2>2, <2>4, CccOfIs
    <2>7. CccOf(svc, "b") = svc[7].of
      BY <2>1, <2>3, <2>5, CccOfIs
    <2> QED BY <2>1, <2>6, <2>7 DEF svc
  <1> QED BY <1>1, <1>2, ServiceIs DEF Flag, Notifiable

\* A central that looks for a characteristic reads the variable of the same name.
LEMMA FoundIs == \A c \in Notifiable : Found[c] = c
  <1> DEFINE Wanted(c) == CASE c = "step" -> stepcount [] c = "a" -> button_a [] c = "b" -> button_b
             Values(svc, n) == {i \in DOMAIN svc : svc[i].kind = "value" /\ svc[i].id = n}
             First(S) == CHOOSE i \in S : \A k \in S : i <= k
  <1>1. \A c \in Notifiable :
          Found[c] = ServiceOf(c)[First(Values(ServiceOf(c), Wanted(c)[2].id))].of
    BY DEF Found
  <1>2. Wanted("step")[2].id = 4 /\ Wanted("a")[2].id = 8193 /\ Wanted("b")[2].id = 8194
    <2>1. Wanted("step") = stepcount /\ Wanted("a") = button_a /\ Wanted("b") = button_b
      OBVIOUS
    <2> HIDE DEF Wanted
    <2> QED BY <2>1 DEF stepcount, button_a, button_b, Characteristic
  <1> HIDE DEF Wanted
  <1>3. \A n \in Nat : First({n}) = n
    OBVIOUS
  <1>4. Values(my_accel_service_svc, 4) = {9}
    <2> DEFINE svc == my_accel_service_svc
    <2>1. /\ DOMAIN svc = 1 .. 10
          /\ \A i \in 1 .. 7 : svc[i].id # 4
          /\ svc[8].kind = "declaration" /\ svc[9].kind = "value" /\ svc[9].id = 4
          /\ svc[10].kind = "ccc"
      BY AccelService DEF Is
    <2> HIDE DEF svc
    <2>2. Values(svc, 4) = {9}
      BY <2>1
    <2> QED BY <2>2 DEF svc
  <1>5. Values(my_button_service_svc, 8193) = {3} /\ Values(my_button_service_svc, 8194) = {6}
    <2> DEFINE svc == my_button_service_svc
    <2>1. /\ DOMAIN svc = 1 .. 7
          /\ svc[1].kind = "service" /\ svc[2].kind = "declaration"
          /\ svc[3].kind = "value" /\ svc[3].id = 8193 /\ svc[4].kind = "ccc"
          /\ svc[5].kind = "declaration"
          /\ svc[6].kind = "value" /\ svc[6].id = 8194 /\ svc[7].kind = "ccc"
      BY ButtonService, SMT DEF Is
    <2> HIDE DEF svc
    <2>2. Values(svc, 8193) = {3}
      BY <2>1, SMT
    <2>3. Values(svc, 8194) = {6}
      BY <2>1, SMT
    <2> QED BY <2>2, <2>3 DEF svc
  <1> HIDE DEF Values, First
  <1>6. Found["step"] = my_accel_service_svc[9].of
    BY <1>1, <1>2, <1>3, <1>4, ServiceIs DEF Notifiable
  <1>7. Found["a"] = my_button_service_svc[3].of
    BY <1>1, <1>2, <1>3, <1>5, ServiceIs DEF Notifiable
  <1>8. Found["b"] = my_button_service_svc[6].of
    BY <1>1, <1>2, <1>3, <1>5, ServiceIs DEF Notifiable
  <1> QED BY <1>6, <1>7, <1>8, AccelService, ButtonService DEF Notifiable, Is

-----------------------------------------------------------------------------
(***************************************************************************)
(* The actions, in terms of the link's.                                    *)
(***************************************************************************)
LEMMA Tables ==
  ASSUME NEW c \in Chan
  PROVE  Target[c] = c /\ Flag[c] = c /\ Found[c] = c
  BY TargetIs, FlagIs, FoundIs, DemoAssumption DEF Notifiable

LEMMA ModRange ==
  ASSUME NEW n \in Nat
  PROVE  n % Modulus \in Nat
  BY DemoAssumption

\* The statements of main that leave the link's variables to LinkQuiet.
QuietStatement ==
  \/ Begin \/ BtEnable \/ bt_ready \/ Register \/ CountSteps \/ Wake \/ TestActive
  \/ \E c \in Chan : Compare(c) \/ Assign(c)

LEMMA QuietStatements ==
  ASSUME LinkInv, QuietStatement
  PROVE  /\ LinkInv' /\ UNCHANGED <<val, air, gen, told, since, seen, ccc, subscribed, active_conn>>
         /\ link' = link \/ pc = At("ready")
  <1>1. StartAdvertising \/ RegisterCallbacks \/ UNCHANGED linkVars
    BY DEF QuietStatement, Begin, BtEnable, bt_ready, Register, CountSteps, Wake, TestActive, Compare, Assign
  <1>2. UNCHANGED <<ccc, subscribed, active_conn>>
    BY <1>1 DEF StartAdvertising, RegisterCallbacks, linkVars, appVars,
       QuietStatement, Begin, BtEnable, bt_ready, Register, CountSteps, Wake, TestActive, Compare, Assign
  <1>3. link' = link \/ pc = At("ready")
    BY DEF RegisterCallbacks, linkVars, Goto,
       QuietStatement, Begin, BtEnable, bt_ready, Register, CountSteps, Wake, TestActive, Compare, Assign
  <1> QED BY <1>1, <1>2, <1>3, LinkQuiet

\* What the three writers of a value do: main's sampling, and the interrupt.
LEMMA Samples ==
  ASSUME LinkInv, NEW c \in Chan, NEW from, NEW to, Sample(c, from, to)
  PROVE  /\ LinkInv' /\ Goto(At(from), At(to)) /\ LeaveOld
         /\ \E v \in Nat : Store(c, v)
         /\ UNCHANGED <<link, registered, ccc, air, told, since, seen, subscribed, active_conn>>
  <1>1. PICK v \in Nat : Store(c, v)
    BY DEF Sample, Range01
  <1>2. /\ UNCHANGED <<link, registered, ccc, air, told, since, seen, subscribed, active_conn>>
        /\ Goto(At(from), At(to)) /\ LeaveOld
    BY DEF Sample, appVars
  <1> QED BY <1>1, <1>2, StoreKeeps

LEMMA Steps ==
  ASSUME LinkInv, stepcount_handler
  PROVE  /\ LinkInv' /\ UNCHANGED <<pc, old, noted>>
         /\ \E v \in Nat : Store("step", v)
         /\ UNCHANGED <<link, registered, ccc, air, told, since, seen, subscribed, active_conn>>
  <1>1. "step" \in Chan /\ val["step"] \in Nat
    BY DemoAssumption DEF LinkInv, LinkTypeOK
  <1>2. (val["step"] + 1) % Modulus \in Nat
    BY <1>1, ModRange
  <1>3. PICK v \in Nat : Store("step", v)
    BY <1>2 DEF stepcount_handler
  <1>4. /\ UNCHANGED <<link, registered, ccc, air, told, since, seen, subscribed, active_conn>>
        /\ UNCHANGED <<pc, old, noted>>
    BY DEF stepcount_handler, mainVars, appVars
  <1> QED BY <1>1, <1>3, <1>4, StoreKeeps

LEMMA Notifications ==
  ASSUME LinkInv, NEW c \in Chan, NotifyChan(c)
  PROVE  /\ LinkInv' /\ LeaveOld
         /\ Goto(<<"notify", c>>, IF NotifiesFirst(c) THEN <<"assign", c>> ELSE After(c))
         /\ told' = IF Reaches(c) THEN [told EXCEPT ![c] = gen[c]] ELSE told
         /\ UNCHANGED <<link, registered, ccc, val, gen, since, seen, subscribed, active_conn>>
  <1>1. /\ UNCHANGED <<link, registered, ccc, val, gen, since, seen, subscribed, active_conn>>
        /\ Goto(<<"notify", c>>, IF NotifiesFirst(c) THEN <<"assign", c>> ELSE After(c))
        /\ LeaveOld
        /\ \/ Reaches(c) /\ Send(c, FALSE, gen[c])
           \/ ~Reaches(c) /\ UNCHANGED <<air, told>>
    BY Tables DEF NotifyChan, appVars
  <1>2. CASE Reaches(c)
    BY <1>1, <1>2, NewestKeeps
  <1>3. CASE ~Reaches(c)
    <2>1. UNCHANGED linkVars
      BY <1>1, <1>3 DEF linkVars
    <2> QED BY <1>1, <1>3, <2>1, LinkQuiet
  <1> QED BY <1>2, <1>3

LEMMA Reads ==
  ASSUME LinkInv, NEW c \in Chan, read(c)
  PROVE  /\ LinkInv' /\ told' = [told EXCEPT ![c] = gen[c]]
         /\ UNCHANGED <<link, registered, ccc, val, gen, since, seen, subscribed, active_conn, pc, old, noted>>
  <1>1. /\ UNCHANGED <<link, registered, ccc, val, gen, since, seen, subscribed, active_conn, pc, old, noted>>
        /\ Send(c, TRUE, gen[c])
    BY Tables DEF read, ReadValue, mainVars, appVars
  <1> QED BY <1>1, NewestKeeps

LEMMA Subscriptions ==
  ASSUME LinkInv, NEW c \in Chan, NEW on \in BOOLEAN, subscribe_changed(c, on)
  PROVE  /\ LinkInv' /\ told' = told
         /\ ccc' = [ccc EXCEPT ![c] = on]
         /\ subscribed' = [subscribed EXCEPT ![c] = on]
         /\ since' \in [Chan -> Nat]
         /\ since' = IF on /\ ~ccc[c] THEN [since EXCEPT ![c] = gen[c]] ELSE since
         /\ link = "connected"
         /\ UNCHANGED <<link, registered, val, gen, seen, active_conn, pc, old, noted>>
  <1>1. /\ SetCcc(c, on) /\ subscribed' = [subscribed EXCEPT ![c] = on]
        /\ UNCHANGED <<active_conn, pc, old, noted>>
    BY Tables DEF subscribe_changed, mainVars
  <1> QED BY <1>1, CccKeeps

LEMMA Writes ==
  ASSUME LinkInv, NEW v \in WriteVals, NEW s \in BOOLEAN, write_stepcount(v, s)
  PROVE  /\ LinkInv' /\ Store("step", v) /\ v \in Nat
         /\ \A d \in Chan : told[d] <= told'[d]
         /\ UNCHANGED <<link, registered, ccc, since, seen, subscribed, active_conn, pc, old, noted>>
  <1>1. "step" \in Chan /\ v \in Nat
    BY DemoAssumption
  <1>2. WriteValue("step", v, s) /\ UNCHANGED <<subscribed, active_conn, pc, old, noted>>
    BY DEF write_stepcount, mainVars, appVars
  <1> QED BY <1>1, <1>2, WriteKeeps


-----------------------------------------------------------------------------
(***************************************************************************)
(* The invariant is inductive.                                             *)
(***************************************************************************)
\* Every step is one of these.
LEMMA Cases ==
  ASSUME [Next]_vars
  PROVE  \/ QuietStatement
         \/ Sample("a", "sample_a", "sample_b")
         \/ Sample("b", "sample_b", "active")
         \/ \E c \in Chan : NotifyChan(c)
         \/ stepcount_handler
         \/ connected \/ Drop \/ disconnected
         \/ \E c \in Chan : read(c)
         \/ \E c \in Chan, on \in BOOLEAN : subscribe_changed(c, on)
         \/ \E v \in WriteVals, s \in BOOLEAN : write_stepcount(v, s)
         \/ CentralReceives
         \/ UNCHANGED vars
  BY DEF Next, Main, Host, QuietStatement

LEMMA LinkStep == LinkInv /\ [Next]_vars => LinkInv'
  <1> SUFFICES ASSUME LinkInv, [Next]_vars PROVE LinkInv'
    OBVIOUS
  <1>1. "a" \in Chan /\ "b" \in Chan
    BY DemoAssumption
  <1>2. CASE \/ QuietStatement
             \/ Sample("a", "sample_a", "sample_b")
             \/ Sample("b", "sample_b", "active")
             \/ \E c \in Chan : NotifyChan(c)
             \/ stepcount_handler
    BY <1>1, <1>2, QuietStatements, Samples, Notifications, Steps
  <1>3. CASE connected \/ disconnected \/ UNCHANGED vars
    <2>1. LinkUp \/ LinkCleanup \/ UNCHANGED linkVars
      BY <1>3 DEF connected, disconnected, vars
    <2> QED BY <2>1, LinkQuiet
  <1>4. CASE Drop \/ CentralReceives
    BY <1>4, DropKeeps, ReceiveKeeps DEF Drop, CentralReceives
  <1>5. CASE \/ \E c \in Chan : read(c)
             \/ \E c \in Chan, on \in BOOLEAN : subscribe_changed(c, on)
             \/ \E v \in WriteVals, s \in BOOLEAN : write_stepcount(v, s)
    BY <1>5, Reads, Subscriptions, Writes
  <1> QED BY <1>2, <1>3, <1>4, <1>5, Cases

\* The first statements of main run one after the other.
LEMMA EarlyStep ==
  ASSUME QuietStatement
  PROVE  /\ pc' \in Early => pc \in Early
         /\ pc = At("ready") => pc' \notin Early
  <1> USE DEF Early, At, Goto
  <1>1. CASE Begin
    BY <1>1 DEF Begin
  <1>2. CASE BtEnable \/ bt_ready \/ Register \/ CountSteps \/ Wake
    BY <1>2 DEF BtEnable, bt_ready, Register, CountSteps, Wake
  <1>3. CASE TestActive
    BY <1>3 DEF TestActive
  <1>4. ASSUME NEW c \in Chan, Compare(c) \/ Assign(c)
        PROVE  pc' \notin Early /\ pc # At("ready")
    <2>1. After(c) \notin Early
      BY DemoAssumption DEF After
    <2>2. pc' \in {After(c), <<"notify", c>>, <<"assign", c>>} /\ pc # At("ready")
      BY <1>4 DEF Compare, Assign
    <2> QED BY <2>1, <2>2, DemoAssumption
  <1> QED BY <1>1, <1>2, <1>3, <1>4 DEF QuietStatement

LEMMA StartStep == LinkInv /\ StartedInOrder /\ [Next]_vars => StartedInOrder'
  <1> SUFFICES ASSUME LinkInv, StartedInOrder, [Next]_vars, pc' \in Early PROVE link' = "off"
    BY DEF StartedInOrder
  <1>1. "a" \in Chan /\ "b" \in Chan
    BY DemoAssumption
  <1>2. CASE QuietStatement
    BY <1>2, QuietStatements, EarlyStep DEF StartedInOrder
  <1>3. CASE Sample("a", "sample_a", "sample_b") \/ Sample("b", "sample_b", "active")
    BY <1>1, <1>3, Samples DEF Goto, Early, At
  <1>4. ASSUME NEW c \in Chan, NotifyChan(c) PROVE FALSE
    <2>1. pc' \in {<<"assign", c>>, After(c)}
      BY <1>4, Notifications DEF Goto
    <2>2. After(c) \notin Early
      BY DemoAssumption DEF After, Early, At
    <2> QED BY <2>1, <2>2 DEF Early, At
  <1>5. CASE stepcount_handler
    BY <1>5, Steps DEF StartedInOrder
  <1>6. CASE connected \/ Drop \/ disconnected
    BY <1>6 DEF connected, Drop, disconnected, LinkUp, LinkDrop, LinkCleanup, mainVars, StartedInOrder
  <1>7. CASE CentralReceives \/ UNCHANGED vars
    BY <1>7 DEF CentralReceives, Receive, vars, linkVars, mainVars, StartedInOrder
  <1>8. CASE \/ \E c \in Chan : read(c)
             \/ \E c \in Chan, on \in BOOLEAN : subscribe_changed(c, on)
             \/ \E v \in WriteVals, s \in BOOLEAN : write_stepcount(v, s)
    BY <1>8, Reads, Subscriptions, Writes DEF StartedInOrder
  <1> QED BY <1>2, <1>3, <1>4, <1>5, <1>6, <1>7, <1>8, Cases

LEMMA FlagStep ==
  LinkInv /\ StartedInOrder /\ FlagsAreCcc /\ NoCccUnlinked /\ [Next]_vars
    => FlagsAreCcc' /\ NoCccUnlinked'
  <1> SUFFICES ASSUME LinkInv, StartedInOrder, FlagsAreCcc, NoCccUnlinked, [Next]_vars
               PROVE  FlagsAreCcc' /\ NoCccUnlinked'
    OBVIOUS
  <1>1. "a" \in Chan /\ "b" \in Chan
    BY DemoAssumption
  <1>2. CASE UNCHANGED <<link, ccc, subscribed>>
    BY <1>2 DEF FlagsAreCcc, NoCccUnlinked
  <1>3. CASE QuietStatement
    <2>1. link' = link \/ link = "off"
      BY <1>3, QuietStatements DEF StartedInOrder, Early
    <2>2. UNCHANGED <<ccc, subscribed>>
      BY <1>3, QuietStatements
    <2> QED BY <2>1, <2>2 DEF FlagsAreCcc, NoCccUnlinked
  <1>4. CASE connected \/ Drop
    BY <1>4 DEF connected, Drop, LinkUp, LinkDrop, appVars, FlagsAreCcc, NoCccUnlinked
  <1>5. CASE disconnected
    <2>1. \A c \in Chan : (\E d \in Chan : ccc[d] /\ Flag[d] = c) <=> ccc[c]
      BY Tables
    <2>2. subscribed' = [c \in Chan |-> IF ccc[c] THEN FALSE ELSE subscribed[c]]
      BY <1>5, <2>1 DEF disconnected
    <2>3. ccc' = [c \in Chan |-> FALSE] /\ ccc \in [Chan -> BOOLEAN]
      BY <1>5 DEF disconnected, LinkCleanup, LinkInv, LinkTypeOK
    <2>4. \A c \in Chan : subscribed[c] = ccc[c]
      BY DEF FlagsAreCcc
    <2>5. \A c \in Chan : (IF ccc[c] THEN FALSE ELSE subscribed[c]) = FALSE
      BY <2>3, <2>4, Zenon
    <2> QED BY <2>2, <2>3, <2>5, Zenon DEF FlagsAreCcc, NoCccUnlinked
  <1>6. ASSUME NEW c \in Chan, NEW on \in BOOLEAN, subscribe_changed(c, on)
        PROVE  FlagsAreCcc' /\ NoCccUnlinked'
    BY <1>6, Subscriptions DEF FlagsAreCcc, NoCccUnlinked
  <1>7. CASE \/ Sample("a", "sample_a", "sample_b")
             \/ Sample("b", "sample_b", "active")
             \/ \E c \in Chan : NotifyChan(c)
             \/ stepcount_handler
             \/ \E c \in Chan : read(c)
             \/ \E v \in WriteVals, s \in BOOLEAN : write_stepcount(v, s)
    BY <1>1, <1>2, <1>7, Samples, Notifications, Steps, Reads, Writes
  <1>8. CASE CentralReceives \/ UNCHANGED vars
    BY <1>2, <1>8 DEF CentralReceives, Receive, vars, linkVars, appVars
  <1> QED BY <1>3, <1>4, <1>5, <1>6, <1>7, <1>8, Cases

LEMMA GenRises ==
  ASSUME LinkInv, [Next]_vars
  PROVE  \A c \in Chan : gen[c] <= gen'[c]
  <1>1. /\ "a" \in Chan /\ "b" \in Chan /\ "step" \in Chan
        /\ \A c \in Chan : gen[c] \in Nat
    BY DemoAssumption DEF LinkInv, LinkTypeOK
  <1>2. CASE UNCHANGED gen
    BY <1>1, <1>2
  <1>3. CASE \E c \in Chan, v \in Nat : Store(c, v)
    BY <1>3, StoreFacts
  <1>4. CASE \/ QuietStatement \/ \E c \in Chan : NotifyChan(c)
             \/ \E c \in Chan : read(c)
             \/ \E c \in Chan, on \in BOOLEAN : subscribe_changed(c, on)
    BY <1>2, <1>4, QuietStatements, Notifications, Reads, Subscriptions
  <1>5. CASE \/ connected \/ Drop \/ disconnected \/ CentralReceives \/ UNCHANGED vars
    BY <1>2, <1>5 DEF connected, Drop, disconnected, CentralReceives, LinkUp, LinkDrop, LinkCleanup,
       Receive, vars, linkVars
  <1>6. CASE \/ Sample("a", "sample_a", "sample_b")
             \/ Sample("b", "sample_b", "active")
             \/ stepcount_handler
             \/ \E v \in WriteVals, s \in BOOLEAN : write_stepcount(v, s)
    BY <1>1, <1>3, <1>6, Samples, Steps, Writes
  <1> QED BY <1>4, <1>5, <1>6, Cases

\* Only an assignment notes a generation, and it is the current one.
LEMMA NotedFrame ==
  ASSUME LinkInv, [Next]_vars
  PROVE  \/ UNCHANGED noted
         \/ \E c \in Chan : Assign(c) /\ noted' = [noted EXCEPT ![c] = gen[c]] /\ gen' = gen
  <1>1. "a" \in Chan /\ "b" \in Chan
    BY DemoAssumption
  <1>2. CASE QuietStatement
    BY <1>2 DEF LeaveOld, linkVars,
       QuietStatement, Begin, BtEnable, bt_ready, Register, CountSteps, Wake, TestActive, Compare, Assign
  <1>3. CASE \/ Sample("a", "sample_a", "sample_b")
             \/ Sample("b", "sample_b", "active")
             \/ \E c \in Chan : NotifyChan(c)
             \/ stepcount_handler
             \/ \E c \in Chan : read(c)
             \/ \E c \in Chan, on \in BOOLEAN : subscribe_changed(c, on)
             \/ \E v \in WriteVals, s \in BOOLEAN : write_stepcount(v, s)
    BY <1>1, <1>3, Samples, Notifications, Steps, Reads, Subscriptions, Writes DEF LeaveOld
  <1>4. CASE connected \/ Drop \/ disconnected \/ CentralReceives \/ UNCHANGED vars
    BY <1>4 DEF connected, Drop, disconnected, CentralReceives, vars, mainVars
  <1> QED BY <1>2, <1>3, <1>4, Cases

LEMMA NotedStep == LinkInv /\ NotedOrdered /\ [Next]_vars => NotedOrdered'
  <1> SUFFICES ASSUME LinkInv, NotedOrdered, [Next]_vars PROVE NotedOrdered'
    OBVIOUS
  <1>1. /\ gen \in [Chan -> Nat] /\ gen' \in [Chan -> Nat]
        /\ \A c \in Chan : gen[c] <= gen'[c]
    BY GenRises, LinkStep DEF LinkInv, LinkTypeOK
  <1>2. noted \in [Chan -> Nat] /\ \A c \in Chan : noted[c] <= gen[c]
    BY DEF NotedOrdered
  <1>3. CASE UNCHANGED noted
    BY <1>1, <1>2, <1>3 DEF NotedOrdered
  <1>4. ASSUME NEW c \in Chan, noted' = [noted EXCEPT ![c] = gen[c]], gen' = gen
        PROVE  NotedOrdered'
    BY <1>1, <1>2, <1>4 DEF NotedOrdered
  <1> QED BY <1>3, <1>4, NotedFrame


LEMMA InformedRises ==
  ASSUME LinkInv, StartedInOrder, NoCccUnlinked, [Next]_vars, NEW c \in Chan, Reaches(c)'
  PROVE  \/ Reaches(c) /\ Informed(c) <= Informed(c)'
         \/ gen[c] <= Informed(c)' /\ UNCHANGED <<pc, noted, gen>>
  <1>0. /\ \A d \in Chan : gen[d] \in Nat /\ told[d] \in Nat /\ since[d] \in Nat
        /\ \A d \in Chan : told'[d] \in Nat /\ since'[d] \in Nat
        /\ \A d \in Chan : told[d] <= gen[d]
        /\ "a" \in Chan /\ "b" \in Chan
    BY LinkStep, DemoAssumption DEF LinkInv, LinkTypeOK, HistoryOrdered
  <1>1. ASSUME UNCHANGED <<link, ccc, since>>, told[c] <= told'[c]
        PROVE  Reaches(c) /\ Informed(c) <= Informed(c)'
    BY <1>0, <1>1 DEF Reaches, Informed, Newer
  <1>2. CASE UNCHANGED <<link, ccc, since, told>>
    BY <1>0, <1>1, <1>2
  <1>3. CASE QuietStatement
    <2>1. UNCHANGED link
      BY <1>3, QuietStatements DEF StartedInOrder, NoCccUnlinked, Reaches, Early
    <2> QED BY <1>2, <1>3, <2>1, QuietStatements
  <1>4. CASE connected \/ Drop \/ disconnected
    BY <1>4 DEF connected, Drop, disconnected, LinkUp, LinkDrop, LinkCleanup, NoCccUnlinked, Reaches
  <1>5. ASSUME NEW d \in Chan, NEW on \in BOOLEAN, subscribe_changed(d, on)
        PROVE  \/ Reaches(c) /\ Informed(c) <= Informed(c)'
               \/ gen[c] <= Informed(c)' /\ UNCHANGED <<pc, noted, gen>>
    <2>1. /\ told' = told /\ ccc' = [ccc EXCEPT ![d] = on] /\ link' = link
          /\ since' = IF on /\ ~ccc[d] THEN [since EXCEPT ![d] = gen[d]] ELSE since
          /\ UNCHANGED <<pc, noted, gen>>
      BY <1>5, Subscriptions
    <2>2. ccc \in [Chan -> BOOLEAN] /\ since \in [Chan -> Nat]
      BY DEF LinkInv, LinkTypeOK
    <2>3. CASE c = d /\ ~ccc[d]
      <3>1. since'[c] = gen[c]
        BY <2>1, <2>2, <2>3 DEF Reaches
      <3> QED BY <1>0, <2>1, <3>1 DEF Informed, Newer
    <2>4. CASE c # d \/ ccc[d]
      <3>1. since'[c] = since[c] /\ Reaches(c)
        BY <2>1, <2>2, <2>4 DEF Reaches
      <3> QED BY <1>0, <2>1, <3>1 DEF Informed, Newer
    <2> QED BY <2>3, <2>4
  <1>6. ASSUME NEW d \in Chan, NotifyChan(d) \/ read(d)
        PROVE  Reaches(c) /\ Informed(c) <= Informed(c)'
    <2>1. /\ UNCHANGED <<link, ccc, since>>
          /\ told' = told \/ told' = [told EXCEPT ![d] = gen[d]]
      BY <1>6, Notifications, Reads
    <2>2. told'[c] = told[c] \/ told'[c] = gen[c]
      BY <2>1 DEF LinkInv, LinkTypeOK
    <2>3. told[c] <= told'[c]
      BY <1>0, <2>2
    <2> QED BY <1>1, <2>1, <2>3
  <1>7. CASE \/ Sample("a", "sample_a", "sample_b")
             \/ Sample("b", "sample_b", "active")
             \/ stepcount_handler
    BY <1>0, <1>2, <1>7, Samples, Steps
  <1>8. CASE CentralReceives \/ UNCHANGED vars
    BY <1>2, <1>8 DEF CentralReceives, Receive, vars, linkVars
  <1>9. ASSUME NEW v \in WriteVals, NEW s \in BOOLEAN, write_stepcount(v, s)
        PROVE  Reaches(c) /\ Informed(c) <= Informed(c)'
    BY <1>1, <1>9, Writes
  <1> QED BY <1>2, <1>3, <1>4, <1>5, <1>6, <1>7, <1>8, <1>9, Cases

\* Only main's own sampling changes a button.
LEMMA ButtonsAreMains ==
  ASSUME LinkInv, [Next]_vars, NEW c \in {"a", "b"}, gen'[c] # gen[c]
  PROVE  pc' \in {At("sample_b"), At("active")}
  <1>1. "a" \in Chan /\ "b" \in Chan /\ "step" \in Chan /\ c \in Chan /\ c # "step"
    BY DemoAssumption
  <1>2. CASE Sample("a", "sample_a", "sample_b") \/ Sample("b", "sample_b", "active")
    BY <1>2 DEF Sample, Goto
  <1>3. CASE stepcount_handler \/ \E v \in WriteVals, s \in BOOLEAN : write_stepcount(v, s)
    BY <1>1, <1>3, Steps, Writes, StoreFacts
  <1>4. CASE \/ QuietStatement \/ \E d \in Chan : NotifyChan(d)
             \/ \E d \in Chan : read(d)
             \/ \E d \in Chan, on \in BOOLEAN : subscribe_changed(d, on)
    BY <1>4, QuietStatements, Notifications, Reads, Subscriptions
  <1>5. CASE connected \/ Drop \/ disconnected \/ CentralReceives \/ UNCHANGED vars
    BY <1>5 DEF connected, Drop, disconnected, CentralReceives, LinkUp, LinkDrop, LinkCleanup,
       Receive, vars, linkVars
  <1> QED BY <1>2, <1>3, <1>4, <1>5, Cases

\* Main arrives at the first two assignments by, and leaves B's notification by, notifying.
LEMMA AroundNotification ==
  ASSUME LinkInv, [Next]_vars, pc' # pc
  PROVE  /\ \A d \in {"step", "a"} : pc' = <<"assign", d>> => NotifyChan(d)
         /\ pc = <<"notify", "b">> => NotifyChan("b")
  <1> DEFINE Goal == /\ \A d \in {"step", "a"} : pc' = <<"assign", d>> => NotifyChan(d)
                     /\ pc = <<"notify", "b">> => NotifyChan("b")
  <1> SUFFICES Goal
    OBVIOUS
  <1>1. \A c \in Chan : After(c) \notin {<<"assign", "step">>, <<"assign", "a">>}
    BY DemoAssumption DEF After, At
  <1>2. CASE Begin \/ BtEnable \/ bt_ready \/ Register \/ CountSteps \/ Wake
    BY <1>2 DEF Begin, BtEnable, bt_ready, Register, CountSteps, Wake, Goto, At
  <1>3. CASE TestActive
    BY <1>3 DEF TestActive, Goto, At
  <1>4. CASE Sample("a", "sample_a", "sample_b") \/ Sample("b", "sample_b", "active")
    BY <1>4 DEF Sample, Goto, At
  <1>5. ASSUME NEW c \in Chan, Compare(c) PROVE Goal
    BY <1>1, <1>5 DEF Compare, Goto, NotifiesFirst
  <1>6. ASSUME NEW c \in Chan, Assign(c) PROVE Goal
    BY <1>1, <1>6 DEF Assign, Goto
  <1>7. ASSUME NEW c \in Chan, NotifyChan(c) PROVE Goal
    BY <1>1, <1>7 DEF NotifyChan, Goto, NotifiesFirst
  <1>8. CASE \/ stepcount_handler
             \/ connected \/ Drop \/ disconnected
             \/ CentralReceives
             \/ UNCHANGED vars
    BY <1>8 DEF stepcount_handler, connected, Drop, disconnected, CentralReceives, vars, mainVars
  <1>9. CASE \/ \E c \in Chan : read(c)
             \/ \E c \in Chan, on \in BOOLEAN : subscribe_changed(c, on)
             \/ \E v \in WriteVals, s \in BOOLEAN : write_stepcount(v, s)
    BY <1>9, Reads, Subscriptions, Writes
  <1> QED BY <1>2, <1>3, <1>4, <1>5, <1>6, <1>7, <1>8, <1>9, Cases DEF QuietStatement

\* As long as the value stays while main stands before its assignment.
LEMMA InTimeStep ==
  ASSUME LinkInv, StartedInOrder, NoCccUnlinked, [Next]_vars, NEW c \in {"step", "a"},
         InTime(c), pc = <<"assign", c>> /\ pc' = pc => gen'[c] = gen[c]
  PROVE  InTime(c)'
  <1> SUFFICES ASSUME pc' = <<"assign", c>>, Reaches(c)'
               PROVE  gen'[c] <= Informed(c)'
    BY DEF InTime
  <1>0. c \in Chan /\ gen[c] \in Nat
        /\ told[c] \in Nat /\ since[c] \in Nat /\ told'[c] \in Nat /\ since'[c] \in Nat
    BY LinkStep, DemoAssumption DEF LinkInv, LinkTypeOK
  <1>1. CASE pc' # pc
    <2>1. NotifyChan(c)
      BY <1>1, AroundNotification
    <2>2. told' = [told EXCEPT ![c] = gen[c]] /\ gen' = gen
      BY <1>0, <2>1, Notifications DEF Reaches
    <2>3. told'[c] = gen[c]
      BY <1>0, <2>2 DEF LinkInv, LinkTypeOK
    <2> QED BY <1>0, <2>2, <2>3 DEF Informed, Newer
  <1>2. CASE pc' = pc
    <2>1. gen'[c] = gen[c]
      BY <1>2
    <2>2. \/ Reaches(c) /\ Informed(c) <= Informed(c)'
          \/ gen[c] <= Informed(c)'
      BY <1>0, InformedRises
    <2>3. CASE Reaches(c) /\ Informed(c) <= Informed(c)'
      <3>1. gen[c] <= Informed(c)
        BY <1>2, <2>3 DEF InTime
      <3>2. Informed(c) \in Nat /\ Informed(c)' \in Nat
        BY <1>0 DEF Informed, Newer
      <3> QED BY <1>0, <2>1, <2>3, <3>1, <3>2
    <2> QED BY <2>1, <2>2, <2>3
  <1> QED BY <1>1, <1>2

LEMMA AssignedStep ==
  LinkInv /\ StartedInOrder /\ NoCccUnlinked /\ AssignedInTime /\ [Next]_vars => AssignedInTime'
  <1> SUFFICES ASSUME LinkInv, StartedInOrder, NoCccUnlinked, AssignedInTime, [Next]_vars
               PROVE  AssignedInTime'
    OBVIOUS
  <1>1. pc = <<"assign", "a">> /\ pc' = pc => gen'["a"] = gen["a"]
    BY ButtonsAreMains DEF At
  <1> QED BY <1>1, InTimeStep DEF AssignedInTime

\* One channel at a time.
LEMMA SkipsNothing ==
  ASSUME LinkInv, StartedInOrder, NoCccUnlinked, NotedOrdered, [Next]_vars, NEW c \in Chan,
         NothingSkipped(c), NotifiesFirst(c) => InTime(c)
  PROVE  NothingSkipped(c)'
  <1> SUFFICES ASSUME Reaches(c)', ~InFlight(c)'
               PROVE  noted'[c] <= Informed(c)'
    BY DEF NothingSkipped
  <1>1. /\ gen[c] \in Nat /\ told[c] \in Nat /\ since[c] \in Nat /\ told'[c] \in Nat /\ since'[c] \in Nat
        /\ noted[c] \in Nat /\ noted[c] <= gen[c]
        /\ noted \in [Chan -> Nat] /\ told \in [Chan -> Nat]
    BY LinkStep DEF LinkInv, LinkTypeOK, NotedOrdered
  <1>2. Informed(c) \in Nat /\ Informed(c)' \in Nat
    BY <1>1 DEF Informed, Newer
  <1>3. \/ Reaches(c) /\ Informed(c) <= Informed(c)'
        \/ gen[c] <= Informed(c)' /\ UNCHANGED <<pc, noted, gen>>
    BY InformedRises
  <1>4. CASE noted'[c] = noted[c]
    <2>1. CASE InFlight(c) /\ pc' # pc
      <3>1. c = "b" /\ NotifyChan(c)
        BY <2>1, AroundNotification DEF InFlight, NotifiesFirst
      <3>2. told' = [told EXCEPT ![c] = gen[c]]
        BY <3>1, Notifications DEF Reaches
      <3>3. told'[c] = gen[c]
        BY <1>1, <3>2
      <3> QED BY <1>1, <1>4, <3>3 DEF Informed, Newer
    <2>2. CASE ~InFlight(c) \/ pc' = pc
      <3>1. ~InFlight(c)
        BY <2>2 DEF InFlight
      <3>2. Reaches(c) => noted[c] <= Informed(c)
        BY <3>1 DEF NothingSkipped
      <3> QED BY <1>1, <1>2, <1>3, <1>4, <3>2
    <2> QED BY <2>1, <2>2
  <1>5. CASE noted'[c] # noted[c]
    <2>1. PICK d \in Chan : Assign(d) /\ noted' = [noted EXCEPT ![d] = gen[d]] /\ gen' = gen
      BY <1>5, NotedFrame
    <2>2. d = c /\ noted'[c] = gen[c]
      BY <1>1, <1>5, <2>1
    <2>3. NotifiesFirst(c)
      BY <2>1, <2>2 DEF Assign, Goto, NotifiesFirst, InFlight
    <2>4. pc = <<"assign", c>> /\ UNCHANGED linkVars
      BY <2>1, <2>2, <2>3 DEF Assign, Goto
    <2>5. Reaches(c) /\ Informed(c)' = Informed(c)
      BY <2>4 DEF linkVars, Reaches, Informed
    <2>6. gen[c] <= Informed(c)
      BY <2>3, <2>4, <2>5 DEF InTime
    <2> QED BY <2>2, <2>5, <2>6
  <1> QED BY <1>4, <1>5

LEMMA ButtonsStep == DemoInv /\ [Next]_vars => ButtonsNothingSkipped'
  <1> SUFFICES ASSUME DemoInv, [Next]_vars PROVE ButtonsNothingSkipped'
    OBVIOUS
  <1>1. "a" \in Chan /\ "b" \in Chan /\ ~NotifiesFirst("b")
    BY DemoAssumption DEF NotifiesFirst
  <1>2. LinkInv /\ StartedInOrder /\ NoCccUnlinked /\ NotedOrdered /\ InTime("a")
        /\ NothingSkipped("a") /\ NothingSkipped("b")
    BY DEF DemoInv, ButtonsNothingSkipped, AssignedInTime
  <1>3. NothingSkipped("a")' /\ NothingSkipped("b")'
    BY <1>1, <1>2, SkipsNothing
  <1> QED BY <1>3 DEF ButtonsNothingSkipped

LEMMA InitInv == Init => DemoInv
  <1> SUFFICES ASSUME Init PROVE DemoInv
    OBVIOUS
  <1> USE DEF Init
  <1>1. LinkInv
    BY LinkStarts
  <1> USE DEF LinkInit
  <1>2. StartedInOrder /\ FlagsAreCcc /\ NoCccUnlinked /\ NotedOrdered
    BY DEF StartedInOrder, FlagsAreCcc, NoCccUnlinked, NotedOrdered
  <1>3. AssignedInTime /\ ButtonsNothingSkipped
    BY DEF AssignedInTime, InTime, ButtonsNothingSkipped, NothingSkipped, Reaches
  <1> QED BY <1>1, <1>2, <1>3 DEF DemoInv

LEMMA NextInv == DemoInv /\ [Next]_vars => DemoInv'
  BY LinkStep, StartStep, FlagStep, NotedStep, AssignedStep, ButtonsStep DEF DemoInv

LEMMA Inductive == Safety => []DemoInv
  BY InitInv, NextInv, PTL DEF Safety

(***************************************************************************)
(* step_subscribe_changed and its two siblings keep the three flags equal  *)
(* to the host's CCC values (FlagsMatchCcc): a dead link's cleanup clears  *)
(* through the same callbacks what disconnected() leaves set.              *)
(***************************************************************************)
THEOREM FlagsCorrect == Safety => []FlagsMatchCcc
  <1>1. DemoInv => FlagsMatchCcc
    BY Zenon DEF DemoInv, FlagsAreCcc, FlagsMatchCcc
  <1> QED BY <1>1, Inductive, PTL

(***************************************************************************)
(* btna_old and btnb_old never run ahead of what a subscribed central was  *)
(* told (ButtonsNothingSkipped), although button A is notified before the  *)
(* assignment and button B after it, with callbacks between the two.       *)
(***************************************************************************)
THEOREM ButtonsNotSkipped == Safety => []ButtonsNothingSkipped
  <1>1. DemoInv => ButtonsNothingSkipped
    BY DEF DemoInv
  <1> QED BY <1>1, Inductive, PTL

-----------------------------------------------------------------------------
(***************************************************************************)
(* Where the comments of the demo do not hold, and that they hold          *)
(* everywhere else.                                                        *)
(***************************************************************************)
(***************************************************************************)
(* Line 452, for the step counter: stepcount_old runs ahead of what a      *)
(* subscribed central was told only when the count changes between the     *)
(* notification and the assignment (lines 461-463), nowhere else in the    *)
(* loop.                                                                   *)
(***************************************************************************)
THEOREM StepsLostThereOnly ==
  Safety /\ [][pc = <<"assign", "step">> => gen'["step"] = gen["step"]]_vars
    => []NothingSkipped("step")
  <1> DEFINE StepInv == InTime("step") /\ NothingSkipped("step")
             Still == pc = <<"assign", "step">> => gen'["step"] = gen["step"]
  <1>1. "step" \in Chan
    BY DemoAssumption
  <1>2. Init => StepInv
    BY DEF Init, LinkInit, InTime, NothingSkipped, Reaches
  <1>3. DemoInv /\ StepInv /\ [Next]_vars /\ [Still]_vars => StepInv'
    <2> SUFFICES ASSUME DemoInv, StepInv, [Next]_vars, [Still]_vars PROVE StepInv'
      OBVIOUS
    <2>1. LinkInv /\ StartedInOrder /\ NoCccUnlinked /\ NotedOrdered
      BY DEF DemoInv
    <2>2. pc = <<"assign", "step">> /\ pc' = pc => gen'["step"] = gen["step"]
      BY DEF vars, linkVars
    <2>3. InTime("step")'
      BY <2>1, <2>2, InTimeStep
    <2>4. NothingSkipped("step")'
      BY <1>1, <2>1, SkipsNothing
    <2> QED BY <2>3, <2>4
  <1>4. StepInv => NothingSkipped("step")
    OBVIOUS
  <1> HIDE DEF StepInv
  <1> QED BY <1>2, <1>3, <1>4, Inductive, PTL DEF Safety

(***************************************************************************)
(* Line 37: active_conn misses a central that connected before main had    *)
(* registered the callbacks (lines 438-439), and never any other.          *)
(***************************************************************************)
THEOREM ReferenceLostThereOnly ==
  Safety /\ [][connected => registered]_vars => []ReferenceKept
  <1> DEFINE Known_conn == link = "connected" => active_conn = "conn"
  <1>1. Init => Known_conn
    BY DEF Init, LinkInit
  <1>2. DemoInv /\ Known_conn /\ [Next]_vars /\ [connected => registered]_vars => Known_conn'
    <2> SUFFICES ASSUME DemoInv, Known_conn, [Next]_vars, [connected => registered]_vars,
                        link' = "connected"
                 PROVE  active_conn' = "conn"
      OBVIOUS
    <2>1. CASE connected
      BY <2>1 DEF connected, LinkUp, vars, linkVars
    <2>2. LinkInv
      BY DEF DemoInv
    <2>3. CASE QuietStatement
      <3>1. link' = link
        BY <2>3 DEF StartAdvertising, RegisterCallbacks, linkVars,
           QuietStatement, Begin, BtEnable, bt_ready, Register, CountSteps, Wake, TestActive, Compare, Assign
      <3> QED BY <2>2, <2>3, <3>1, QuietStatements
    <2>4. CASE Drop \/ disconnected
      BY <2>4 DEF Drop, disconnected, LinkDrop, LinkCleanup
    <2>5. CASE \/ Sample("a", "sample_a", "sample_b")
               \/ Sample("b", "sample_b", "active")
               \/ CentralReceives \/ UNCHANGED vars
      BY <2>5 DEF Sample, CentralReceives, Receive, appVars, vars, linkVars
    <2>6. CASE \/ \E c \in Chan : NotifyChan(c)
               \/ stepcount_handler
               \/ \E c \in Chan : read(c)
      BY <2>2, <2>6, Notifications, Steps, Reads
    <2>7. CASE \/ \E c \in Chan, on \in BOOLEAN : subscribe_changed(c, on)
               \/ \E v \in WriteVals, s \in BOOLEAN : write_stepcount(v, s)
      BY <2>2, <2>7, Subscriptions, Writes
    <2> QED BY <2>1, <2>3, <2>4, <2>5, <2>6, <2>7, Cases
  <1>3. Known_conn => ReferenceKept
    BY DEF ReferenceKept
  <1> HIDE DEF Known_conn
  <1> QED BY <1>1, <1>2, <1>3, Inductive, PTL DEF Safety


-----------------------------------------------------------------------------
(***************************************************************************)
(* The refinement, channel by channel.                                     *)
(***************************************************************************)
Tells(c) == Promise(c)!TellNext \/ UNCHANGED <<gen[c], Known(c), Live(c)>>

\* A step of the value alone is Change.
LEMMA ChangeTells ==
  ASSUME NEW c \in Chan, UNCHANGED <<Known(c), Live(c)>>,
         \/ gen'[c] = gen[c]
         \/ gen[c] < MaxGen[c] /\ gen'[c] = gen[c] + 1
  PROVE  Tells(c)
  BY DEF Tells, Promise!TellNext, Promise!Change

\* A subscription that ends is Close.
LEMMA CloseTells ==
  ASSUME NEW c \in Chan, UNCHANGED <<gen[c], Known(c)>>, ~Live(c)'
  PROVE  Tells(c)
  <1>1. Live(c)' = FALSE /\ Live(c) \in BOOLEAN
    BY DEF Live
  <1>2. CASE Live(c)
    <2>1. Promise(c)!Close
      BY <1>1, <1>2 DEF Promise!Close
    <2> QED BY <2>1 DEF Tells, Promise!TellNext
  <1>3. CASE Live(c) = FALSE
    BY <1>1, <1>3 DEF Tells
  <1> QED BY <1>1, <1>2, <1>3

\* A step of the central's knowledge alone is Learn.
LEMMA LearnTells ==
  ASSUME NEW c \in Chan, LinkInv, UNCHANGED <<gen, Live(c)>>, Known(c)' \in Nat,
         Known(c) <= Known(c)', Known(c)' <= gen[c]
  PROVE  Tells(c)
  <1>1. gen[c] \in Nat /\ Known(c) \in Nat
    BY KnownFacts
  <1>2. CASE Known(c)' = Known(c)
    BY <1>2 DEF Tells
  <1>3. CASE Known(c)' # Known(c)
    <2>1. Known(c) < gen[c] /\ Known(c)' \in (Known(c) + 1) .. gen[c]
      BY <1>1, <1>3
    <2> QED BY <2>1 DEF Tells, Promise!TellNext, Promise!Learn
  <1> QED BY <1>2, <1>3


\* A value that main or the interrupt stores changes one channel at a time.
LEMMA StoreTells ==
  ASSUME LinkInv, NEW d \in Chan, NEW v \in Nat, Store(d, v), UNCHANGED <<since, seen, link, ccc, active_conn>>,
         NEW c \in Chan
  PROVE  Tells(c)
  <1>1. UNCHANGED <<Known(c), Live(c)>>
    BY DEF Known, Live, Reaches
  <1>2. \/ gen'[c] = gen[c]
        \/ gen[c] < MaxGen[c] /\ gen'[c] = gen[c] + 1
    BY StoreFacts
  <1> QED BY <1>1, <1>2, ChangeTells

LEMMA SubscriptionTells ==
  ASSUME LinkInv, NEW d \in Chan, NEW on \in BOOLEAN, subscribe_changed(d, on), NEW c \in Chan
  PROVE  Tells(c)
  <1>1. /\ ccc' = [ccc EXCEPT ![d] = on] /\ link = "connected"
        /\ since' = IF on /\ ~ccc[d] THEN [since EXCEPT ![d] = gen[d]] ELSE since
        /\ UNCHANGED <<link, gen, seen, active_conn>>
    BY Subscriptions
  <1>2. /\ ccc \in [Chan -> BOOLEAN] /\ since \in [Chan -> Nat]
        /\ gen[c] \in Nat /\ seen[c] \in Nat /\ seen[c] <= gen[c]
    <2>1. seen[c] <= told[c] /\ told[c] <= gen[c] /\ seen[c] \in Nat /\ told[c] \in Nat /\ gen[c] \in Nat
      BY DEF LinkInv, LinkTypeOK, QueueOrdered, HistoryOrdered
    <2> QED BY <2>1 DEF LinkInv, LinkTypeOK
  <1>3. CASE c # d \/ (on /\ ccc[d])
    <2>1. ccc'[c] = ccc[c] /\ since'[c] = since[c]
      BY <1>1, <1>2, <1>3
    <2> QED BY <1>1, <2>1 DEF Tells, Known, Live, Reaches
  <1>4. CASE c = d /\ ~on
    <2>1. ~Live(c)' /\ since' = since
      BY <1>1, <1>2, <1>4 DEF Live, Reaches
    <2>2. UNCHANGED <<gen[c], Known(c)>>
      BY <1>1, <2>1 DEF Known
    <2> QED BY <2>1, <2>2, CloseTells
  <1>5. CASE c = d /\ on /\ ~ccc[d]
    <2>1. since'[c] = gen[c] /\ seen'[c] = seen[c] /\ gen'[c] = gen[c] /\ ccc'[c]
      BY <1>1, <1>2, <1>5
    <2>2. Known(c)' = gen[c] /\ ~Live(c)
      BY <1>2, <1>5, <2>1 DEF Known, Newer, Live, Reaches
    <2>3. CASE active_conn # "NULL"
      <3>1. Live(c)'
        BY <1>1, <2>1, <2>3 DEF Live, Reaches
      <3> QED BY <1>1, <2>2, <3>1 DEF Tells, Promise!TellNext, Promise!Open
    <2>4. CASE active_conn = "NULL"
      <3>1. UNCHANGED <<gen, Live(c)>>
        BY <1>1, <2>2, <2>4 DEF Live
      <3> QED BY <1>2, <2>2, <3>1, KnownFacts, LearnTells
    <2> QED BY <2>3, <2>4
  <1> QED BY <1>3, <1>4, <1>5

LEMMA StepTells ==
  ASSUME DemoInv, [Next]_vars, NEW c \in Chan
  PROVE  Tells(c)
  <1>0. LinkInv /\ StartedInOrder /\ NoCccUnlinked /\ "a" \in Chan /\ "b" \in Chan /\ "step" \in Chan
    BY DemoAssumption DEF DemoInv
  <1>1. CASE UNCHANGED <<gen, seen, since, link, ccc, active_conn>>
    BY <1>1 DEF Tells, Known, Live, Reaches
  <1>2. CASE UNCHANGED <<gen, seen, since>> /\ ~Live(c)'
    <2>1. UNCHANGED <<gen[c], Known(c)>>
      BY <1>2 DEF Known
    <2> QED BY <1>2, <2>1, CloseTells
  <1>3. CASE QuietStatement
    <2>1. UNCHANGED <<gen, seen, since, ccc, active_conn>>
      BY <1>0, <1>3, QuietStatements
    <2>2. CASE link' = link
      BY <1>1, <2>1, <2>2
    <2>3. CASE link' # link
      <3>1. link = "off"
        BY <1>0, <1>3, <2>3, QuietStatements DEF StartedInOrder, Early
      <3>2. ~ccc'[c]
        BY <1>0, <2>1, <3>1 DEF NoCccUnlinked
      <3> QED BY <1>2, <2>1, <3>2 DEF Live, Reaches
    <2> QED BY <2>2, <2>3
  <1>4. CASE connected
    <2>1. ~ccc'[c] /\ UNCHANGED <<gen, seen, since>>
      BY <1>0, <1>4 DEF connected, LinkUp, NoCccUnlinked
    <2> QED BY <1>2, <2>1 DEF Live, Reaches
  <1>5. CASE Drop \/ disconnected
    BY <1>2, <1>5 DEF Drop, LinkDrop, disconnected, LinkCleanup, Live, Reaches
  <1>6. CASE \/ Sample("a", "sample_a", "sample_b")
             \/ Sample("b", "sample_b", "active")
             \/ stepcount_handler
             \/ \E v \in WriteVals, s \in BOOLEAN : write_stepcount(v, s)
    <2>1. /\ \E d \in Chan, v \in Nat : Store(d, v)
          /\ UNCHANGED <<since, seen, link, ccc, active_conn>>
      BY <1>0, <1>6, Samples, Steps, Writes
    <2> QED BY <1>0, <2>1, StoreTells
  <1>7. CASE \/ \E d \in Chan : NotifyChan(d)
             \/ \E d \in Chan : read(d)
             \/ UNCHANGED vars
    <2>1. UNCHANGED <<gen, seen, since, link, ccc, active_conn>>
      BY <1>0, <1>7, Notifications, Reads DEF vars, linkVars, appVars
    <2> QED BY <1>1, <2>1
  <1>8. CASE CentralReceives
    <2>1. Receive /\ UNCHANGED <<gen, since, link, ccc, active_conn>>
      BY <1>8 DEF CentralReceives, Receive, appVars
    <2>2. UNCHANGED Live(c)
      BY <2>1 DEF Live, Reaches
    <2> QED BY <1>0, <2>1, <2>2, ReceiveKnown, LearnTells
  <1>9. CASE \E d \in Chan, on \in BOOLEAN : subscribe_changed(d, on)
    BY <1>0, <1>9, SubscriptionTells
  <1> QED BY <1>3, <1>4, <1>5, <1>6, <1>7, <1>8, <1>9, Cases

(***************************************************************************)
(* microbit_demo implements Telling for each of its three notified         *)
(* characteristics (ImplementsTelling): notifications, reads and writes    *)
(* teach the central generations of a value in order, none ahead of time,  *)
(* and a subscription starts at the value of that moment.                  *)
(***************************************************************************)
THEOREM Refinement == Safety => ImplementsTelling
  <1>1. DemoInv /\ [Next]_vars => [\A c \in Chan : Tells(c)]_vars
    BY StepTells
  <1> QED BY <1>1, Inductive, PTL DEF Safety, ImplementsTelling, Tells
=============================================================================
