----------------------------- MODULE DemoTable ------------------------------
(***************************************************************************)
(* The attribute tables of microbit_demo: four services whose entries the  *)
(* macros lay out one after the other.  The program notifies by position,  *)
(* the host finds subscriptions by position, and the central finds         *)
(* characteristics by identifier within their service.                     *)
(***************************************************************************)
EXTENDS Naturals, Sequences

\* The entries the macros produce: of is the variable behind them.
Service == <<[kind |-> "service", of |-> "-", id |-> 0]>>

Characteristic(id, variable) ==
  <<[kind |-> "declaration", of |-> variable, id |-> id],
    [kind |-> "value", of |-> variable, id |-> id]>>

\* BT_GATT_CCC: of is the flag its callback sets.
Ccc(flag) == <<[kind |-> "ccc", of |-> flag, id |-> 0]>>

(***************************************************************************)
(* The characteristics: identifier, variable, and the handler that reads   *)
(* the variable.                                                           *)
(***************************************************************************)
x_accel == Characteristic(1, "x_accel")
y_accel == Characteristic(2, "y_accel")
z_accel == Characteristic(3, "z_accel")
stepcount == Characteristic(4, "step")
x_mag == Characteristic(4097, "x_mag")
y_mag == Characteristic(4098, "y_mag")
z_mag == Characteristic(3, "z_mag")  \* initialised with the identifier of z_accel
button_a == Characteristic(8193, "a")
button_b == Characteristic(8194, "b")
led == Characteristic(12289, "led")

\* The callbacks behind the CCC entries, by the flag they set.
step_subscribe_changed == Ccc("step")
button_a_subscribe_changed == Ccc("a")
button_b_subscribe_changed == Ccc("b")

my_accel_service_svc ==
  Service \o x_accel \o y_accel \o z_accel \o stepcount \o step_subscribe_changed
my_mag_service_svc == Service \o x_mag \o y_mag \o z_mag

my_button_service_svc ==
  Service \o button_a \o button_a_subscribe_changed
          \o button_b \o button_b_subscribe_changed
my_led_service_svc == Service \o led

\* The service and the number (from zero) of the entry main notifies.
NotifyIndexOfDeclarations(c) ==
  CASE c = "step" -> <<my_accel_service_svc, 7>>
    [] c = "a" -> <<my_button_service_svc, 2>>
    [] c = "b" -> <<my_button_service_svc, 3>>

NotifyIndex(c) ==
  CASE c = "step" -> <<my_accel_service_svc, 8>>
    [] c = "a" -> <<my_button_service_svc, 2>>
    [] c = "b" -> <<my_button_service_svc, 4>>

(***************************************************************************)
(* The host                                                                *)
(***************************************************************************)
\* bt_gatt_notify: a declaration stands for the value that follows it.
Notified(svc, index) ==
  LET i == index + 1
  IN  IF svc[i].kind = "declaration" THEN svc[i + 1].of ELSE svc[i].of

\* The CCC entry of a characteristic is the first one after its value.
CccOf(svc, variable) ==
  LET i == CHOOSE i \in DOMAIN svc : svc[i].kind = "value" /\ svc[i].of = variable
      later == {j \in DOMAIN svc : j > i /\ svc[j].kind = "ccc"}
  IN  svc[CHOOSE j \in later : \A k \in later : j <= k].of

Services ==
  {my_accel_service_svc, my_mag_service_svc, my_button_service_svc, my_led_service_svc}

\* The service that holds a variable.
ServiceOf(c) == CHOOSE svc \in Services : \E i \in DOMAIN svc : svc[i].of = c

Notifiable == {"step", "a", "b"}

\* The variable the central takes the value to be of.
Target == [c \in Notifiable |-> Notified(NotifyIndex(c)[1], NotifyIndex(c)[2])]

\* The flag that a subscription to c sets.
Flag == [c \in Notifiable |-> CccOf(ServiceOf(c), c)]

\* The variable a central reads that asks c's service for c's identifier.
Found ==
  [c \in Notifiable |->
     LET svc == ServiceOf(c)
         wanted == CASE c = "step" -> stepcount [] c = "a" -> button_a [] c = "b" -> button_b
         values == {i \in DOMAIN svc : svc[i].kind = "value" /\ svc[i].id = wanted[2].id}
     IN  svc[CHOOSE i \in values : \A k \in values : i <= k].of]
=============================================================================
