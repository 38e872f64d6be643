---------------------------- MODULE MicrobitDemo ----------------------------
(***************************************************************************)
(* zephyr_3.7.0/microbit_demo/src/main.c: sensor, buttons, LED matrix and  *)
(* step counter over Bluetooth.  This module models main's start-up and    *)
(* loop with the three notified characteristics: the step counter, which   *)
(* the step interrupt and the central change under main's feet, and the    *)
(* two buttons, which only main writes.  The attribute tables decide which *)
(* characteristic a notification and a subscription belong to.  Sampling   *)
(* acceleration and field is in Readings, the LED characteristic in        *)
(* LedWrite: both touch nothing of this.                                   *)
(*                                                                         *)
(* pc is a pair <<statement, channel>>; the channel is "-" outside the     *)
(* three if-blocks of the loop (lines 460-474).                            *)
(***************************************************************************)
EXTENDS BtLink, DemoTable

CONSTANTS Modulus,    \* the counter wraps at 2^32; small here
          WriteVals,  \* values the central may write to the step counter
          MaxChanges  \* bound on the changes of all three values together

ASSUME DemoAssumption == /\ Chan = {"step", "a", "b"}
                         /\ Modulus \in Nat \ {0, 1}
                         /\ WriteVals \subseteq 0 .. (Modulus - 1)
                         /\ MaxChanges \in Nat

VARIABLES
  pc,           \* next statement of main
  active_conn,  \* "NULL" or "conn"
  subscribed,   \* stepcount_subscribed, button_a_subscribed, button_b_subscribed
  counting,     \* the step interrupt is armed
  old,          \* stepcount_old, btna_old, btnb_old
  noted         \* history: generation of old[c]

mainVars == <<pc, old, noted>>
appVars == <<active_conn, subscribed>>
vars == <<linkVars, mainVars, appVars, counting>>

Range01 == {0, 1}  \* the levels of a button pin

At(stmt) == <<stmt, "-">>

Init ==
  /\ LinkInit
  /\ pc = At("lsm")
  /\ active_conn = "NULL"
  /\ subscribed = [c \in Chan |-> FALSE]
  /\ counting = FALSE
  /\ old = [c \in Chan |-> 0]
  /\ noted = [c \in Chan |-> 0]

\* A change of c that the bound allows.
Affordable(c, v) == v # val[c] => gen["step"] + gen["a"] + gen["b"] < MaxChanges

Goto(from, to) == pc = from /\ pc' = to

LeaveOld == UNCHANGED <<old, noted>>

(***************************************************************************)
(* Start-up, lines 411-440                                                 *)
(***************************************************************************)
\* lsm303_ll_begin, buttons_begin and matrix_begin: a failure hangs.
Begin ==
  /\ \/ Goto(At("lsm"), At("buttons")) \/ Goto(At("lsm"), At("hang"))
     \/ Goto(At("buttons"), At("matrix")) \/ Goto(At("buttons"), At("hang"))
     \/ Goto(At("matrix"), At("enable")) \/ Goto(At("matrix"), At("hang"))
  /\ LeaveOld /\ UNCHANGED <<linkVars, appVars, counting>>

\* bt_enable: a failure returns from main.
BtEnable ==
  /\ Goto(At("enable"), At("ready")) \/ Goto(At("enable"), At("exit"))
  /\ LeaveOld /\ UNCHANGED <<linkVars, appVars, counting>>

\* bt_ready: advertising starts, or fails and main goes on all the same.
bt_ready ==
  /\ Goto(At("ready"), At("register"))
  /\ StartAdvertising \/ UNCHANGED linkVars
  /\ LeaveOld /\ UNCHANGED <<appVars, counting>>

Register ==
  /\ Goto(At("register"), At("count"))
  /\ RegisterCallbacks
  /\ LeaveOld /\ UNCHANGED <<appVars, counting>>

\* lsm303_countSteps: its result is not looked at.
CountSteps ==
  /\ Goto(At("count"), At("sleep"))
  /\ counting' \in BOOLEAN
  /\ LeaveOld /\ UNCHANGED <<linkVars, appVars>>

(***************************************************************************)
(* The loop, lines 442-476                                                 *)
(***************************************************************************)
Wake ==
  /\ Goto(At("sleep"), At("sample_a"))
  /\ LeaveOld /\ UNCHANGED <<linkVars, appVars, counting>>

\* button_a = get_buttonA(), button_b = get_buttonB()
Sample(c, from, to) ==
  /\ Goto(At(from), At(to))
  /\ \E level \in Range01 : Affordable(c, level) /\ Store(c, level)
  /\ UNCHANGED <<link, registered, ccc, air, told, since, seen>>
  /\ LeaveOld /\ UNCHANGED <<appVars, counting>>

TestActive ==
  /\ Goto(At("active"), IF active_conn # "NULL" THEN <<"compare", "step">> ELSE At("sleep"))
  /\ LeaveOld /\ UNCHANGED <<linkVars, appVars, counting>>

\* Where main goes after the if-block of c.
After(c) == CASE c = "step" -> <<"compare", "a">>
              [] c = "a" -> <<"compare", "b">>
              [] c = "b" -> At("sleep")

\* The step counter and button A are notified before old is assigned,
\* button B afterwards.
NotifiesFirst(c) == c # "b"

\* Mutant: copy and paste, button B is compared with button A's old value.
CompareWithA(c) ==
  /\ Goto(<<"compare", c>>,
          IF val[c] = old[IF c = "b" THEN "a" ELSE c] THEN After(c)
          ELSE IF NotifiesFirst(c) THEN <<"notify", c>> ELSE <<"assign", c>>)
  /\ LeaveOld /\ UNCHANGED <<linkVars, appVars, counting>>

Compare(c) ==
  /\ Goto(<<"compare", c>>,
          IF val[c] = old[c] THEN After(c)
          ELSE IF NotifiesFirst(c) THEN <<"notify", c>> ELSE <<"assign", c>>)
  /\ LeaveOld /\ UNCHANGED <<linkVars, appVars, counting>>

\* Mutant: the notification is given up when no buffer is free.
NotifyOrGiveUp(c) ==
  /\ Goto(<<"notify", c>>, IF NotifiesFirst(c) THEN <<"assign", c>> ELSE After(c))
  /\ \/ Notify(c)
     \/ ~HasTxBuf /\ UNCHANGED linkVars
  /\ LeaveOld /\ UNCHANGED <<appVars, counting>>

\* bt_gatt_notify with c's value, on the entry main gives.
NotifyChan(c) ==
  /\ Goto(<<"notify", c>>, IF NotifiesFirst(c) THEN <<"assign", c>> ELSE After(c))
  /\ \/ Reaches(Target[c]) /\ HasTxBuf /\ Send(Target[c], FALSE, gen[c])
     \/ ~Reaches(Target[c]) /\ UNCHANGED <<air, told>>
  /\ UNCHANGED <<link, registered, ccc, val, gen, since, seen>>
  /\ LeaveOld /\ UNCHANGED <<appVars, counting>>

\* old = value; the value is read again here.
Assign(c) ==
  /\ Goto(<<"assign", c>>, IF NotifiesFirst(c) THEN After(c) ELSE <<"notify", c>>)
  /\ old' = [old EXCEPT ![c] = val[c]]
  /\ noted' = [noted EXCEPT ![c] = gen[c]]
  /\ UNCHANGED <<linkVars, appVars, counting>>

Main ==
  \/ Begin \/ BtEnable \/ bt_ready \/ Register \/ CountSteps \/ Wake
  \/ Sample("a", "sample_a", "sample_b")
  \/ Sample("b", "sample_b", "active")
  \/ TestActive
  \/ \E c \in Chan : Compare(c) \/ NotifyChan(c) \/ Assign(c)

(***************************************************************************)
(* The step interrupt                                                      *)
(***************************************************************************)
stepcount_handler ==
  /\ counting
  /\ LET next == (val["step"] + 1) % Modulus
     IN  Affordable("step", next) /\ Store("step", next)
  /\ UNCHANGED <<link, registered, ccc, air, told, since, seen>>
  /\ UNCHANGED <<mainVars, appVars, counting>>

(***************************************************************************)
(* Callbacks of the Bluetooth host                                         *)
(***************************************************************************)
connected ==
  /\ LinkUp
  /\ active_conn' = IF registered THEN "conn" ELSE active_conn
  /\ UNCHANGED <<subscribed, mainVars, counting>>

Drop ==
  /\ LinkDrop
  /\ UNCHANGED <<mainVars, appVars, counting>>

\* disconnected() itself clears active_conn only; the CCC callbacks of the
\* channels that were subscribed clear their flags.
disconnected ==
  /\ LinkCleanup
  /\ active_conn' = IF registered THEN "NULL" ELSE active_conn
  /\ subscribed' = [c \in Chan |-> IF \E d \in Chan : ccc[d] /\ Flag[d] = c THEN FALSE ELSE subscribed[c]]
  /\ UNCHANGED <<mainVars, counting>>

\* Mutant: copy and paste, button B's callback sets button A's flag.
SubscribeChangedA(c, on) ==
  /\ SetCcc(c, on)
  /\ subscribed' = [subscribed EXCEPT ![IF c = "b" THEN "a" ELSE c] = on]
  /\ UNCHANGED <<active_conn, mainVars, counting>>

\* step_subscribe_changed, button_a_subscribe_changed, button_b_subscribe_changed
subscribe_changed(c, on) ==
  /\ SetCcc(c, on)
  /\ subscribed' = [subscribed EXCEPT ![Flag[c]] = on]
  /\ UNCHANGED <<active_conn, mainVars, counting>>

\* read_stepcount, read_button_a, read_button_b
read(c) ==
  /\ ReadValue(Found[c])
  /\ UNCHANGED <<mainVars, appVars, counting>>

\* write_stepcount copies four bytes whatever the length: a shorter write
\* stores bytes the central did not send.
write_stepcount(v, rightSize) ==
  /\ Affordable("step", v) /\ WriteValue("step", v, rightSize)
  /\ UNCHANGED <<mainVars, appVars, counting>>

CentralReceives ==
  /\ Receive
  /\ UNCHANGED <<mainVars, appVars, counting>>

Host ==
  \/ connected \/ Drop \/ disconnected
  \/ \E c \in Chan : read(c) \/ \E on \in BOOLEAN : subscribe_changed(c, on)
  \/ \E v \in WriteVals, rightSize \in BOOLEAN : write_stepcount(v, rightSize)

Next == Main \/ stepcount_handler \/ Host \/ CentralReceives

Safety == Init /\ [][Next]_vars

\* As for ble_stepcount: main runs whenever no callback does, the host
\* finishes its cleanup and a live link delivers.
Fairness ==
  /\ WF_vars(Main)
  /\ WF_vars(disconnected)
  /\ WF_vars(CentralReceives)

Spec == Safety /\ Fairness

(***************************************************************************)
(* Properties                                                              *)
(***************************************************************************)
\* main has assigned old[c] and has not notified yet.
InFlight(c) == ~NotifiesFirst(c) /\ pc = <<"notify", c>>

NothingSkipped(c) == Reaches(c) /\ ~InFlight(c) => noted[c] <= Informed(c)

(***************************************************************************)
(* The buttons' old values never run ahead of what a subscribed central    *)
(* was told, in either order of notification and assignment (465-474).     *)
(***************************************************************************)
ButtonsNothingSkipped == NothingSkipped("a") /\ NothingSkipped("b")

(***************************************************************************)
(* Each subscription flag equals the host's CCC value while a central is   *)
(* connected, although disconnected() does not clear it (lines 369-373).   *)
(***************************************************************************)
FlagsMatchCcc == link = "connected" => subscribed = ccc

(***************************************************************************)
(* Line 37: active_conn is "a reference to the connection with the central *)
(* device (if any)".  Once main is in its loop a connected central is      *)
(* always known.                                                           *)
(***************************************************************************)
ReferenceKept ==
  pc = At("sleep") /\ link = "connected" => active_conn = "conn"

(***************************************************************************)
(* The abstract promise, for each channel.                                 *)
(***************************************************************************)
Live(c) == Reaches(c) /\ active_conn # "NULL"

\* c has come back to the value main compares it with.
CameBack(c) == noted[c] # gen[c] /\ old[c] = val[c]

Promise(c) == INSTANCE Telling WITH
  Bound <- MaxGen[c], current <- gen[c], known <- Known(c), live <- Live(c),
  excused <- CameBack(c)

\* Every channel tells its central generations in order, none ahead of time.
ImplementsTelling ==
  [][\A c \in Chan : Promise(c)!TellNext \/ UNCHANGED <<gen[c], Known(c), Live(c)>>]_vars

\* A central that stays subscribed to a button knows its last level in the end,
\* or main saw no change of it (lines 465-474).
ButtonsKeepTelling == Promise("a")!Settles /\ Promise("b")!Settles

(***************************************************************************)
(* Line 452, "Send a notifiy signal to a central device (if there is       *)
(* one)", for the step counter (lines 460-464): a central that stays       *)
(* subscribed is sent the last count in the end.                           *)
(***************************************************************************)
StepKeepsTelling == Promise("step")!Settles
=============================================================================
