---------------------------- MODULE BleStepcount ----------------------------
(***************************************************************************)
(* zephyr_3.7.0/ble_stepcount/src/main.c: the step counter shared over     *)
(* Bluetooth.  Three activities touch its globals:                         *)
(*   - main, a preemptible thread: the pc below names the next statement;  *)
(*   - the host's callbacks, in cooperative threads: they preempt main     *)
(*     anywhere and run to completion, so each is one action;              *)
(*   - the step interrupt, one action.                                     *)
(***************************************************************************)
EXTENDS BtLink

CONSTANTS Modulus,    \* the counter wraps at 2^32; small here
          WriteVals   \* values the central may write

ASSUME StepAssumption == /\ Chan = {"step"}
                         /\ Modulus \in Nat \ {0}
                         /\ WriteVals \subseteq 0 .. (Modulus - 1)

VARIABLES
  pc,             \* next statement of main
  active_conn,    \* "NULL" or "conn"
  Subscribed,     \* volatile int Subscribed
  counting,       \* the step interrupt is armed
  old_stepcount,  \* local of main
  reg,            \* stepcount_value as loaded for the comparison
  regGen,         \* history: generation of reg
  noted           \* history: generation of old_stepcount

mainVars == <<pc, old_stepcount, reg, regGen, noted>>
appVars == <<active_conn, Subscribed>>
vars == <<linkVars, mainVars, appVars, counting>>

stepcount_value == val["step"]

Labels == {"begin", "enable", "ready", "register", "count", "sleep", "active",
           "compare", "assign", "flag", "notify", "hang", "exit"}

Init ==
  /\ LinkInit
  /\ pc = "begin"
  /\ active_conn = "NULL"
  /\ Subscribed = FALSE
  /\ counting = FALSE
  /\ old_stepcount = 0
  /\ reg = 0
  /\ regGen = 0
  /\ noted = 0

(***************************************************************************)
(* main                                                                    *)
(***************************************************************************)
Goto(from, to) == pc = from /\ pc' = to

LeaveLocals == UNCHANGED <<old_stepcount, reg, regGen, noted>>

\* lsm303_ll_begin: a failure hangs the program.
SensorBegin ==
  /\ Goto("begin", "enable") \/ Goto("begin", "hang")
  /\ LeaveLocals /\ UNCHANGED <<linkVars, appVars, counting>>

\* bt_enable: a failure returns from main.
BtEnable ==
  /\ Goto("enable", "ready") \/ Goto("enable", "exit")
  /\ LeaveLocals /\ UNCHANGED <<linkVars, appVars, counting>>

\* bt_ready: advertising starts, or fails and main goes on all the same.
bt_ready ==
  /\ Goto("ready", "register")
  /\ StartAdvertising \/ UNCHANGED linkVars
  /\ LeaveLocals /\ UNCHANGED <<appVars, counting>>

Register ==
  /\ Goto("register", "count")
  /\ RegisterCallbacks
  /\ LeaveLocals /\ UNCHANGED <<appVars, counting>>

\* lsm303_countSteps: a failure hangs the program.
CountSteps ==
  /\ \/ Goto("count", "sleep") /\ counting' = TRUE
     \/ Goto("count", "hang") /\ UNCHANGED counting
  /\ LeaveLocals /\ UNCHANGED <<linkVars, appVars>>

\* Mutant: old_stepcount is assigned at the end of the loop body, after the
\* notification and outside the comparison.
WakeAssigns ==
  /\ Goto("sleep", "active")
  /\ old_stepcount' = stepcount_value
  /\ noted' = gen["step"]
  /\ UNCHANGED <<reg, regGen, linkVars, appVars, counting>>

Wake ==
  /\ Goto("sleep", "active")
  /\ LeaveLocals /\ UNCHANGED <<linkVars, appVars, counting>>

TestActive ==
  /\ Goto("active", IF active_conn # "NULL" THEN "compare" ELSE "sleep")
  /\ LeaveLocals /\ UNCHANGED <<linkVars, appVars, counting>>

Compare ==
  /\ Goto("compare", IF stepcount_value # old_stepcount THEN "assign" ELSE "sleep")
  /\ reg' = stepcount_value
  /\ regGen' = gen["step"]
  /\ UNCHANGED <<old_stepcount, noted, linkVars, appVars, counting>>

\* stepcount_value is not volatile: the compiler may assign the value it
\* loaded for the comparison, or load it again.
Assign ==
  /\ Goto("assign", "flag")
  /\ \/ old_stepcount' = reg /\ noted' = regGen
     \/ old_stepcount' = stepcount_value /\ noted' = gen["step"]
  /\ UNCHANGED <<reg, regGen, linkVars, appVars, counting>>

TestSubscribed ==
  /\ Goto("flag", IF Subscribed THEN "notify" ELSE "sleep")
  /\ LeaveLocals /\ UNCHANGED <<linkVars, appVars, counting>>

\* Mutant: the notification carries the copy loaded for the comparison.
NotifyCopy ==
  /\ Goto("notify", "sleep")
  /\ \/ Reaches("step") /\ HasTxBuf /\ Send("step", FALSE, regGen)
     \/ ~Reaches("step") /\ UNCHANGED <<air, told>>
  /\ UNCHANGED <<link, registered, ccc, val, gen, since, seen>>
  /\ LeaveLocals /\ UNCHANGED <<appVars, counting>>

\* Mutant: the notification is given up when no buffer is free.
NotifyOrGiveUp ==
  /\ Goto("notify", "sleep")
  /\ \/ Notify("step")
     \/ ~HasTxBuf /\ UNCHANGED linkVars
  /\ LeaveLocals /\ UNCHANGED <<appVars, counting>>

NotifyStep ==
  /\ Goto("notify", "sleep")
  /\ Notify("step")
  /\ LeaveLocals /\ UNCHANGED <<appVars, counting>>

Main ==
  \/ SensorBegin \/ BtEnable \/ bt_ready \/ Register \/ CountSteps \/ Wake
  \/ TestActive \/ Compare \/ Assign \/ TestSubscribed \/ NotifyStep

(***************************************************************************)
(* The step interrupt                                                      *)
(***************************************************************************)
\* Mutant: a counter wider than its four bytes.
StepWithoutWrap ==
  /\ counting
  /\ Store("step", stepcount_value + 1)
  /\ UNCHANGED <<link, registered, ccc, air, told, since, seen>>
  /\ UNCHANGED <<mainVars, appVars, counting>>

stepcount_handler ==
  /\ counting
  /\ Store("step", (stepcount_value + 1) % Modulus)
  /\ UNCHANGED <<link, registered, ccc, air, told, since, seen>>
  /\ UNCHANGED <<mainVars, appVars, counting>>

(***************************************************************************)
(* Callbacks of the Bluetooth host                                         *)
(***************************************************************************)
\* The host reports a connection, if the callback is registered.  (A failed
\* connection, err # 0, changes nothing.)
connected ==
  /\ LinkUp
  /\ active_conn' = IF registered THEN "conn" ELSE active_conn
  /\ UNCHANGED <<Subscribed, mainVars, counting>>

\* The link dies; the application hears of it only in the cleanup.
Drop ==
  /\ LinkDrop
  /\ UNCHANGED <<mainVars, appVars, counting>>

\* The CCC callback runs if the CCC was set; disconnected() if registered.
disconnected ==
  /\ LinkCleanup
  /\ active_conn' = IF registered THEN "NULL" ELSE active_conn
  /\ Subscribed' = IF registered \/ ccc["step"] THEN FALSE ELSE Subscribed
  /\ UNCHANGED <<mainVars, counting>>

\* Mutant: any CCC write subscribes.
NotifyChangedAny(on) ==
  /\ SetCcc("step", on)
  /\ Subscribed' = TRUE
  /\ UNCHANGED <<active_conn, mainVars, counting>>

step_notify_changed(on) ==
  /\ SetCcc("step", on)
  /\ Subscribed' = on
  /\ UNCHANGED <<active_conn, mainVars, counting>>

read_stepcount ==
  /\ ReadValue("step")
  /\ UNCHANGED <<mainVars, appVars, counting>>

\* A write of any other length than four bytes leaves the value alone and is
\* still reported as a success.
write_stepcount(v, rightSize) ==
  /\ IF rightSize THEN WriteValue("step", v, TRUE)
                  ELSE WriteValue("step", stepcount_value, FALSE)
  /\ UNCHANGED <<mainVars, appVars, counting>>

CentralReceives ==
  /\ Receive
  /\ UNCHANGED <<mainVars, appVars, counting>>

Host ==
  \/ connected \/ Drop \/ disconnected \/ read_stepcount
  \/ \E on \in BOOLEAN : step_notify_changed(on)
  \/ \E v \in WriteVals, rightSize \in BOOLEAN : write_stepcount(v, rightSize)

Next == Main \/ stepcount_handler \/ Host \/ CentralReceives

Safety == Init /\ [][Next]_vars

\* main runs whenever no callback does; the host finishes its cleanup; a live
\* link delivers.  Nothing makes steps, a central or a lost link happen.
Fairness ==
  /\ WF_vars(Main)
  /\ WF_vars(disconnected)
  /\ WF_vars(CentralReceives)

Spec == Safety /\ Fairness

(***************************************************************************)
(* Properties                                                              *)
(***************************************************************************)
TypeOK ==
  /\ LinkTypeOK
  /\ stepcount_value \in 0 .. (Modulus - 1)
  /\ pc \in Labels
  /\ active_conn \in {"NULL", "conn"}
  /\ Subscribed \in BOOLEAN
  /\ counting \in BOOLEAN
  /\ old_stepcount \in 0 .. (Modulus - 1)
  /\ reg \in 0 .. (Modulus - 1)
  /\ regGen \in Nat
  /\ noted \in Nat

\* main has stored old_stepcount and has not decided yet whether to notify.
InFlight == pc \in {"flag", "notify"}

(***************************************************************************)
(* main never believes that a subscribed central has been told a value     *)
(* that no packet has carried: when main is back at its sleep (lines       *)
(* 204-213), old_stepcount is no newer than what the central was told.     *)
(***************************************************************************)
NothingSkipped ==
  Reaches("step") /\ ~InFlight => noted <= Informed("step")

(***************************************************************************)
(* Subscribed is the application's copy of the central's CCC value: equal  *)
(* to it whenever a central is connected, whatever callbacks ran and       *)
(* whether or not they were registered in time.                            *)
(***************************************************************************)
FlagMatchesCcc == link = "connected" => (Subscribed <=> ccc["step"])

(***************************************************************************)
(* The central's knowledge is consistent with the order of events:         *)
(* packets never run backwards and never come from the future.             *)
(***************************************************************************)
PacketsInOrder ==
  /\ \A i, j \in DOMAIN air : i < j /\ air[i].ch = air[j].ch => air[i].n <= air[j].n
  /\ \A i \in DOMAIN air : /\ seen[air[i].ch] <= air[i].n
                           /\ air[i].n <= told[air[i].ch]
  /\ \A c \in Chan : told[c] <= gen[c]

(***************************************************************************)
(* The abstract promise.  A session is live when main knows of it.         *)
(***************************************************************************)
Live == Reaches("step") /\ active_conn # "NULL"

\* The counter has come back to the value main compares it with.
CameBack == noted # gen["step"] /\ old_stepcount = stepcount_value

Promise == INSTANCE Telling WITH
  Bound <- MaxGen["step"], current <- gen["step"], known <- Known("step"), live <- Live,
  excused <- CameBack

\* The central learns generations in order and never one that does not exist
\* yet (all of ble_stepcount's callbacks and its loop, lines 42-80, 204-213).
ImplementsTelling == Promise!TellSafety

(***************************************************************************)
(* A central that stays subscribed knows the last value in the end,        *)
(* whatever steps fell between the comparison, the assignment and the      *)
(* notification (lines 204-213).  The one exception is a value that comes  *)
(* back to the one main compares with (line 206).                          *)
(***************************************************************************)
KeepsTelling == Promise!Settles
=============================================================================
