---------------------------- MODULE BlePrograms ----------------------------
(***************************************************************************)
(* The small Bluetooth programs of the three generations: ble_minimal,     *)
(* ble_stepcount and microbit_ble_accel.  Each shares one characteristic.  *)
(* A program is three tables: its service, its connection callbacks and    *)
(* the statements of its main; the actions below run any of them.          *)
(* (BleStepcount is the 3.7.0 step counter in a module of its own.)        *)
(***************************************************************************)
EXTENDS BtLink

CONSTANTS Programs,   \* the programs explored
          Modulus,    \* the values wrap at 2^32; small here
          WriteVals   \* values the central may write

ASSUME ProgramsAssumption == /\ Chan = {"value"}
                             /\ Modulus \in Nat \ {0}
                             /\ WriteVals \subseteq 0 .. (Modulus - 1)

(***************************************************************************)
(* Services.  Without a CCC descriptor the host sends notifications to any *)
(* connected central.  What a write stores: an "any" length, what was      *)
(* sent; only of the "exact" length; always "four" bytes.                  *)
(***************************************************************************)
minimal260_service == [ccc |-> FALSE, write |-> "any"]
minimal310_service == [ccc |-> TRUE, write |-> "four"]
minimal370_service == [ccc |-> TRUE, write |-> "four"]
stepcount260_service == [ccc |-> FALSE, write |-> "exact"]
stepcount310_service == [ccc |-> TRUE, write |-> "exact"]
accel370_service == [ccc |-> FALSE, write |-> "none"]

(***************************************************************************)
(* connected() sets active_conn; what disconnected() clears.               *)
(***************************************************************************)
minimal260_clears == {"active_conn"}
minimal310_clears == {"active_conn"}
minimal370_clears == {"active_conn"}
stepcount260_clears == {"active_conn"}
stepcount310_clears == {"active_conn", "Subscribed"}
accel370_clears == {"active_conn"}

(***************************************************************************)
(* main, from its first call to the end of its loop, which goes back to    *)
(* its "sleep".  char_value++ is a "load" and a "store".                   *)
(***************************************************************************)
minimal260_main ==
  <<"enable", "ready", "register", "sleep", "load", "store", "active", "notify">>
minimal310_main ==
  <<"enable", "ready", "register", "sleep", "load", "store", "active", "flag", "notify">>
minimal370_main ==
  <<"enable", "ready", "register", "sleep", "load", "store", "active", "flag", "notify">>
stepcount260_main ==
  <<"begin", "enable", "ready", "register", "count",
    "sleep", "active", "compare", "assign", "notify">>
stepcount310_main ==
  <<"begin", "enable", "ready", "register", "count",
    "sleep", "active", "compare", "assign", "flag", "notify">>
accel370_main ==
  <<"begin", "buttons", "matrix", "enable", "ready", "register", "sleep", "sample">>

Program ==
  [minimal260 |-> [service |-> minimal260_service, clears |-> minimal260_clears,
                   main |-> minimal260_main],
   minimal310 |-> [service |-> minimal310_service, clears |-> minimal310_clears,
                   main |-> minimal310_main],
   minimal370 |-> [service |-> minimal370_service, clears |-> minimal370_clears,
                   main |-> minimal370_main],
   stepcount260 |-> [service |-> stepcount260_service, clears |-> stepcount260_clears,
                     main |-> stepcount260_main],
   stepcount310 |-> [service |-> stepcount310_service, clears |-> stepcount310_clears,
                     main |-> stepcount310_main],
   accel370 |-> [service |-> accel370_service, clears |-> accel370_clears,
                 main |-> accel370_main]]

ASSUME KnownPrograms == Programs \subseteq DOMAIN Program

VARIABLES
  program,        \* the program on the board
  pc,             \* next statement of main
  active_conn,    \* "NULL" or "conn"
  Subscribed,     \* volatile int Subscribed; FALSE where there is none
  counting,       \* the step interrupt is armed
  reg,            \* the value as loaded by "load" or "compare"
  regGen,         \* history: generation of reg
  old_stepcount,  \* local of main
  noted           \* history: generation of old_stepcount

mainVars == <<pc, counting, reg, regGen, old_stepcount, noted>>
appVars == <<active_conn, Subscribed>>
vars == <<program, linkVars, mainVars, appVars>>

this == Program[program]
service == this.service
value == val["value"]

Init ==
  /\ LinkInit
  /\ program \in Programs
  /\ pc = this.main[1]
  /\ active_conn = "NULL"
  /\ Subscribed = FALSE
  /\ counting = FALSE
  /\ reg = 0 /\ regGen = 0
  /\ old_stepcount = 0 /\ noted = 0

(***************************************************************************)
(* main                                                                    *)
(***************************************************************************)
Following(s) ==
  LET i == CHOOSE j \in DOMAIN this.main : this.main[j] = s
  IN  IF i = Len(this.main) THEN "sleep" ELSE this.main[i + 1]

Goto(s) == pc = s /\ pc' = Following(s)

\* if (test) around the rest of the loop.
Test(s, test) == pc = s /\ pc' = IF test THEN Following(s) ELSE "sleep"

LeaveLocals == UNCHANGED <<reg, regGen, old_stepcount, noted>>
LeaveMain == LeaveLocals /\ UNCHANGED <<program, counting>>

\* lsm303_ll_begin, buttons_begin, matrix_begin: a failure hangs the program.
Begin ==
  /\ \E s \in {"begin", "buttons", "matrix"} : Goto(s) \/ (pc = s /\ pc' = "hang")
  /\ LeaveMain /\ UNCHANGED <<linkVars, appVars>>

\* bt_enable: a failure returns from main.
BtEnable ==
  /\ Goto("enable") \/ (pc = "enable" /\ pc' = "exit")
  /\ LeaveMain /\ UNCHANGED <<linkVars, appVars>>

\* bt_ready: advertising starts, or fails and main goes on all the same.
bt_ready ==
  /\ Goto("ready")
  /\ StartAdvertising \/ UNCHANGED linkVars
  /\ LeaveMain /\ UNCHANGED appVars

Register ==
  /\ Goto("register")
  /\ RegisterCallbacks
  /\ LeaveMain /\ UNCHANGED appVars

\* lsm303_countSteps: a failure hangs the program.
CountSteps ==
  /\ \/ Goto("count") /\ counting' = TRUE
     \/ pc = "count" /\ pc' = "hang" /\ UNCHANGED counting
  /\ LeaveLocals /\ UNCHANGED <<program, linkVars, appVars>>

Wake ==
  /\ Goto("sleep")
  /\ LeaveMain /\ UNCHANGED <<linkVars, appVars>>

\* The value in memory is read into a register.
Loads ==
  /\ reg' = value /\ regGen' = gen["value"]
  /\ UNCHANGED <<program, counting, old_stepcount, noted, linkVars, appVars>>

Load == Goto("load") /\ Loads

\* The exploration ends at MaxGen changes: then main loops without storing.
Stores(v) ==
  /\ Store("value", v) \/ (gen["value"] = MaxGen["value"] /\ UNCHANGED <<val, gen>>)
  /\ UNCHANGED <<link, registered, ccc, air, told, since, seen>>
  /\ LeaveMain /\ UNCHANGED appVars

Increment == Goto("store") /\ Stores((reg + 1) % Modulus)

\* x_accel = lsm303_ll_readAccelX().
Sample == Goto("sample") /\ \E v \in 0 .. (Modulus - 1) : Stores(v)

TestActive ==
  /\ Test("active", active_conn # "NULL")
  /\ LeaveMain /\ UNCHANGED <<linkVars, appVars>>

Compare == Test("compare", value # old_stepcount) /\ Loads

\* The counter is not volatile: the compiler may assign the value it loaded
\* for the comparison, or load it again.
Assign ==
  /\ Goto("assign")
  /\ \/ old_stepcount' = reg /\ noted' = regGen
     \/ old_stepcount' = value /\ noted' = gen["value"]
  /\ UNCHANGED <<program, counting, reg, regGen, linkVars, appVars>>

TestSubscribed ==
  /\ Test("flag", Subscribed)
  /\ LeaveMain /\ UNCHANGED <<linkVars, appVars>>

\* The host sends to a central that is connected and, if it can say so, has
\* subscribed; it blocks while no buffer is free.
Receptive == link = "connected" /\ (service.ccc => ccc["value"])

Notifies(n) ==
  /\ Goto("notify")
  /\ \/ Receptive /\ HasTxBuf /\ Send("value", FALSE, n)
     \/ ~Receptive /\ UNCHANGED <<air, told>>
  /\ UNCHANGED <<link, registered, ccc, val, gen, since, seen>>
  /\ LeaveMain /\ UNCHANGED appVars

\* Mutant: the notification carries the value loaded earlier.
NotifyLoaded == Notifies(regGen)

\* Mutant: the notification is given up when no buffer is free.
NotifyOrGiveUp ==
  \/ Notifies(gen["value"])
  \/ Goto("notify") /\ ~HasTxBuf /\ LeaveMain /\ UNCHANGED <<linkVars, appVars>>

NotifyValue == Notifies(gen["value"])

Main ==
  \/ Begin \/ BtEnable \/ bt_ready \/ Register \/ CountSteps \/ Wake \/ Load
  \/ Increment \/ Sample \/ TestActive \/ Compare \/ Assign \/ TestSubscribed
  \/ NotifyValue

(***************************************************************************)
(* The step interrupt                                                      *)
(***************************************************************************)
stepcount_handler ==
  /\ counting
  /\ Store("value", (value + 1) % Modulus)
  /\ UNCHANGED <<link, registered, ccc, air, told, since, seen>>
  /\ UNCHANGED <<program, mainVars, appVars>>

(***************************************************************************)
(* Callbacks of the Bluetooth host                                         *)
(***************************************************************************)
\* To a central that need not subscribe, the value at the connection is no news.
connected ==
  /\ link = "advertising" /\ link' = "connected"
  /\ since' = IF service.ccc THEN since ELSE gen
  /\ active_conn' = IF registered THEN "conn" ELSE active_conn
  /\ UNCHANGED <<registered, ccc, val, air, gen, told, seen>>
  /\ UNCHANGED <<program, Subscribed, mainVars>>

Drop ==
  /\ LinkDrop
  /\ UNCHANGED <<program, mainVars, appVars>>

\* Mutant: neither disconnected() nor the CCC callback is called.
DisconnectedKeeps ==
  /\ LinkCleanup
  /\ UNCHANGED <<program, active_conn, Subscribed, mainVars>>

\* The CCC callback runs if the CCC was set; disconnected() if registered.
disconnected ==
  /\ LinkCleanup
  /\ active_conn' = IF registered /\ "active_conn" \in this.clears THEN "NULL" ELSE active_conn
  /\ Subscribed' = IF ccc["value"] \/ (registered /\ "Subscribed" \in this.clears)
                   THEN FALSE ELSE Subscribed
  /\ UNCHANGED <<program, mainVars>>

subscribe_changed(on) ==
  /\ service.ccc
  /\ SetCcc("value", on)
  /\ Subscribed' = on
  /\ UNCHANGED <<program, active_conn, mainVars>>

read ==
  /\ ReadValue("value")
  /\ UNCHANGED <<program, mainVars, appVars>>

\* A write of another length changes a part of the value, nothing, or (four
\* bytes are copied whatever was sent) more than was sent.  Longer writes to
\* minimal260 are left out.
write(v, rightSize) ==
  /\ service.write # "none"
  /\ IF rightSize \/ service.write # "exact" THEN WriteValue("value", v, rightSize)
     ELSE WriteValue("value", value, FALSE)
  /\ UNCHANGED <<program, mainVars, appVars>>

CentralReceives ==
  /\ Receive
  /\ UNCHANGED <<program, mainVars, appVars>>

Host ==
  \/ connected \/ Drop \/ disconnected \/ read
  \/ \E on \in BOOLEAN : subscribe_changed(on)
  \/ \E v \in WriteVals, rightSize \in BOOLEAN : write(v, rightSize)

Next == Main \/ stepcount_handler \/ Host \/ CentralReceives

Safety == Init /\ [][Next]_vars

\* main runs whenever no callback does, the host finishes its cleanup and a
\* live link delivers.
Fairness ==
  /\ WF_vars(Main)
  /\ WF_vars(disconnected)
  /\ WF_vars(CentralReceives)

Spec == Safety /\ Fairness

(***************************************************************************)
(* Properties                                                              *)
(***************************************************************************)
(***************************************************************************)
(* Subscribed equals the central's CCC value while a central is connected, *)
(* although ble_minimal's disconnected() forgets to clear it (3.7.0/       *)
(* ble_minimal/src/main.c lines 117-134).                                  *)
(***************************************************************************)
FlagMatchesCcc == link = "connected" => (Subscribed <=> ccc["value"])

Has(s) == \E i \in DOMAIN this.main : this.main[i] = s

Live == Receptive /\ active_conn # "NULL" /\ Has("notify")

\* The counter has come back to the value main compares it with.
CameBack ==
  /\ Has("compare")
  /\ noted # gen["value"] /\ old_stepcount = value

Promise == INSTANCE Telling WITH
  Bound <- MaxGen["value"], current <- gen["value"], known <- Known("value"),
  live <- Live, excused <- CameBack

\* The central learns generations in order and never one that does not exist
\* yet, in every generation of every program.
ImplementsTelling == Promise!TellSafety

(***************************************************************************)
(* A central that stays knows the last value in the end, in every program  *)
(* that notifies, whatever falls between main's statements.                *)
(***************************************************************************)
KeepsTelling == Promise!Settles

(***************************************************************************)
(* 3.7.0/ble_minimal/src/main.c line 103: the write handler will "copy the *)
(* incoming value in the memory occupied by our characateristic variable". *)
(* The value is there: what main stores next counts on from it.            *)
(***************************************************************************)
CountsOnFromMemory == [][Increment /\ val' # val => reg = value]_vars
=============================================================================
