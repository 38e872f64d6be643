------------------------- MODULE BleStepcountProofs -------------------------
(***************************************************************************)
(* What BleStepcount guarantees for every modulus, every set of values the *)
(* central may write, every buffer size and every bound on the changes.    *)
(***************************************************************************)
EXTENDS BleStepcount, TLAPS

(***************************************************************************)
(* The inductive invariant.  Each conjunct after the types is what some    *)
(* step needs:                                                             *)
(*  - StartedInOrder, because bt_ready sets the link to "advertising"      *)
(*    whatever it was before;                                              *)
(*  - FlagIsCcc, stronger than FlagMatchesCcc, because the flag must be    *)
(*    right when a link comes up;                                          *)
(*  - NoCccUnlinked, because a new central starts unsubscribed;            *)
(*  - QueueOrdered, because a dropped link falls back to what the central  *)
(*    has seen, which is whatever packet it received last;                 *)
(*  - HistoryOrdered, because a notification carries the newest value.     *)
(***************************************************************************)
StartedInOrder == pc \in {"begin", "enable", "ready"} => link = "off"

FlagIsCcc == Subscribed = ccc["step"]

NoCccUnlinked == link \in {"off", "advertising"} => ~ccc["step"]

QueueOrdered ==
  /\ \A i \in 1 .. Len(air) : seen["step"] <= air[i].n /\ air[i].n <= told["step"]
  /\ \A i, j \in 1 .. Len(air) : i < j => air[i].n <= air[j].n
  /\ seen["step"] <= told["step"]

HistoryOrdered ==
  /\ told["step"] <= gen["step"]
  /\ since["step"] <= gen["step"]
  /\ regGen <= gen["step"]
  /\ noted <= gen["step"]

IInv ==
  /\ TypeOK
  /\ StartedInOrder
  /\ FlagIsCcc
  /\ NoCccUnlinked
  /\ QueueOrdered
  /\ HistoryOrdered
  /\ NothingSkipped

-----------------------------------------------------------------------------
(***************************************************************************)
(* Facts about the queue of packets.                                       *)
(***************************************************************************)
LEMMA AppendFacts ==
  ASSUME NEW S, NEW s \in Seq(S), NEW e \in S
  PROVE  /\ Append(s, e) \in Seq(S)
         /\ Len(Append(s, e)) = Len(s) + 1
         /\ \A i \in 1 .. Len(s) : Append(s, e)[i] = s[i]
         /\ Append(s, e)[Len(s) + 1] = e
  OBVIOUS

LEMMA ElementFacts ==
  ASSUME NEW S, NEW s \in Seq(S)
  PROVE  Len(s) \in Nat /\ \A i \in 1 .. Len(s) : s[i] \in S
  OBVIOUS

LEMMA TailFacts ==
  ASSUME NEW S, NEW s \in Seq(S), s # << >>
  PROVE  /\ Head(s) = s[1]
         /\ Head(s) \in S
         /\ Len(s) \in Nat \ {0}
         /\ Tail(s) \in Seq(S)
         /\ Len(Tail(s)) = Len(s) - 1
         /\ \A i \in 1 .. Len(Tail(s)) : Tail(s)[i] = s[i + 1]
  OBVIOUS

LEMMA ModRange ==
  ASSUME NEW n \in Nat, NEW m \in Nat \ {0}
  PROVE  n % m \in 0 .. (m - 1)
  OBVIOUS

LEMMA PacketStep ==
  ASSUME NEW b \in BOOLEAN, NEW n \in Nat
  PROVE  [ch |-> "step", rsp |-> b, n |-> n] \in Packet
  BY StepAssumption DEF Packet

-----------------------------------------------------------------------------
(***************************************************************************)
(* Types.                                                                  *)
(***************************************************************************)
LEMMA EmptyFacts ==
  ASSUME NEW S
  PROVE  << >> \in Seq(S) /\ Len(<< >>) = 0
  OBVIOUS

LEMMA InitTypes == Init => TypeOK
  <1> SUFFICES ASSUME Init PROVE TypeOK
    OBVIOUS
  <1>1. LinkTypeOK
    BY EmptyFacts DEF Init, LinkInit, LinkTypeOK
  <1>2. stepcount_value = 0 /\ 0 \in 0 .. (Modulus - 1)
    BY StepAssumption DEF Init, LinkInit, stepcount_value
  <1> QED BY <1>1, <1>2 DEF Init, TypeOK, Labels

\* Packets and what they say keep their types.
LEMMA SendTypes ==
  ASSUME TypeOK, NEW b \in BOOLEAN, NEW n \in Nat, Send("step", b, n)
  PROVE  air' \in Seq(Packet) /\ told' \in [Chan -> Nat]
  <1>1. air \in Seq(Packet) /\ told \in [Chan -> Nat]
    BY DEF TypeOK, LinkTypeOK
  <1>2. air' \in Seq(Packet)
    BY <1>1, PacketStep, AppendFacts DEF Send
  <1>3. told' \in [Chan -> Nat]
    BY <1>1 DEF Send
  <1> QED BY <1>2, <1>3

\* So does the counter's memory.
LEMMA StoreTypes ==
  ASSUME TypeOK, NEW v \in 0 .. (Modulus - 1), Store("step", v)
  PROVE  /\ val' \in [Chan -> Nat]
         /\ val'["step"] \in 0 .. (Modulus - 1)
         /\ gen' \in [Chan -> Nat]
         /\ gen["step"] <= gen'["step"]
  BY StepAssumption DEF TypeOK, LinkTypeOK, Store, stepcount_value

LEMMA MainTypes == TypeOK /\ Main => TypeOK'
  <1> SUFFICES ASSUME TypeOK, Main PROVE TypeOK'
    OBVIOUS
  <1> USE StepAssumption
  <1>1. CASE SensorBegin \/ BtEnable \/ CountSteps \/ Wake \/ TestActive \/ TestSubscribed
    BY <1>1, ZenonT(40)
    DEF TypeOK, LinkTypeOK, Labels, stepcount_value, linkVars, appVars, LeaveLocals, Goto,
        SensorBegin, BtEnable, CountSteps, Wake, TestActive, TestSubscribed
  <1>2. CASE bt_ready
    BY <1>2 DEF TypeOK, LinkTypeOK, Labels, stepcount_value, linkVars, appVars, LeaveLocals, Goto,
                bt_ready, StartAdvertising
  <1>3. CASE Register
    BY <1>3 DEF TypeOK, LinkTypeOK, Labels, stepcount_value, linkVars, appVars, LeaveLocals, Goto,
                Register, RegisterCallbacks
  <1>4. CASE Compare \/ Assign
    BY <1>4 DEF TypeOK, LinkTypeOK, Labels, stepcount_value, linkVars, appVars, Goto,
                Compare, Assign
  <1>5. CASE NotifyStep
    <2>1. gen["step"] \in Nat
      BY DEF TypeOK, LinkTypeOK
    <2>2. air' \in Seq(Packet) /\ told' \in [Chan -> Nat]
      <3>1. CASE Send("step", FALSE, gen["step"])
        BY <2>1, <3>1, SendTypes
      <3>2. CASE UNCHANGED <<air, told>>
        BY <3>2 DEF TypeOK, LinkTypeOK
      <3> QED BY <1>5, <3>1, <3>2 DEF NotifyStep, Notify
    <2> QED BY <1>5, <2>2 DEF TypeOK, LinkTypeOK, Labels, stepcount_value, appVars, LeaveLocals, Goto,
                              NotifyStep, Notify
  <1> QED BY <1>1, <1>2, <1>3, <1>4, <1>5 DEF Main

LEMMA HandlerTypes == TypeOK /\ stepcount_handler => TypeOK'
  <1> SUFFICES ASSUME TypeOK, stepcount_handler PROVE TypeOK'
    OBVIOUS
  <1>1. (stepcount_value + 1) % Modulus \in 0 .. (Modulus - 1)
    BY ModRange, StepAssumption DEF TypeOK
  <1>2. /\ val' \in [Chan -> Nat]
        /\ val'["step"] \in 0 .. (Modulus - 1)
        /\ gen' \in [Chan -> Nat]
    BY <1>1, StoreTypes DEF stepcount_handler
  <1> QED BY <1>2 DEF TypeOK, LinkTypeOK, stepcount_value, mainVars, appVars, stepcount_handler

LEMMA HostTypes == TypeOK /\ Host => TypeOK'
  <1> SUFFICES ASSUME TypeOK, Host PROVE TypeOK'
    OBVIOUS
  <1> USE StepAssumption
  <1>0. told["step"] \in Nat /\ gen["step"] \in Nat
    BY DEF TypeOK, LinkTypeOK
  <1>1. CASE connected \/ Drop \/ disconnected
    <2>1. LinkTypeOK'
      BY <1>1, EmptyFacts DEF TypeOK, LinkTypeOK, connected, LinkUp, Drop, LinkDrop,
                              disconnected, LinkCleanup
    <2>2. active_conn' \in {"NULL", "conn"} /\ Subscribed' \in BOOLEAN
      BY <1>1 DEF TypeOK, appVars, connected, Drop, disconnected
    <2>3. UNCHANGED <<val, mainVars, counting>>
      BY <1>1 DEF connected, LinkUp, Drop, LinkDrop, disconnected, LinkCleanup
    <2> QED BY <2>1, <2>2, <2>3 DEF TypeOK, stepcount_value, mainVars
  <1>2. CASE read_stepcount
    <2>1. Send("step", TRUE, gen["step"])
      BY <1>2 DEF read_stepcount, ReadValue
    <2>2. air' \in Seq(Packet) /\ told' \in [Chan -> Nat]
      BY <1>0, <2>1, SendTypes
    <2> QED BY <1>2, <2>2 DEF TypeOK, LinkTypeOK, stepcount_value, mainVars, appVars,
                              read_stepcount, ReadValue
  <1>3. ASSUME NEW on \in BOOLEAN, step_notify_changed(on) PROVE TypeOK'
    <2>1. Send("step", TRUE, told["step"])
      BY <1>3 DEF step_notify_changed, SetCcc
    <2>2. air' \in Seq(Packet) /\ told' \in [Chan -> Nat]
      BY <1>0, <2>1, SendTypes
    <2> QED BY <1>3, <2>2 DEF TypeOK, LinkTypeOK, stepcount_value, mainVars,
                              step_notify_changed, SetCcc
  <1>4. ASSUME NEW v \in WriteVals, NEW rightSize \in BOOLEAN, write_stepcount(v, rightSize)
        PROVE  TypeOK'
    <2>1. PICK w \in 0 .. (Modulus - 1), informs \in BOOLEAN : WriteValue("step", w, informs)
      BY <1>4 DEF write_stepcount, TypeOK
    <2>2. /\ val' \in [Chan -> Nat]
          /\ val'["step"] \in 0 .. (Modulus - 1)
          /\ gen' \in [Chan -> Nat]
      BY <2>1, StoreTypes DEF WriteValue
    <2>3. PICK n \in Nat : Send("step", TRUE, n)
      BY <1>0, <2>1, <2>2 DEF WriteValue
    <2>4. air' \in Seq(Packet) /\ told' \in [Chan -> Nat]
      BY <2>3, SendTypes
    <2>5. UNCHANGED <<mainVars, appVars, counting, link, registered, ccc, since, seen>>
      BY <1>4, <2>1 DEF write_stepcount, WriteValue
    <2> QED BY <2>2, <2>4, <2>5 DEF TypeOK, LinkTypeOK, stepcount_value, mainVars, appVars
  <1> QED BY <1>1, <1>2, <1>3, <1>4 DEF Host

LEMMA ReceiveTypes == TypeOK /\ CentralReceives => TypeOK'
  <1> SUFFICES ASSUME TypeOK, CentralReceives PROVE TypeOK'
    OBVIOUS
  <1>1. air \in Seq(Packet) /\ air # << >>
    BY DEF TypeOK, LinkTypeOK, CentralReceives, Receive
  <1>2. Head(air) \in Packet /\ Tail(air) \in Seq(Packet)
    BY <1>1, TailFacts
  <1>3. air' \in Seq(Packet) /\ seen' \in [Chan -> Nat]
    BY <1>2 DEF TypeOK, LinkTypeOK, CentralReceives, Receive, Packet
  <1> QED BY <1>3 DEF TypeOK, LinkTypeOK, stepcount_value, mainVars, appVars, CentralReceives, Receive

LEMMA StutterTypes == TypeOK /\ UNCHANGED vars => TypeOK'
  BY DEF TypeOK, LinkTypeOK, stepcount_value, vars, linkVars, mainVars, appVars

LEMMA NextTypes == TypeOK /\ [Next]_vars => TypeOK'
  BY MainTypes, HandlerTypes, HostTypes, ReceiveTypes, StutterTypes DEF Next

(***************************************************************************)
(* Every variable keeps its type: the counter never leaves its width and   *)
(* main never leaves its statements.                                       *)
(***************************************************************************)
THEOREM TypeCorrect == Safety => []TypeOK
  BY InitTypes, NextTypes, PTL DEF Safety

-----------------------------------------------------------------------------
(***************************************************************************)
(* Start-up and the subscription flag.                                     *)
(***************************************************************************)
LEMMA StartStep == TypeOK /\ StartedInOrder /\ [Next]_vars => StartedInOrder'
  <1> SUFFICES ASSUME TypeOK, StartedInOrder, [Next]_vars PROVE StartedInOrder'
    OBVIOUS
  <1>1. CASE Main
    BY <1>1 DEF StartedInOrder, Main, SensorBegin, BtEnable, bt_ready, Register, CountSteps, Wake,
                TestActive, Compare, Assign, TestSubscribed, NotifyStep, Notify, Goto, linkVars
  <1>2. CASE UNCHANGED pc /\ (UNCHANGED link \/ link # "off")
    BY <1>2 DEF StartedInOrder
  <1>3. CASE Host
    BY <1>2, <1>3 DEF Host, connected, LinkUp, Drop, LinkDrop, disconnected, LinkCleanup, CanRequest,
                      read_stepcount, ReadValue, step_notify_changed, SetCcc,
                      write_stepcount, WriteValue, mainVars
  <1>4. CASE stepcount_handler \/ CentralReceives \/ UNCHANGED vars
    BY <1>2, <1>4 DEF stepcount_handler, CentralReceives, Receive, vars, linkVars, mainVars
  <1> QED BY <1>1, <1>3, <1>4 DEF Next

\* Steps that touch neither the link nor the flag and its original.
LEMMA FlagFrame ==
  ASSUME FlagIsCcc, NoCccUnlinked, UNCHANGED <<link, ccc, Subscribed>>
  PROVE  FlagIsCcc' /\ NoCccUnlinked'
  BY DEF FlagIsCcc, NoCccUnlinked

LEMMA FlagStep ==
  TypeOK /\ StartedInOrder /\ FlagIsCcc /\ NoCccUnlinked /\ [Next]_vars
    => FlagIsCcc' /\ NoCccUnlinked'
  <1> SUFFICES ASSUME TypeOK, StartedInOrder, FlagIsCcc, NoCccUnlinked, [Next]_vars
               PROVE  FlagIsCcc' /\ NoCccUnlinked'
    OBVIOUS
  <1> USE StepAssumption
  <1>1. CASE Main
    <2>1. CASE bt_ready
      BY <2>1 DEF StartedInOrder, FlagIsCcc, NoCccUnlinked, bt_ready, Goto, StartAdvertising,
                  linkVars, appVars
    <2>2. CASE ~bt_ready
      <3>1. UNCHANGED <<link, ccc, Subscribed>>
        BY <1>1, <2>2 DEF Main, SensorBegin, BtEnable, Register, RegisterCallbacks, CountSteps,
             Wake, TestActive, Compare, Assign, TestSubscribed, NotifyStep, Notify, linkVars, appVars
      <3> QED BY <3>1, FlagFrame
    <2> QED BY <2>1, <2>2
  <1>2. CASE connected \/ Drop
    BY <1>2 DEF FlagIsCcc, NoCccUnlinked, connected, LinkUp, Drop, LinkDrop, appVars
  <1>3. CASE disconnected
    BY <1>3 DEF FlagIsCcc, NoCccUnlinked, disconnected, LinkCleanup, TypeOK, LinkTypeOK
  <1>4. ASSUME NEW on \in BOOLEAN, step_notify_changed(on) PROVE FlagIsCcc' /\ NoCccUnlinked'
    <2>1. ccc'["step"] = on /\ link' = "connected"
      BY <1>4 DEF step_notify_changed, SetCcc, CanRequest, TypeOK, LinkTypeOK
    <2> QED BY <1>4, <2>1 DEF FlagIsCcc, NoCccUnlinked, step_notify_changed
  <1>5. CASE read_stepcount \/ \E v \in WriteVals, s \in BOOLEAN : write_stepcount(v, s)
    <2>1. UNCHANGED <<link, ccc, Subscribed>>
      BY <1>5 DEF read_stepcount, ReadValue, write_stepcount, WriteValue, appVars
    <2> QED BY <2>1, FlagFrame
  <1>6. CASE stepcount_handler \/ CentralReceives \/ UNCHANGED vars
    <2>1. UNCHANGED <<link, ccc, Subscribed>>
      BY <1>6 DEF stepcount_handler, CentralReceives, Receive, vars, linkVars, appVars
    <2> QED BY <2>1, FlagFrame
  <1> QED BY <1>1, <1>2, <1>3, <1>4, <1>5, <1>6 DEF Next, Host

-----------------------------------------------------------------------------
(***************************************************************************)
(* The order of what the central is told.                                  *)
(***************************************************************************)
\* A packet that carries nothing older than the last one keeps the order.
LEMMA SendOrdered ==
  ASSUME TypeOK, QueueOrdered, NEW b \in BOOLEAN, NEW n \in Nat,
         told["step"] <= n, Send("step", b, n), UNCHANGED seen
  PROVE  QueueOrdered' /\ told'["step"] = n
  <1> DEFINE p == [ch |-> "step", rsp |-> b, n |-> n]
  <1>1. /\ air \in Seq(Packet) /\ p \in Packet
        /\ air' = Append(air, p) /\ p.n = n
    BY PacketStep DEF Send, TypeOK, LinkTypeOK
  <1>2. told'["step"] = n
    BY StepAssumption DEF Send, TypeOK, LinkTypeOK
  <1>3. /\ Len(air) \in Nat
        /\ Len(air') = Len(air) + 1
        /\ \A i \in 1 .. Len(air) : air'[i] = air[i]
        /\ air'[Len(air) + 1] = p
    BY <1>1, AppendFacts
  <1>4. \A i \in 1 .. Len(air) : air[i].n \in Nat
    <2>1. \A i \in 1 .. Len(air) : air[i] \in Packet
      BY <1>1, ElementFacts
    <2> QED BY <2>1 DEF Packet
  <1>5. seen["step"] \in Nat /\ told["step"] \in Nat
    BY StepAssumption DEF TypeOK, LinkTypeOK
  <1>6. \A i \in 1 .. Len(air') : seen'["step"] <= air'[i].n /\ air'[i].n <= told'["step"]
    <2> SUFFICES ASSUME NEW i \in 1 .. Len(air')
                 PROVE  seen'["step"] <= air'[i].n /\ air'[i].n <= told'["step"]
      OBVIOUS
    <2>1. CASE i \in 1 .. Len(air)
      BY <1>2, <1>3, <1>4, <1>5, <2>1 DEF QueueOrdered
    <2>2. CASE i = Len(air) + 1
      BY <1>1, <1>2, <1>3, <1>5, <2>2 DEF QueueOrdered
    <2> QED BY <1>3, <2>1, <2>2
  <1>7. \A i, j \in 1 .. Len(air') : i < j => air'[i].n <= air'[j].n
    <2> SUFFICES ASSUME NEW i \in 1 .. Len(air'), NEW j \in 1 .. Len(air'), i < j
                 PROVE  air'[i].n <= air'[j].n
      OBVIOUS
    <2>1. i \in 1 .. Len(air)
      BY <1>3
    <2>2. CASE j \in 1 .. Len(air)
      BY <1>3, <2>1, <2>2 DEF QueueOrdered
    <2>3. CASE j = Len(air) + 1
      BY <1>1, <1>3, <1>4, <1>5, <2>1, <2>3 DEF QueueOrdered
    <2> QED BY <1>3, <2>2, <2>3
  <1> QED BY <1>2, <1>5, <1>6, <1>7 DEF QueueOrdered

LEMMA ReceiveOrdered ==
  ASSUME TypeOK, QueueOrdered, CentralReceives
  PROVE  QueueOrdered' /\ seen["step"] <= seen'["step"] /\ seen'["step"] <= told["step"]
  <1>1. air \in Seq(Packet) /\ air # << >> /\ air' = Tail(air) /\ UNCHANGED told
    BY DEF CentralReceives, Receive, TypeOK, LinkTypeOK
  <1>2. /\ Head(air) = air[1] /\ Head(air) \in Packet
        /\ Len(air) \in Nat \ {0}
        /\ Len(air') = Len(air) - 1
        /\ \A i \in 1 .. Len(air') : air'[i] = air[i + 1]
    BY <1>1, TailFacts
  <1>3. seen'["step"] = air[1].n
    BY <1>2, StepAssumption DEF CentralReceives, Receive, TypeOK, LinkTypeOK, Packet
  <1>4. \A i \in 1 .. Len(air) : air[i].n \in Nat
    <2>1. \A i \in 1 .. Len(air) : air[i] \in Packet
      BY <1>1, ElementFacts
    <2> QED BY <2>1 DEF Packet
  <1>5. \A i \in 1 .. Len(air') : seen'["step"] <= air'[i].n /\ air'[i].n <= told["step"]
    <2> SUFFICES ASSUME NEW i \in 1 .. Len(air')
                 PROVE  seen'["step"] <= air'[i].n /\ air'[i].n <= told["step"]
      OBVIOUS
    <2>1. 1 \in 1 .. Len(air) /\ i + 1 \in 1 .. Len(air) /\ 1 < i + 1 /\ air'[i] = air[i + 1]
      BY <1>2
    <2> QED BY <1>3, <2>1 DEF QueueOrdered
  <1>6. \A i, j \in 1 .. Len(air') : i < j => air'[i].n <= air'[j].n
    BY <1>2 DEF QueueOrdered
  <1>7. seen["step"] <= air[1].n /\ air[1].n <= told["step"]
    BY <1>2 DEF QueueOrdered
  <1> QED BY <1>1, <1>3, <1>5, <1>6, <1>7 DEF QueueOrdered

LEMMA QueueStep ==
  TypeOK /\ QueueOrdered /\ HistoryOrdered /\ [Next]_vars => QueueOrdered'
  <1> SUFFICES ASSUME TypeOK, QueueOrdered, HistoryOrdered, [Next]_vars PROVE QueueOrdered'
    OBVIOUS
  <1>0. told["step"] \in Nat /\ gen["step"] \in Nat /\ seen["step"] \in Nat
    BY StepAssumption DEF TypeOK, LinkTypeOK
  <1>1. CASE UNCHANGED <<air, told, seen>>
    BY <1>1 DEF QueueOrdered
  <1>2. ASSUME NEW b \in BOOLEAN, NEW n \in Nat, told["step"] <= n, Send("step", b, n), UNCHANGED seen
        PROVE  QueueOrdered'
    BY <1>2, SendOrdered
  <1>3. CASE Main
    <2>1. CASE NotifyStep
      BY <1>0, <1>1, <1>2, <2>1 DEF NotifyStep, Notify, HistoryOrdered
    <2>2. CASE ~NotifyStep
      BY <1>1, <1>3, <2>2 DEF Main, SensorBegin, BtEnable, bt_ready, StartAdvertising, Register,
           RegisterCallbacks, CountSteps, Wake, TestActive, Compare, Assign, TestSubscribed, linkVars
    <2> QED BY <2>1, <2>2
  <1>4. CASE connected \/ disconnected \/ stepcount_handler \/ UNCHANGED vars
    BY <1>1, <1>4 DEF connected, LinkUp, disconnected, LinkCleanup, stepcount_handler, vars, linkVars
  <1>5. CASE Drop
    <2>1. air' = << >> /\ told' = seen /\ seen' = seen
      BY <1>5 DEF Drop, LinkDrop
    <2>2. 1 .. Len(air') = {}
      BY <2>1, EmptyFacts
    <2> QED BY <1>0, <2>1, <2>2 DEF QueueOrdered
  <1>6. CASE read_stepcount
    BY <1>0, <1>2, <1>6 DEF read_stepcount, ReadValue, HistoryOrdered
  <1>7. ASSUME NEW on \in BOOLEAN, step_notify_changed(on) PROVE QueueOrdered'
    <2>1. Send("step", TRUE, told["step"]) /\ UNCHANGED seen
      BY <1>7 DEF step_notify_changed, SetCcc
    <2>2. told["step"] <= told["step"]
      BY <1>0
    <2> QED BY <1>0, <1>2, <2>1, <2>2
  <1>8. ASSUME NEW v \in WriteVals, NEW s \in BOOLEAN, write_stepcount(v, s) PROVE QueueOrdered'
    <2>1. PICK w \in 0 .. (Modulus - 1), informs \in BOOLEAN : WriteValue("step", w, informs)
      BY <1>8, StepAssumption DEF write_stepcount, TypeOK
    <2>2. gen'["step"] \in Nat /\ gen["step"] <= gen'["step"]
      BY <2>1, StoreTypes, StepAssumption DEF WriteValue
    <2>3. PICK n \in {told["step"], gen'["step"]} : Send("step", TRUE, n) /\ UNCHANGED seen
      BY <2>1 DEF WriteValue
    <2>4. n \in Nat /\ told["step"] <= n
      BY <1>0, <2>2 DEF HistoryOrdered
    <2> QED BY <1>2, <2>3, <2>4
  <1>9. CASE CentralReceives
    BY <1>9, ReceiveOrdered
  <1> QED BY <1>3, <1>4, <1>5, <1>6, <1>7, <1>8, <1>9 DEF Next, Host

LEMMA SendTold ==
  ASSUME TypeOK, NEW b \in BOOLEAN, NEW n \in Nat, Send("step", b, n)
  PROVE  told'["step"] = n
  BY StepAssumption DEF Send, TypeOK, LinkTypeOK

\* A write by the central tells it the new value, or nothing.
LEMMA WriteFacts ==
  ASSUME TypeOK, NEW v \in WriteVals, NEW s \in BOOLEAN, write_stepcount(v, s)
  PROVE  /\ gen'["step"] \in Nat
         /\ gen["step"] <= gen'["step"]
         /\ told'["step"] \in {told["step"], gen'["step"]}
         /\ UNCHANGED <<link, ccc, since, seen, pc, regGen, noted>>
  <1>1. PICK w \in 0 .. (Modulus - 1), informs \in BOOLEAN : WriteValue("step", w, informs)
    BY StepAssumption DEF write_stepcount, TypeOK
  <1>2. gen'["step"] \in Nat /\ gen["step"] <= gen'["step"]
    BY <1>1, StoreTypes, StepAssumption DEF WriteValue
  <1>3. told["step"] \in Nat
    BY StepAssumption DEF TypeOK, LinkTypeOK
  <1>4. PICK n \in {told["step"], gen'["step"]} : Send("step", TRUE, n)
    BY <1>1 DEF WriteValue
  <1>5. told'["step"] = n
    BY <1>2, <1>3, <1>4, SendTold
  <1>6. UNCHANGED <<link, ccc, since, seen, pc, regGen, noted>>
    BY <1>1 DEF write_stepcount, WriteValue, mainVars
  <1> QED BY <1>2, <1>4, <1>5, <1>6

\* The CCC callback: a new subscription starts at the current generation.
LEMMA CccFacts ==
  ASSUME TypeOK, HistoryOrdered, NEW on \in BOOLEAN, step_notify_changed(on)
  PROVE  /\ told'["step"] = told["step"]
         /\ ccc'["step"] = on
         /\ since'["step"] = IF on /\ ~ccc["step"] THEN gen["step"] ELSE since["step"]
         /\ UNCHANGED <<link, gen, seen, pc, regGen, noted>>
  <1>1. told["step"] \in Nat
    BY StepAssumption DEF TypeOK, LinkTypeOK
  <1>2. told'["step"] = told["step"]
    BY <1>1, SendTold DEF step_notify_changed, SetCcc
  <1> QED BY <1>2, StepAssumption DEF step_notify_changed, SetCcc, mainVars, TypeOK, LinkTypeOK

LEMMA HistoryStep ==
  TypeOK /\ QueueOrdered /\ HistoryOrdered /\ [Next]_vars => HistoryOrdered'
  <1> SUFFICES ASSUME TypeOK, QueueOrdered, HistoryOrdered, [Next]_vars PROVE HistoryOrdered'
    OBVIOUS
  <1>0. /\ told["step"] \in Nat /\ gen["step"] \in Nat /\ seen["step"] \in Nat
        /\ since["step"] \in Nat /\ regGen \in Nat /\ noted \in Nat
    BY StepAssumption DEF TypeOK, LinkTypeOK
  <1>1. CASE UNCHANGED <<told, gen, since, regGen, noted>>
    BY <1>1 DEF HistoryOrdered
  <1>2. CASE Main
    <2>1. CASE Compare \/ Assign
      BY <1>0, <2>1 DEF Compare, Assign, linkVars, HistoryOrdered
    <2>2. CASE NotifyStep
      <3>1. told'["step"] \in {told["step"], gen["step"]}
        BY <1>0, <2>2, SendTold DEF NotifyStep, Notify
      <3>2. UNCHANGED <<gen, since, regGen, noted>>
        BY <2>2 DEF NotifyStep, Notify, LeaveLocals
      <3> QED BY <1>0, <3>1, <3>2 DEF HistoryOrdered
    <2>3. CASE ~Compare /\ ~Assign /\ ~NotifyStep
      BY <1>1, <1>2, <2>3 DEF Main, SensorBegin, BtEnable, bt_ready, StartAdvertising, Register,
           RegisterCallbacks, CountSteps, Wake, TestActive, TestSubscribed, LeaveLocals, linkVars
    <2> QED BY <2>1, <2>2, <2>3
  <1>3. CASE connected \/ disconnected \/ CentralReceives \/ UNCHANGED vars
    BY <1>1, <1>3 DEF connected, LinkUp, disconnected, LinkCleanup, CentralReceives, Receive,
                      vars, linkVars, mainVars
  <1>4. CASE Drop
    BY <1>0, <1>4 DEF Drop, LinkDrop, mainVars, QueueOrdered, HistoryOrdered
  <1>5. CASE stepcount_handler
    <2>1. (stepcount_value + 1) % Modulus \in 0 .. (Modulus - 1)
      BY ModRange, StepAssumption DEF TypeOK
    <2>2. gen'["step"] \in Nat /\ gen["step"] <= gen'["step"]
      BY <1>5, <2>1, StoreTypes, StepAssumption DEF stepcount_handler
    <2> QED BY <1>0, <1>5, <2>2 DEF stepcount_handler, mainVars, HistoryOrdered
  <1>6. CASE read_stepcount
    <2>1. told'["step"] = gen["step"] /\ UNCHANGED <<gen, since, regGen, noted>>
      BY <1>0, <1>6, SendTold DEF read_stepcount, ReadValue, mainVars
    <2> QED BY <1>0, <2>1 DEF HistoryOrdered
  <1>7. ASSUME NEW on \in BOOLEAN, step_notify_changed(on) PROVE HistoryOrdered'
    BY <1>0, <1>7, CccFacts DEF HistoryOrdered
  <1>8. ASSUME NEW v \in WriteVals, NEW s \in BOOLEAN, write_stepcount(v, s) PROVE HistoryOrdered'
    BY <1>0, <1>8, WriteFacts DEF HistoryOrdered
  <1> QED BY <1>2, <1>3, <1>4, <1>5, <1>6, <1>7, <1>8 DEF Next, Host

-----------------------------------------------------------------------------
(***************************************************************************)
(* Nothing is skipped.                                                     *)
(***************************************************************************)
\* What the central was told only grows while it stays connected.
LEMMA SkipFrame ==
  ASSUME TypeOK, NothingSkipped, UNCHANGED noted,
         Reaches("step")' => /\ Reaches("step")
                             /\ told'["step"] \in Nat /\ told["step"] <= told'["step"]
                             /\ since'["step"] \in Nat /\ since["step"] <= since'["step"],
         InFlight => InFlight'
  PROVE  NothingSkipped'
  <1>1. told["step"] \in Nat /\ since["step"] \in Nat /\ noted \in Nat
    BY StepAssumption DEF TypeOK, LinkTypeOK
  <1> QED BY <1>1 DEF NothingSkipped, Informed, Newer

LEMMA SkipStep ==
  IInv /\ TypeOK' /\ [Next]_vars => NothingSkipped'
  <1> SUFFICES ASSUME IInv, TypeOK', [Next]_vars PROVE NothingSkipped'
    OBVIOUS
  <1>0. /\ TypeOK /\ NothingSkipped /\ HistoryOrdered /\ QueueOrdered
        /\ told["step"] \in Nat /\ gen["step"] \in Nat /\ seen["step"] \in Nat
        /\ since["step"] \in Nat /\ regGen \in Nat /\ noted \in Nat
    BY StepAssumption DEF IInv, TypeOK, LinkTypeOK
  <1>1. told'["step"] \in Nat /\ since'["step"] \in Nat
    BY StepAssumption DEF TypeOK, LinkTypeOK
  <1>2. CASE UNCHANGED <<link, ccc, told, since, noted>> /\ (InFlight => InFlight')
    BY <1>0, <1>2, SkipFrame DEF Reaches
  <1>3. CASE Main
    <2>1. CASE bt_ready
      BY <1>0, <2>1, SkipFrame DEF bt_ready, StartAdvertising, linkVars, LeaveLocals, Reaches,
                                   InFlight, Goto
    <2>2. CASE Assign
      BY <2>2 DEF Assign, Goto, NothingSkipped, InFlight
    <2>3. CASE TestSubscribed
      <3>1. UNCHANGED <<link, ccc, told, since, noted>>
        BY <2>3 DEF TestSubscribed, LeaveLocals, linkVars
      <3>2. CASE Subscribed
        BY <1>2, <2>3, <3>1, <3>2 DEF TestSubscribed, Goto, InFlight
      <3>3. CASE ~Subscribed
        BY <3>1, <3>3 DEF IInv, FlagIsCcc, NothingSkipped, Reaches
      <3> QED BY <3>2, <3>3
    <2>4. CASE NotifyStep
      <3>1. UNCHANGED <<link, ccc, gen, since, noted>>
        BY <2>4 DEF NotifyStep, Notify, LeaveLocals
      <3>2. CASE Reaches("step")
        <4>1. told'["step"] = gen["step"]
          BY <1>0, <2>4, <3>2, SendTold DEF NotifyStep, Notify
        <4> QED BY <1>0, <3>1, <4>1 DEF NothingSkipped, Informed, Newer, HistoryOrdered
      <3>3. CASE ~Reaches("step")
        BY <3>1, <3>3 DEF NothingSkipped, Reaches
      <3> QED BY <3>2, <3>3
    <2>5. CASE SensorBegin \/ BtEnable \/ Register \/ CountSteps \/ Wake \/ TestActive \/ Compare
      <3>1. UNCHANGED <<link, ccc, told, since, noted>>
        BY <2>5 DEF SensorBegin, BtEnable, Register, RegisterCallbacks, CountSteps, Wake,
                    TestActive, Compare, LeaveLocals, linkVars
      <3>2. ~InFlight
        BY <2>5 DEF SensorBegin, BtEnable, Register, CountSteps, Wake, TestActive, Compare,
                    Goto, InFlight
      <3> QED BY <1>2, <3>1, <3>2
    <2> QED BY <1>3, <2>1, <2>2, <2>3, <2>4, <2>5 DEF Main
  <1>4. CASE connected
    BY <1>4 DEF connected, LinkUp, IInv, NoCccUnlinked, NothingSkipped, Reaches
  <1>5. CASE Drop \/ disconnected
    BY <1>5 DEF Drop, LinkDrop, disconnected, LinkCleanup, NothingSkipped, Reaches
  <1>6. CASE stepcount_handler \/ CentralReceives \/ UNCHANGED vars
    BY <1>2, <1>6 DEF stepcount_handler, CentralReceives, Receive, vars, linkVars, mainVars, InFlight
  <1>7. CASE read_stepcount
    <2>1. /\ told'["step"] = gen["step"]
          /\ UNCHANGED <<link, ccc, since, pc, noted>>
      BY <1>0, <1>7, SendTold DEF read_stepcount, ReadValue, mainVars
    <2> QED BY <1>0, <2>1, SkipFrame DEF Reaches, InFlight, HistoryOrdered
  <1>8. ASSUME NEW on \in BOOLEAN, step_notify_changed(on) PROVE NothingSkipped'
    <2>1. /\ told'["step"] = told["step"] /\ ccc'["step"] = on
          /\ since'["step"] = IF on /\ ~ccc["step"] THEN gen["step"] ELSE since["step"]
          /\ UNCHANGED <<link, pc, noted>>
      BY <1>0, <1>8, CccFacts
    <2>2. CASE ~on
      BY <2>1, <2>2 DEF NothingSkipped, Reaches
    <2>3. CASE on /\ ccc["step"]
      BY <1>0, <2>1, <2>3, SkipFrame DEF Reaches, InFlight
    <2>4. CASE on /\ ~ccc["step"]
      BY <1>0, <2>1, <2>4 DEF NothingSkipped, Informed, Newer, HistoryOrdered
    <2> QED BY <2>2, <2>3, <2>4
  <1>9. ASSUME NEW v \in WriteVals, NEW s \in BOOLEAN, write_stepcount(v, s) PROVE NothingSkipped'
    <2>1. told["step"] <= told'["step"]
      BY <1>0, <1>9, WriteFacts DEF HistoryOrdered
    <2> QED BY <1>0, <1>1, <1>9, <2>1, WriteFacts, SkipFrame DEF Reaches, InFlight
  <1> QED BY <1>3, <1>4, <1>5, <1>6, <1>7, <1>8, <1>9 DEF Next, Host

-----------------------------------------------------------------------------
LEMMA InitInv == Init => IInv
  <1> SUFFICES ASSUME Init PROVE IInv
    OBVIOUS
  <1>1. TypeOK
    BY InitTypes
  <1>2. StartedInOrder /\ FlagIsCcc /\ NoCccUnlinked
    BY StepAssumption DEF Init, LinkInit, StartedInOrder, FlagIsCcc, NoCccUnlinked
  <1>3. QueueOrdered
    <2>1. 1 .. Len(air) = {}
      BY EmptyFacts DEF Init, LinkInit
    <2> QED BY <2>1, StepAssumption DEF Init, LinkInit, QueueOrdered
  <1>4. HistoryOrdered
    BY StepAssumption DEF Init, LinkInit, HistoryOrdered
  <1>5. NothingSkipped
    BY DEF Init, LinkInit, NothingSkipped, Reaches
  <1> QED BY <1>1, <1>2, <1>3, <1>4, <1>5 DEF IInv

LEMMA NextInv == IInv /\ [Next]_vars => IInv'
  BY NextTypes, StartStep, FlagStep, QueueStep, HistoryStep, SkipStep DEF IInv

LEMMA Inductive == Safety => []IInv
  BY InitInv, NextInv, PTL DEF Safety

(***************************************************************************)
(* main never believes a subscribed central was told a value that no       *)
(* packet carried (NothingSkipped), for every interleaving of the loop     *)
(* with callbacks, lost links and steps.                                   *)
(***************************************************************************)
THEOREM NeverSkips == Safety => []NothingSkipped
  <1>1. IInv => NothingSkipped
    BY DEF IInv
  <1> QED BY <1>1, Inductive, PTL

(***************************************************************************)
(* Subscribed is the connected central's CCC value.                        *)
(***************************************************************************)
THEOREM FlagCorrect == Safety => []FlagMatchesCcc
  <1>1. IInv => FlagMatchesCcc
    BY Zenon DEF IInv, FlagIsCcc, FlagMatchesCcc
  <1> QED BY <1>1, Inductive, PTL

(***************************************************************************)
(* Packets are in order and nothing is told before it exists.              *)
(***************************************************************************)
THEOREM PacketsCorrect == Safety => []PacketsInOrder
  <1>1. IInv => PacketsInOrder
    <2> SUFFICES ASSUME IInv PROVE PacketsInOrder
      OBVIOUS
    <2>1. air \in Seq(Packet) /\ DOMAIN air = 1 .. Len(air)
      BY DEF IInv, TypeOK, LinkTypeOK
    <2>2. \A i \in 1 .. Len(air) : air[i] \in Packet
      BY <2>1, ElementFacts
    <2>3. \A i \in 1 .. Len(air) : air[i].ch = "step"
      BY <2>2, StepAssumption DEF Packet
    <2> QED BY <2>1, <2>3, StepAssumption DEF IInv, QueueOrdered, HistoryOrdered, PacketsInOrder
  <1> QED BY <1>1, Inductive, PTL

-----------------------------------------------------------------------------
(***************************************************************************)
(* The refinement: each step of the program is a step of Telling for its   *)
(* one characteristic, or leaves it alone.                                 *)
(***************************************************************************)
AbsVars == <<gen["step"], Known("step"), Live>>

AbsStep == [Promise!TellNext]_AbsVars

LEMMA InitRefines == Init => Promise!TellInit
  BY StepAssumption DEF Init, LinkInit, Promise!TellInit, Known, Newer, Live, Reaches

\* The counter's memory changes one generation at a time, up to the bound.
LEMMA StoreSteps ==
  ASSUME TypeOK, NEW v, Store("step", v)
  PROVE  \/ gen'["step"] = gen["step"]
         \/ gen["step"] < MaxGen["step"] /\ gen'["step"] = gen["step"] + 1
  BY StepAssumption DEF Store, CanStore, TypeOK, LinkTypeOK

\* A step of the value alone is Change.
LEMMA ChangeRefines ==
  ASSUME UNCHANGED <<Known("step"), Live>>,
         \/ gen'["step"] = gen["step"]
         \/ gen["step"] < MaxGen["step"] /\ gen'["step"] = gen["step"] + 1
  PROVE  AbsStep
  BY DEF AbsStep, AbsVars, Promise!TellNext, Promise!Change

\* A step of the central's knowledge alone is Learn.
LEMMA LearnRefines ==
  ASSUME TypeOK, UNCHANGED <<gen, Live>>, Known("step")' \in Nat,
         Known("step") <= Known("step")', Known("step")' <= gen["step"]
  PROVE  AbsStep
  <1>1. gen["step"] \in Nat /\ seen["step"] \in Nat /\ since["step"] \in Nat
    BY StepAssumption DEF TypeOK, LinkTypeOK
  <1>2. Known("step") \in Nat
    BY <1>1 DEF Known, Newer
  <1>3. CASE Known("step")' = Known("step")
    BY <1>3 DEF AbsStep, AbsVars
  <1>4. CASE Known("step")' # Known("step")
    <2>1. /\ Known("step") < gen["step"]
          /\ Known("step")' \in (Known("step") + 1) .. gen["step"]
      BY <1>1, <1>2, <1>4
    <2> QED BY <2>1 DEF AbsStep, Promise!TellNext, Promise!Learn
  <1> QED BY <1>3, <1>4

LEMMA StepRefines == IInv /\ [Next]_vars => AbsStep
  <1> SUFFICES ASSUME IInv, [Next]_vars PROVE AbsStep
    OBVIOUS
  <1>0. /\ TypeOK /\ HistoryOrdered /\ QueueOrdered /\ NoCccUnlinked /\ StartedInOrder
        /\ gen["step"] \in Nat /\ seen["step"] \in Nat /\ since["step"] \in Nat
        /\ told["step"] \in Nat
    BY StepAssumption DEF IInv, TypeOK, LinkTypeOK
  <1>1. CASE UNCHANGED <<gen, seen, since, link, ccc, active_conn>>
    BY <1>1 DEF AbsStep, AbsVars, Known, Live, Reaches
  <1>2. CASE UNCHANGED <<gen, seen, since>> /\ ~Live'
    <2>1. UNCHANGED <<gen["step"], Known("step")>>
      BY <1>2 DEF Known
    <2>2. CASE Live
      BY <1>2, <2>1, <2>2 DEF AbsStep, Promise!TellNext, Promise!Close
    <2>3. CASE ~Live
      BY <1>2, <2>1, <2>3 DEF AbsStep, AbsVars, Live
    <2> QED BY <2>2, <2>3
  <1>3. CASE Main
    <2>1. CASE bt_ready
      BY <1>0, <1>1, <1>2, <2>1 DEF bt_ready, StartAdvertising, linkVars, appVars, Live, Reaches
    <2>2. CASE ~bt_ready
      BY <1>1, <1>3, <2>2 DEF Main, SensorBegin, BtEnable, Register, RegisterCallbacks, CountSteps,
           Wake, TestActive, Compare, Assign, TestSubscribed, NotifyStep, Notify, linkVars, appVars
    <2> QED BY <2>1, <2>2
  <1>4. CASE connected
    BY <1>0, <1>2, <1>4 DEF connected, LinkUp, NoCccUnlinked, Live, Reaches
  <1>5. CASE Drop \/ disconnected
    BY <1>2, <1>5 DEF Drop, LinkDrop, disconnected, LinkCleanup, Live, Reaches
  <1>6. CASE stepcount_handler
    <2>1. UNCHANGED <<Known("step"), Live>>
      BY <1>6 DEF stepcount_handler, appVars, Known, Live, Reaches
    <2> QED BY <1>0, <1>6, <2>1, StoreSteps, ChangeRefines DEF stepcount_handler
  <1>7. CASE read_stepcount \/ UNCHANGED vars
    BY <1>1, <1>7 DEF read_stepcount, ReadValue, vars, linkVars, appVars
  <1>8. ASSUME NEW v \in WriteVals, NEW s \in BOOLEAN, write_stepcount(v, s) PROVE AbsStep
    <2>1. PICK w, informs : WriteValue("step", w, informs)
      BY <1>8 DEF write_stepcount
    <2>2. UNCHANGED <<Known("step"), Live>>
      BY <1>8, <2>1 DEF write_stepcount, WriteValue, appVars, Known, Live, Reaches
    <2> QED BY <1>0, <2>1, <2>2, StoreSteps, ChangeRefines DEF WriteValue
  <1>9. CASE CentralReceives
    <2>1. UNCHANGED <<gen, since, link, ccc, active_conn>>
      BY <1>9 DEF CentralReceives, Receive, appVars
    <2>2. seen["step"] <= seen'["step"] /\ seen'["step"] <= told["step"]
      BY <1>0, <1>9, ReceiveOrdered
    <2>3. seen'["step"] \in Nat
      BY <1>0, <1>9, ReceiveTypes, StepAssumption DEF TypeOK, LinkTypeOK
    <2>4. /\ Known("step")' \in Nat
          /\ Known("step") <= Known("step")'
          /\ Known("step")' <= gen["step"]
      BY <1>0, <2>1, <2>2, <2>3 DEF Known, Newer, HistoryOrdered
    <2>5. UNCHANGED Live
      BY <2>1 DEF Live, Reaches
    <2> QED BY <1>0, <2>1, <2>4, <2>5, LearnRefines
  <1>10. ASSUME NEW on \in BOOLEAN, step_notify_changed(on) PROVE AbsStep
    <2>1. /\ ccc'["step"] = on
          /\ since'["step"] = IF on /\ ~ccc["step"] THEN gen["step"] ELSE since["step"]
          /\ UNCHANGED <<link, gen, seen, active_conn>>
          /\ link = "connected"
      BY <1>0, <1>10, CccFacts DEF step_notify_changed, SetCcc, CanRequest
    <2>2. CASE ~on
      <3>1. UNCHANGED <<gen["step"], Known("step")>> /\ ~Live'
        BY <2>1, <2>2 DEF Known, Live, Reaches
      <3> QED BY <3>1 DEF AbsStep, AbsVars, Promise!TellNext, Promise!Close, Live
    <2>3. CASE on /\ ccc["step"]
      BY <2>1, <2>3 DEF AbsStep, AbsVars, Known, Live, Reaches
    <2>4. CASE on /\ ~ccc["step"]
      <3>1. Known("step")' = gen["step"] /\ ~Live
        BY <1>0, <2>1, <2>4 DEF Known, Newer, Live, Reaches, HistoryOrdered, QueueOrdered
      <3>2. CASE active_conn # "NULL"
        <4>1. Live'
          BY <2>1, <2>4, <3>2 DEF Live, Reaches
        <4> QED BY <2>1, <3>1, <4>1 DEF AbsStep, Promise!TellNext, Promise!Open
      <3>3. CASE active_conn = "NULL"
        <4>1. UNCHANGED <<gen, Live>>
          BY <2>1, <3>1, <3>3 DEF Live
        <4>2. Known("step") <= gen["step"]
          BY <1>0 DEF Known, Newer, HistoryOrdered, QueueOrdered
        <4> QED BY <1>0, <3>1, <4>1, <4>2, LearnRefines
      <3> QED BY <3>2, <3>3
    <2> QED BY <2>2, <2>3, <2>4
  <1> QED BY <1>3, <1>4, <1>5, <1>6, <1>7, <1>8, <1>9, <1>10 DEF Next, Host

(***************************************************************************)
(* ble_stepcount implements the abstract promise: its central learns       *)
(* generations of the counter in order and never one from the future.      *)
(***************************************************************************)
THEOREM Refinement == Safety => ImplementsTelling
  BY InitRefines, StepRefines, Inductive, PTL
     DEF Safety, ImplementsTelling, Promise!TellSafety, Promise!tellVars, AbsStep, AbsVars
=============================================================================
