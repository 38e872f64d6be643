-------------------------- MODULE BleProgramsProofs --------------------------
(***************************************************************************)
(* The small Bluetooth programs, for any set of them, any modulus, any     *)
(* bound on the changes and any number of transmit buffers: the flag       *)
(* agrees with the host, and every program implements Telling.             *)
(***************************************************************************)
EXTENDS BlePrograms, BtLinkProofs

Words == {"begin", "buttons", "matrix", "enable", "ready", "register", "count", "sleep", "load",
          "store", "active", "compare", "assign", "flag", "notify", "sample"}

\* The statements up to the start of advertising.
Early == {"begin", "buttons", "matrix", "enable", "ready"}

OnMain == (\E i \in DOMAIN this.main : pc = this.main[i]) \/ pc \in {"hang", "exit"}

StartedInOrder == pc \in Early => link = "off"

FlagIsCcc == Subscribed = ccc["value"]

NoCccUnlinked == link \in {"off", "advertising"} => ~ccc["value"]

ProgramsInv ==
  /\ LinkInv
  /\ program \in Programs
  /\ reg \in Nat
  /\ OnMain
  /\ StartedInOrder
  /\ FlagIsCcc
  /\ NoCccUnlinked

-----------------------------------------------------------------------------
(***************************************************************************)
(* The order of a program's statements.                                    *)
(***************************************************************************)
\* main's statements up to the k-th, "ready", are the early ones.
Ordered(main, k) ==
  /\ main \in Seq(Words)
  /\ k + 1 \in 1 .. Len(main) /\ k \in 1 .. Len(main)
  /\ \A i \in 1 .. Len(main) : /\ main[i] \in Early <=> i <= k
                               /\ main[i] = "ready" <=> i = k
  /\ \E i \in 1 .. Len(main) : main[i] = "sleep"

LEMMA DomainIs ==
  ASSUME NEW S, NEW s \in Seq(S)
  PROVE  DOMAIN s = 1 .. Len(s)
  OBVIOUS

LEMMA MinimalOrder ==
  Ordered(minimal260_main, 2) /\ Ordered(minimal310_main, 2) /\ Ordered(minimal370_main, 2)
  <1>1. Ordered(minimal260_main, 2)
    BY DEF Ordered, minimal260_main, Words, Early
  <1>2. Ordered(minimal310_main, 2)
    BY DEF Ordered, minimal310_main, Words, Early
  <1>3. Ordered(minimal370_main, 2)
    BY DEF Ordered, minimal370_main, Words, Early
  <1> QED BY <1>1, <1>2, <1>3

LEMMA StepcountOrder ==
  Ordered(stepcount260_main, 3) /\ Ordered(stepcount310_main, 3) /\ Ordered(accel370_main, 5)
  <1>1. Ordered(stepcount260_main, 3)
    BY DEF Ordered, stepcount260_main, Words, Early
  <1>2. Ordered(stepcount310_main, 3)
    BY DEF Ordered, stepcount310_main, Words, Early
  <1>3. Ordered(accel370_main, 5)
    BY DEF Ordered, accel370_main, Words, Early
  <1> QED BY <1>1, <1>2, <1>3

LEMMA MainOrder ==
  ASSUME program \in Programs
  PROVE  \E k \in Nat : Ordered(this.main, k)
  <1>1. program \in {"minimal260", "minimal310", "minimal370", "stepcount260", "stepcount310", "accel370"}
    BY KnownPrograms DEF Program
  <1>2. this.main \in {minimal260_main, minimal310_main, minimal370_main,
                       stepcount260_main, stepcount310_main, accel370_main}
    BY <1>1 DEF this, Program
  <1> QED BY <1>2, MinimalOrder, StepcountOrder

LEMMA FollowingIs ==
  ASSUME program \in Programs, NEW s, \E i \in DOMAIN this.main : this.main[i] = s
  PROVE  /\ \E i \in DOMAIN this.main : this.main[i] = Following(s)
         /\ Following(s) \in Early => s \in Early
         /\ s = "ready" => Following(s) \notin Early
  <1> DEFINE main == this.main
             i == CHOOSE j \in DOMAIN main : main[j] = s
  <1>1. PICK k \in Nat : Ordered(main, k)
    BY MainOrder
  <1>2. Following(s) = IF i = Len(main) THEN "sleep" ELSE main[i + 1]
    BY DEF Following
  <1>3. i \in DOMAIN main /\ main[i] = s
    OBVIOUS
  <1> HIDE DEF main, i
  <1>4. DOMAIN main = 1 .. Len(main) /\ Len(main) \in Nat
    BY <1>1, DomainIs, ElementFacts DEF Ordered
  <1>5. s \in Early <=> i <= k
    BY <1>1, <1>3, <1>4 DEF Ordered
  <1>6. s = "ready" => i = k
    BY <1>1, <1>3, <1>4 DEF Ordered
  <1>7. CASE i = Len(main)
    <2>1. Following(s) = "sleep" /\ "sleep" \notin Early
      BY <1>2, <1>7 DEF Early
    <2> QED BY <1>1, <1>4, <2>1 DEF Ordered, main
  <1>8. CASE i # Len(main)
    <2>1. Following(s) = main[i + 1] /\ i + 1 \in DOMAIN main
      BY <1>2, <1>3, <1>4, <1>8
    <2>2. main[i + 1] \in Early <=> i + 1 <= k
      BY <1>1, <1>4, <2>1 DEF Ordered
    <2>3. Following(s) \in Early => s \in Early
      BY <1>3, <1>4, <1>5, <2>1, <2>2
    <2>4. s = "ready" => Following(s) \notin Early
      BY <1>1, <1>6, <2>1, <2>2
    <2> QED BY <2>1, <2>3, <2>4 DEF main
  <1> QED BY <1>7, <1>8


-----------------------------------------------------------------------------
(***************************************************************************)
(* The actions, in terms of the link's.                                    *)
(***************************************************************************)
QuietStatement ==
  \/ Begin \/ BtEnable \/ bt_ready \/ Register \/ CountSteps \/ Wake \/ Load
  \/ TestActive \/ Compare \/ Assign \/ TestSubscribed

LEMMA ModRange ==
  ASSUME NEW n \in Nat
  PROVE  n % Modulus \in Nat
  BY ProgramsAssumption

LEMMA ValueOK ==
  ASSUME LinkInv
  PROVE  /\ "value" \in Chan /\ \A c \in Chan : c = "value"
         /\ value \in Nat /\ gen["value"] \in Nat /\ seen["value"] \in Nat /\ since["value"] \in Nat
         /\ ccc["value"] \in BOOLEAN
  BY ProgramsAssumption DEF LinkInv, LinkTypeOK, value

\* Where a statement may go.
Moves == pc \in Words /\ pc' \in {Following(pc), "sleep", "hang", "exit"}

LEMMA MainMoves ==
  ASSUME Main
  PROVE  program' = program /\ Moves
  <1>1. program' = program
    BY DEF Main, Begin, BtEnable, bt_ready, Register, CountSteps, Wake, Load, Increment, Sample,
       TestActive, Compare, Assign, TestSubscribed, NotifyValue, Notifies, Stores, Loads, LeaveMain
  <1>2. CASE Begin
    BY <1>1, <1>2 DEF Begin, Goto, Moves, Words
  <1>3. CASE BtEnable \/ bt_ready \/ Register \/ CountSteps
    BY <1>1, <1>3 DEF BtEnable, bt_ready, Register, CountSteps, Goto, Moves, Words
  <1>4. CASE Wake \/ Load \/ Increment \/ Sample
    BY <1>1, <1>4 DEF Wake, Load, Increment, Sample, Goto, Moves, Words
  <1>5. CASE TestActive \/ Compare \/ Assign \/ TestSubscribed
    BY <1>1, <1>5 DEF TestActive, Compare, Assign, TestSubscribed, Goto, Test, Moves, Words
  <1>6. CASE NotifyValue
    BY <1>1, <1>6 DEF NotifyValue, Notifies, Goto, Moves, Words
  <1> QED BY <1>1, <1>2, <1>3, <1>4, <1>5, <1>6 DEF Main

LEMMA MovesKeep ==
  ASSUME program \in Programs, OnMain, program' = program, Moves
  PROVE  /\ OnMain'
         /\ pc' \in Early => pc \in Early
         /\ pc = "ready" => pc' \notin Early
  <1>1. \E i \in DOMAIN this.main : this.main[i] = pc
    BY DEF OnMain, Moves, Words
  <1>2. /\ \E i \in DOMAIN this.main : this.main[i] = Following(pc)
        /\ Following(pc) \in Early => pc \in Early
        /\ pc = "ready" => Following(pc) \notin Early
    BY <1>1, FollowingIs
  <1>3. \E i \in DOMAIN this.main : this.main[i] = "sleep"
    BY MainOrder, DomainIs DEF Ordered
  <1>4. this' = this
    BY DEF this
  <1>5. pc' \in {Following(pc), "sleep", "hang", "exit"}
    BY DEF Moves
  <1>6. OnMain'
    BY <1>2, <1>3, <1>4, <1>5 DEF OnMain
  <1>7. "sleep" \notin Early /\ "hang" \notin Early /\ "exit" \notin Early
    BY DEF Early
  <1> QED BY <1>2, <1>5, <1>6, <1>7

LEMMA QuietStatements ==
  ASSUME LinkInv, reg \in Nat, QuietStatement
  PROVE  /\ LinkInv' /\ reg' \in Nat
         /\ UNCHANGED <<val, air, gen, told, since, seen, ccc, Subscribed, active_conn>>
         /\ link' = link \/ pc = "ready"
  <1>1. StartAdvertising \/ RegisterCallbacks \/ UNCHANGED linkVars
    BY DEF QuietStatement, Begin, BtEnable, bt_ready, Register, CountSteps, Wake, Load, Loads,
       TestActive, Compare, Assign, TestSubscribed
  <1>2. UNCHANGED <<ccc, Subscribed, active_conn>>
    BY <1>1 DEF StartAdvertising, RegisterCallbacks, linkVars, appVars,
       QuietStatement, Begin, BtEnable, bt_ready, Register, CountSteps, Wake, Load, Loads,
       TestActive, Compare, Assign, TestSubscribed
  <1>3. link' = link \/ pc = "ready"
    BY DEF RegisterCallbacks, linkVars, Goto,
       QuietStatement, Begin, BtEnable, bt_ready, Register, CountSteps, Wake, Load, Loads,
       TestActive, Compare, Assign, TestSubscribed
  <1>4. reg' = reg \/ reg' = value
    BY DEF LeaveMain, LeaveLocals,
       QuietStatement, Begin, BtEnable, bt_ready, Register, CountSteps, Wake, Load, Loads,
       TestActive, Compare, Assign, TestSubscribed
  <1> QED BY <1>1, <1>2, <1>3, <1>4, LinkQuiet, ValueOK

\* What changes the value and nothing else of the link.
Changes ==
  /\ (\E v \in Nat : Store("value", v)) \/ UNCHANGED <<val, gen>>
  /\ UNCHANGED <<link, registered, ccc, air, told, since, seen, active_conn, Subscribed, program, reg>>

LEMMA ChangesKeep ==
  ASSUME LinkInv, Changes
  PROVE  LinkInv'
  <1>1. CASE UNCHANGED <<val, gen>>
    BY <1>1, LinkQuiet DEF Changes, linkVars
  <1>2. ASSUME NEW v \in Nat, Store("value", v) PROVE LinkInv'
    BY <1>2, ValueOK, StoreKeeps DEF Changes
  <1> QED BY <1>1, <1>2 DEF Changes

LEMMA ChangesAre ==
  ASSUME LinkInv, reg \in Nat, Increment \/ Sample \/ stepcount_handler
  PROVE  Changes
  <1>1. CASE Increment
    <2>1. (reg + 1) % Modulus \in Nat
      BY ModRange
    <2> QED BY <1>1, <2>1 DEF Increment, Stores, LeaveMain, LeaveLocals, appVars, Changes
  <1>2. CASE Sample
    <2>1. \A v \in 0 .. (Modulus - 1) : v \in Nat
      BY ProgramsAssumption
    <2> QED BY <1>2, <2>1 DEF Sample, Stores, LeaveMain, LeaveLocals, appVars, Changes
  <1>3. CASE stepcount_handler
    <2>1. (value + 1) % Modulus \in Nat
      BY ValueOK, ModRange
    <2> QED BY <1>3, <2>1 DEF stepcount_handler, mainVars, appVars, Changes
  <1> QED BY <1>1, <1>2, <1>3

LEMMA Notifications ==
  ASSUME LinkInv, NotifyValue
  PROVE  /\ LinkInv'
         /\ UNCHANGED <<link, registered, ccc, val, gen, since, seen, Subscribed, active_conn, program, reg>>
  <1>1. /\ UNCHANGED <<link, registered, ccc, val, gen, since, seen, Subscribed, active_conn, program, reg>>
        /\ \/ Send("value", FALSE, gen["value"])
           \/ UNCHANGED <<air, told>>
    BY DEF NotifyValue, Notifies, LeaveMain, LeaveLocals, appVars
  <1>2. CASE Send("value", FALSE, gen["value"])
    BY <1>1, <1>2, ValueOK, NewestKeeps
  <1>3. CASE UNCHANGED <<air, told>>
    <2>1. UNCHANGED linkVars
      BY <1>1, <1>3 DEF linkVars
    <2> QED BY <1>1, <2>1, LinkQuiet
  <1> QED BY <1>1, <1>2, <1>3

LEMMA Reads ==
  ASSUME LinkInv, read
  PROVE  /\ LinkInv'
         /\ UNCHANGED <<link, ccc, gen, since, seen, Subscribed, active_conn, program, reg, pc>>
  <1>1. /\ UNCHANGED <<link, registered, ccc, val, gen, since, seen, Subscribed, active_conn, program, reg, pc>>
        /\ Send("value", TRUE, gen["value"])
    BY DEF read, ReadValue, mainVars, appVars
  <1> QED BY <1>1, ValueOK, NewestKeeps

LEMMA Subscriptions ==
  ASSUME LinkInv, NEW on \in BOOLEAN, subscribe_changed(on)
  PROVE  /\ LinkInv' /\ service.ccc
         /\ ccc'["value"] = on
         /\ Subscribed' = on
         /\ since'["value"] = IF on /\ ~ccc["value"] THEN gen["value"] ELSE since["value"]
         /\ link = "connected"
         /\ UNCHANGED <<link, gen, seen, active_conn, program, reg, pc>>
  <1>1. /\ SetCcc("value", on) /\ Subscribed' = on /\ service.ccc
        /\ UNCHANGED <<active_conn, program, reg, pc>>
    BY DEF subscribe_changed, mainVars
  <1>2. /\ LinkInv' /\ link = "connected"
        /\ ccc' = [ccc EXCEPT !["value"] = on]
        /\ since' = IF on /\ ~ccc["value"] THEN [since EXCEPT !["value"] = gen["value"]] ELSE since
        /\ UNCHANGED <<link, gen, seen>>
    BY <1>1, ValueOK, CccKeeps
  <1>3. ccc \in [Chan -> BOOLEAN] /\ since \in [Chan -> Nat]
    BY DEF LinkInv, LinkTypeOK
  <1>4. ccc'["value"] = on
    BY <1>2, <1>3, ValueOK
  <1>5. since'["value"] = IF on /\ ~ccc["value"] THEN gen["value"] ELSE since["value"]
    BY <1>2, <1>3, ValueOK
  <1> QED BY <1>1, <1>2, <1>4, <1>5

LEMMA Writes ==
  ASSUME LinkInv, NEW v \in WriteVals, NEW s \in BOOLEAN, write(v, s)
  PROVE  /\ LinkInv' /\ \E w \in Nat : Store("value", w)
         /\ UNCHANGED <<link, ccc, since, seen, Subscribed, active_conn, program, reg, pc>>
  <1>1. v \in Nat /\ value \in Nat
    BY ProgramsAssumption, ValueOK
  <1>2. PICK w \in Nat, informs \in BOOLEAN : WriteValue("value", w, informs)
    BY <1>1 DEF write
  <1>3. UNCHANGED <<Subscribed, active_conn, program, reg, pc>>
    BY DEF write, mainVars, appVars
  <1> QED BY <1>2, <1>3, ValueOK, WriteKeeps

\* A connection; what a central without a CCC was told starts at the value.
LEMMA Connections ==
  ASSUME LinkInv, connected
  PROVE  /\ LinkInv'
         /\ since'["value"] = IF service.ccc THEN since["value"] ELSE gen["value"]
         /\ link = "advertising" /\ link' = "connected"
         /\ UNCHANGED <<ccc, gen, seen, Subscribed, program, reg, pc>>
  <1>1. /\ link = "advertising" /\ link' = "connected"
        /\ since' = IF service.ccc THEN since ELSE gen
        /\ UNCHANGED <<registered, ccc, val, air, gen, told, seen, Subscribed, program, reg, pc>>
    BY DEF connected, mainVars
  <1>2. /\ since' \in [Chan -> Nat]
        /\ \A c \in Chan : gen[c] \in Nat /\ (since'[c] = since[c] \/ since'[c] = gen[c])
    BY <1>1 DEF LinkInv, LinkTypeOK
  <1>3. LinkTypeOK'
    BY <1>1, <1>2 DEF LinkInv, LinkTypeOK
  <1>4. ASSUME NEW c \in Chan PROVE QueueOrdered(c)' /\ HistoryOrdered(c)'
    <2>1. QueueOrdered(c) /\ HistoryOrdered(c) /\ gen[c] \in Nat
      BY DEF LinkInv, LinkTypeOK
    <2>2. since'[c] <= gen[c]
      BY <1>2, <2>1 DEF HistoryOrdered
    <2> QED BY <1>1, <2>1, <2>2 DEF QueueOrdered, HistoryOrdered
  <1>5. since'["value"] = IF service.ccc THEN since["value"] ELSE gen["value"]
    BY <1>1
  <1> QED BY <1>1, <1>3, <1>4, <1>5 DEF LinkInv


-----------------------------------------------------------------------------
(***************************************************************************)
(* The invariant is inductive.                                             *)
(***************************************************************************)
LEMMA InitInv == Init => ProgramsInv
  <1> SUFFICES ASSUME Init PROVE ProgramsInv
    OBVIOUS
  <1>1. LinkInv
    BY LinkStarts DEF Init
  <1>2. /\ program \in Programs /\ reg \in Nat /\ link = "off" /\ Subscribed = FALSE
        /\ ccc["value"] = FALSE /\ pc = this.main[1]
    BY ProgramsAssumption DEF Init, LinkInit
  <1>3. 1 \in DOMAIN this.main
    <2>1. PICK k \in Nat : Ordered(this.main, k)
      BY <1>2, MainOrder
    <2>2. DOMAIN this.main = 1 .. Len(this.main) /\ Len(this.main) \in Nat /\ k + 1 \in 1 .. Len(this.main)
      BY <2>1, DomainIs, ElementFacts DEF Ordered
    <2> QED BY <2>2
  <1> QED BY <1>1, <1>2, <1>3 DEF ProgramsInv, OnMain, StartedInOrder, FlagIsCcc, NoCccUnlinked

\* The host's actions leave main where it is.
LEMMA OnMainStays ==
  ASSUME OnMain, UNCHANGED <<pc, program>>
  PROVE  OnMain'
  BY DEF OnMain, this

LEMMA MainKeeps == ProgramsInv /\ Main => ProgramsInv'
  <1> SUFFICES ASSUME ProgramsInv, Main PROVE ProgramsInv'
    OBVIOUS
  <1>0. /\ LinkInv /\ program \in Programs /\ reg \in Nat /\ OnMain
        /\ StartedInOrder /\ FlagIsCcc /\ NoCccUnlinked
    BY DEF ProgramsInv
  <1>1. /\ OnMain' /\ program' \in Programs
        /\ pc' \in Early => pc \in Early
        /\ pc = "ready" => pc' \notin Early
    BY <1>0, MainMoves, MovesKeep
  <1>2. CASE QuietStatement
    <2>1. /\ LinkInv' /\ reg' \in Nat /\ UNCHANGED <<ccc, Subscribed>>
          /\ link' = link \/ pc = "ready"
      BY <1>0, <1>2, QuietStatements
    <2>2. link' = link \/ link = "off"
      BY <1>0, <2>1 DEF StartedInOrder, Early
    <2>3. StartedInOrder'
      BY <1>0, <1>1, <2>1 DEF StartedInOrder
    <2>4. FlagIsCcc' /\ NoCccUnlinked'
      BY <1>0, <2>1, <2>2 DEF FlagIsCcc, NoCccUnlinked
    <2> QED BY <1>1, <2>1, <2>3, <2>4 DEF ProgramsInv
  <1>3. CASE Increment \/ Sample \/ NotifyValue
    <2>1. LinkInv' /\ UNCHANGED <<link, ccc, Subscribed, reg>>
      BY <1>0, <1>3, ChangesAre, ChangesKeep, Notifications DEF Changes
    <2> QED BY <1>0, <1>1, <2>1 DEF ProgramsInv, StartedInOrder, FlagIsCcc, NoCccUnlinked
  <1> QED BY <1>2, <1>3 DEF Main, QuietStatement

LEMMA HostKeeps == ProgramsInv /\ (stepcount_handler \/ Host \/ CentralReceives) => ProgramsInv'
  <1> SUFFICES ASSUME ProgramsInv, stepcount_handler \/ Host \/ CentralReceives PROVE ProgramsInv'
    OBVIOUS
  <1>0. /\ LinkInv /\ program \in Programs /\ reg \in Nat /\ OnMain
        /\ StartedInOrder /\ FlagIsCcc /\ NoCccUnlinked /\ ccc["value"] \in BOOLEAN
    BY ValueOK DEF ProgramsInv
  <1>1. ASSUME LinkInv', UNCHANGED <<pc, program, reg>>, link # "off", link' # "off",
               FlagIsCcc', NoCccUnlinked'
        PROVE  ProgramsInv'
    BY <1>0, <1>1, OnMainStays DEF ProgramsInv, StartedInOrder
  <1>2. ASSUME LinkInv', UNCHANGED <<pc, program, reg, link, ccc, Subscribed>>
        PROVE  ProgramsInv'
    BY <1>0, <1>2, OnMainStays DEF ProgramsInv, StartedInOrder, FlagIsCcc, NoCccUnlinked
  <1>3. CASE stepcount_handler
    <2>1. LinkInv' /\ UNCHANGED <<pc, program, reg, link, ccc, Subscribed>>
      BY <1>0, <1>3, ChangesAre, ChangesKeep DEF Changes, stepcount_handler, mainVars
    <2> QED BY <1>2, <2>1
  <1>4. CASE connected
    BY <1>0, <1>1, <1>4, Connections DEF FlagIsCcc, NoCccUnlinked
  <1>5. CASE Drop
    <2>1. LinkInv'
      BY <1>0, <1>5, DropKeeps DEF Drop
    <2>2. /\ UNCHANGED <<pc, program, reg, ccc, Subscribed>>
          /\ link = "connected" /\ link' = "lost"
      BY <1>5 DEF Drop, LinkDrop, mainVars, appVars
    <2> QED BY <1>0, <1>1, <2>1, <2>2 DEF FlagIsCcc, NoCccUnlinked
  <1>6. CASE disconnected
    <2>1. LinkInv'
      BY <1>0, <1>6, LinkQuiet DEF disconnected
    <2>2. /\ UNCHANGED <<pc, program, reg>>
          /\ link = "lost" /\ link' = "advertising"
          /\ ccc'["value"] = FALSE
      BY <1>6, ValueOK, <1>0 DEF disconnected, LinkCleanup, mainVars
    <2>3. Subscribed' = FALSE \/ (~ccc["value"] /\ Subscribed' = Subscribed)
      BY <1>6 DEF disconnected
    <2>4. Subscribed' = FALSE
      BY <1>0, <2>3, Zenon DEF FlagIsCcc
    <2> QED BY <1>1, <2>1, <2>2, <2>4 DEF FlagIsCcc, NoCccUnlinked
  <1>7. CASE read \/ \E v \in WriteVals, s \in BOOLEAN : write(v, s)
    BY <1>0, <1>2, <1>7, Reads, Writes
  <1>8. ASSUME NEW on \in BOOLEAN, subscribe_changed(on) PROVE ProgramsInv'
    <2>1. /\ LinkInv' /\ ccc'["value"] = on /\ Subscribed' = on /\ link = "connected"
          /\ UNCHANGED <<link, pc, program, reg>>
      BY <1>0, <1>8, Subscriptions
    <2> QED BY <1>1, <2>1 DEF FlagIsCcc, NoCccUnlinked
  <1>9. CASE CentralReceives
    <2>1. LinkInv'
      BY <1>0, <1>9, ReceiveKeeps DEF CentralReceives
    <2> QED BY <1>2, <1>9, <2>1 DEF CentralReceives, Receive, mainVars, appVars
  <1> QED BY <1>3, <1>4, <1>5, <1>6, <1>7, <1>8, <1>9 DEF Host

LEMMA NextInv == ProgramsInv /\ [Next]_vars => ProgramsInv'
  <1> SUFFICES ASSUME ProgramsInv, UNCHANGED vars PROVE ProgramsInv'
    BY MainKeeps, HostKeeps DEF Next
  <1>1. LinkInv' /\ OnMain'
    BY LinkQuiet, OnMainStays DEF ProgramsInv, vars, mainVars
  <1> QED BY <1>1 DEF ProgramsInv, StartedInOrder, FlagIsCcc, NoCccUnlinked, vars, linkVars, mainVars, appVars

LEMMA Inductive == Safety => []ProgramsInv
  BY InitInv, NextInv, PTL DEF Safety

(***************************************************************************)
(* In each program Subscribed is the connected central's CCC value         *)
(* (FlagMatchesCcc), also where disconnected() forgets to clear it.        *)
(***************************************************************************)
THEOREM FlagCorrect == Safety => []FlagMatchesCcc
  <1>1. ProgramsInv => FlagMatchesCcc
    BY Zenon DEF ProgramsInv, FlagIsCcc, FlagMatchesCcc
  <1> QED BY <1>1, Inductive, PTL

-----------------------------------------------------------------------------
(***************************************************************************)
(* The refinement.                                                         *)
(***************************************************************************)
AbsVars == <<gen["value"], Known("value"), Live>>

AbsStep == [Promise!TellNext]_AbsVars

LEMMA InitRefines == Init => Promise!TellInit
  BY ProgramsAssumption DEF Init, LinkInit, Promise!TellInit, Known, Newer, Live, Receptive

\* A step of the value alone is Change.
LEMMA ChangeRefines ==
  ASSUME LinkInv, Changes
  PROVE  AbsStep
  <1>1. UNCHANGED <<Known("value"), Live>>
    BY DEF Changes, Known, Live, Receptive, Has, service, this
  <1>2. \/ gen'["value"] = gen["value"]
        \/ gen["value"] < MaxGen["value"] /\ gen'["value"] = gen["value"] + 1
    BY ValueOK, StoreFacts DEF Changes
  <1> QED BY <1>1, <1>2 DEF AbsStep, AbsVars, Promise!TellNext, Promise!Change

\* A step of the central's knowledge alone is Learn.
LEMMA LearnRefines ==
  ASSUME LinkInv, UNCHANGED <<gen, Live>>, Known("value")' \in Nat,
         Known("value") <= Known("value")', Known("value")' <= gen["value"]
  PROVE  AbsStep
  <1>1. gen["value"] \in Nat /\ Known("value") \in Nat
    BY ValueOK, KnownFacts
  <1>2. CASE Known("value")' = Known("value")
    BY <1>2 DEF AbsStep, AbsVars
  <1>3. CASE Known("value")' # Known("value")
    <2>1. Known("value") < gen["value"] /\ Known("value")' \in (Known("value") + 1) .. gen["value"]
      BY <1>1, <1>3
    <2> QED BY <2>1 DEF AbsStep, Promise!TellNext, Promise!Learn
  <1> QED BY <1>2, <1>3

\* The end of what is live, or nothing.
LEMMA CloseRefines ==
  ASSUME UNCHANGED <<gen, seen, since>>, ~Live'
  PROVE  AbsStep
  <1>1. UNCHANGED <<gen["value"], Known("value")>>
    BY DEF Known
  <1>2. Live' = FALSE /\ Live \in BOOLEAN
    BY DEF Live
  <1>3. CASE Live
    <2>1. Promise!Close
      BY <1>1, <1>2, <1>3 DEF Promise!Close
    <2> QED BY <2>1 DEF AbsStep, Promise!TellNext
  <1>4. CASE Live = FALSE
    BY <1>1, <1>2, <1>4 DEF AbsStep, AbsVars
  <1> QED BY <1>2, <1>3, <1>4

\* A central that was not served starts from the current value.
LEMMA OpenRefines ==
  ASSUME LinkInv, ~Live, UNCHANGED <<gen, seen>>, since'["value"] = gen["value"]
  PROVE  AbsStep
  <1>1. Known("value")' = gen["value"]
    <2>1. seen["value"] <= told["value"] /\ told["value"] <= gen["value"] /\ told["value"] \in Nat
      BY ValueOK DEF LinkInv, LinkTypeOK, QueueOrdered, HistoryOrdered
    <2>2. seen["value"] <= gen["value"]
      BY <2>1, ValueOK
    <2> QED BY <2>2, ValueOK DEF Known, Newer
  <1>2. Live \in BOOLEAN /\ Live' \in BOOLEAN
    BY DEF Live
  <1>3. CASE Live'
    <2>1. Promise!Open
      BY <1>1, <1>2, <1>3 DEF Promise!Open
    <2> QED BY <2>1 DEF AbsStep, Promise!TellNext
  <1>4. CASE ~Live'
    <2>1. UNCHANGED Live
      BY <1>2, <1>4
    <2> QED BY <1>1, <2>1, ValueOK, KnownFacts, LearnRefines
  <1> QED BY <1>3, <1>4

\* Nothing the abstraction sees.
LEMMA StutterRefines ==
  ASSUME UNCHANGED <<gen, seen, since, link, ccc, active_conn, program>>
  PROVE  AbsStep
  BY DEF AbsStep, AbsVars, Known, Live, Receptive, Has, service, this

LEMMA SubscriptionRefines ==
  ASSUME LinkInv, NEW on \in BOOLEAN, subscribe_changed(on)
  PROVE  AbsStep
  <1>1. /\ service.ccc /\ service' = service
        /\ ccc'["value"] = on
        /\ since'["value"] = IF on /\ ~ccc["value"] THEN gen["value"] ELSE since["value"]
        /\ UNCHANGED <<link, gen, seen, active_conn, program>>
    BY Subscriptions DEF service, this
  <1>2. ccc["value"] \in BOOLEAN
    BY ValueOK
  <1>3. CASE on /\ ~ccc["value"]
    <2>1. ~Live
      BY <1>1, <1>3 DEF Live, Receptive
    <2> QED BY <1>1, <1>3, <2>1, OpenRefines
  <1>4. CASE ~on
    <2>1. ~Live'
      BY <1>1, <1>4 DEF Live, Receptive
    <2>2. UNCHANGED <<gen["value"], Known("value")>>
      BY <1>1, <1>4 DEF Known
    <2>3. Live' = FALSE /\ Live \in BOOLEAN
      BY <2>1 DEF Live
    <2>4. CASE Live
      <3>1. Promise!Close
        BY <2>2, <2>3, <2>4 DEF Promise!Close
      <3> QED BY <3>1 DEF AbsStep, Promise!TellNext
    <2>5. CASE Live = FALSE
      BY <2>2, <2>3, <2>5 DEF AbsStep, AbsVars
    <2> QED BY <2>3, <2>4, <2>5
  <1>5. CASE on /\ ccc["value"]
    <2>1. UNCHANGED <<gen["value"], Known("value")>>
      BY <1>1, <1>5 DEF Known
    <2>2. UNCHANGED Live
      BY <1>1, <1>5 DEF Live, Receptive, Has, this
    <2> QED BY <2>1, <2>2 DEF AbsStep, AbsVars
  <1> QED BY <1>2, <1>3, <1>4, <1>5

LEMMA StepRefines == ProgramsInv /\ [Next]_vars => AbsStep
  <1> SUFFICES ASSUME ProgramsInv, [Next]_vars PROVE AbsStep
    OBVIOUS
  <1>0. /\ LinkInv /\ reg \in Nat /\ StartedInOrder /\ NoCccUnlinked
    BY DEF ProgramsInv
  <1>1. CASE QuietStatement
    <2>1. /\ UNCHANGED <<gen, seen, since, ccc, active_conn, program>>
          /\ link' = link \/ pc = "ready"
      BY <1>0, <1>1, QuietStatements, MainMoves DEF Main, QuietStatement
    <2>2. CASE link' = link
      BY <2>1, <2>2, StutterRefines
    <2>3. CASE link' # link
      <3>1. bt_ready
        BY <1>0, <1>1, <2>1, <2>3 DEF QuietStatement, Begin, BtEnable, Register, CountSteps, Wake,
           Load, TestActive, Compare, Assign, TestSubscribed, Loads, Goto, Test, RegisterCallbacks, linkVars
      <3>2. link' = "advertising"
        BY <2>3, <3>1 DEF bt_ready, StartAdvertising, linkVars
      <3>3. ~Live'
        BY <3>2 DEF Live, Receptive
      <3> QED BY <2>1, <3>3, CloseRefines
    <2> QED BY <2>2, <2>3
  <1>2. CASE Increment \/ Sample \/ stepcount_handler
    BY <1>0, <1>2, ChangesAre, ChangeRefines
  <1>3. CASE NotifyValue \/ read
    BY <1>0, <1>3, Notifications, Reads, StutterRefines
  <1>4. CASE connected
    <2>1. /\ since'["value"] = IF service.ccc THEN since["value"] ELSE gen["value"]
          /\ link = "advertising" /\ UNCHANGED <<ccc, gen, seen, program>>
      BY <1>0, <1>4, Connections
    <2>2. CASE service.ccc
      <3>1. ~ccc'["value"] /\ service'.ccc
        BY <1>0, <2>1, <2>2 DEF NoCccUnlinked, service, this
      <3>2. ~Live'
        BY <3>1 DEF Live, Receptive
      <3>3. since' = since
        BY <1>4, <2>2 DEF connected
      <3> QED BY <2>1, <3>2, <3>3, CloseRefines
    <2>3. CASE ~service.ccc
      <3>1. ~Live
        BY <2>1 DEF Live, Receptive
      <3> QED BY <1>0, <2>1, <2>3, <3>1, OpenRefines
    <2> QED BY <2>2, <2>3
  <1>5. CASE Drop \/ disconnected
    <2>1. link' # "connected" /\ UNCHANGED <<gen, seen, since>>
      BY <1>5 DEF Drop, LinkDrop, disconnected, LinkCleanup
    <2> QED BY <2>1, CloseRefines DEF Live, Receptive
  <1>6. ASSUME NEW v \in WriteVals, NEW s \in BOOLEAN, write(v, s) PROVE AbsStep
    <2>1. /\ \E w \in Nat : Store("value", w)
          /\ UNCHANGED <<link, ccc, since, seen, active_conn, program>>
      BY <1>0, <1>6, Writes
    <2>2. UNCHANGED <<Known("value"), Live>>
      BY <2>1 DEF Known, Live, Receptive, Has, service, this
    <2>3. \/ gen'["value"] = gen["value"]
          \/ gen["value"] < MaxGen["value"] /\ gen'["value"] = gen["value"] + 1
      BY <1>0, <2>1, ValueOK, StoreFacts
    <2> QED BY <2>2, <2>3 DEF AbsStep, AbsVars, Promise!TellNext, Promise!Change
  <1>7. CASE \E on \in BOOLEAN : subscribe_changed(on)
    BY <1>0, <1>7, SubscriptionRefines
  <1>8. CASE CentralReceives
    <2>1. Receive /\ UNCHANGED <<gen, since, link, ccc, active_conn, program>>
      BY <1>8 DEF CentralReceives, Receive, appVars
    <2>2. UNCHANGED Live
      BY <2>1 DEF Live, Receptive, Has, service, this
    <2> QED BY <1>0, <2>1, <2>2, ValueOK, ReceiveKnown, LearnRefines
  <1>9. CASE UNCHANGED vars
    BY <1>9, StutterRefines DEF vars, linkVars, appVars
  <1> QED BY <1>1, <1>2, <1>3, <1>4, <1>5, <1>6, <1>7, <1>8, <1>9 DEF Next, Main, Host, QuietStatement

(***************************************************************************)
(* Every generation of every program implements Telling                    *)
(* (ImplementsTelling): its central learns generations of the value in     *)
(* order and never one that does not exist yet, whether it has to          *)
(* subscribe or is notified as soon as it is connected.                    *)
(***************************************************************************)
THEOREM Refinement == Safety => ImplementsTelling
  BY InitRefines, StepRefines, Inductive, PTL
     DEF Safety, ImplementsTelling, Promise!TellSafety, Promise!tellVars, AbsStep, AbsVars


-----------------------------------------------------------------------------
(***************************************************************************)
(* Where the comment on the write handler does not hold, and that it holds *)
(* everywhere else.                                                        *)
(***************************************************************************)
LoadedFirst(main) == \A i \in 1 .. Len(main) : main[i] = "store" => i - 1 \in 1 .. Len(main) /\ main[i - 1] = "load"

LEMMA StoreComesAfterLoad ==
  ASSUME program \in Programs
  PROVE  LoadedFirst(this.main)
  <1>1. program \in {"minimal260", "minimal310", "minimal370", "stepcount260", "stepcount310", "accel370"}
    BY KnownPrograms DEF Program
  <1>2. this.main \in {minimal260_main, minimal310_main, minimal370_main,
                       stepcount260_main, stepcount310_main, accel370_main}
    BY <1>1 DEF this, Program
  <1>3. LoadedFirst(minimal260_main)
    BY DEF LoadedFirst, minimal260_main
  <1>4. LoadedFirst(minimal310_main) /\ LoadedFirst(minimal370_main)
    BY DEF LoadedFirst, minimal310_main, minimal370_main
  <1>5. LoadedFirst(stepcount260_main) /\ LoadedFirst(stepcount310_main)
    BY DEF LoadedFirst, stepcount260_main, stepcount310_main
  <1>6. LoadedFirst(accel370_main)
    BY DEF LoadedFirst, accel370_main
  <1> QED BY <1>2, <1>3, <1>4, <1>5, <1>6

LEMMA OnlyLoadGoesToStore ==
  ASSUME program \in Programs, OnMain, Moves, pc' = "store"
  PROVE  pc = "load"
  <1> DEFINE main == this.main
             i == CHOOSE j \in DOMAIN main : main[j] = pc
  <1>1. PICK k \in Nat : Ordered(main, k)
    BY MainOrder
  <1>2. LoadedFirst(main)
    BY StoreComesAfterLoad
  <1>3. i \in DOMAIN main /\ main[i] = pc
    BY DEF OnMain, Moves, Words
  <1>4. Following(pc) = IF i = Len(main) THEN "sleep" ELSE main[i + 1]
    BY DEF Following
  <1>5. Following(pc) = "store"
    BY DEF Moves
  <1> HIDE DEF main, i
  <1>6. DOMAIN main = 1 .. Len(main) /\ Len(main) \in Nat
    BY <1>1, DomainIs, ElementFacts DEF Ordered
  <1>7. i # Len(main) /\ main[i + 1] = "store"
    BY <1>4, <1>5
  <1>8. i + 1 \in 1 .. Len(main) /\ (i + 1) - 1 = i
    BY <1>3, <1>6, <1>7
  <1>9. main[(i + 1) - 1] = "load"
    BY <1>2, <1>7, <1>8 DEF LoadedFirst
  <1> QED BY <1>3, <1>8, <1>9

\* What moves main is one of its statements.
LEMMA OnlyMainMoves ==
  ASSUME LinkInv, [Next]_vars
  PROVE  Main \/ UNCHANGED <<pc, reg>>
  <1>1. CASE Host
    <2>1. CASE read \/ \E v \in WriteVals, s \in BOOLEAN : write(v, s)
      BY <2>1, Reads, Writes
    <2>2. CASE \E on \in BOOLEAN : subscribe_changed(on)
      BY <2>2, Subscriptions
    <2>3. CASE connected \/ Drop \/ disconnected
      BY <2>3 DEF connected, Drop, disconnected, mainVars
    <2> QED BY <1>1, <2>1, <2>2, <2>3 DEF Host
  <1>2. CASE stepcount_handler \/ CentralReceives \/ UNCHANGED vars
    BY <1>2 DEF stepcount_handler, CentralReceives, vars, mainVars
  <1> QED BY <1>1, <1>2 DEF Next

(***************************************************************************)
(* Line 103 of ble_minimal: what the next increment counts on from differs *)
(* from what is in memory only when the value changes between the load and *)
(* the store of one char_value++ (line 182), nowhere else in main's loop   *)
(* and in none of the programs otherwise.                                  *)
(***************************************************************************)
THEOREM WritesLostThereOnly ==
  Safety /\ [][pc = "store" /\ pc' = "store" => val' = val]_vars => CountsOnFromMemory
  <1> DEFINE InHand == pc = "store" => reg = value
             Still == pc = "store" /\ pc' = "store" => val' = val
  <1>1. Init => InHand
    <2> SUFFICES ASSUME Init PROVE pc # "store"
      OBVIOUS
    <2>1. LoadedFirst(this.main) /\ pc = this.main[1]
      BY StoreComesAfterLoad DEF Init
    <2>2. PICK k \in Nat : Ordered(this.main, k)
      BY MainOrder DEF Init
    <2>3. Len(this.main) \in Nat /\ 1 \in 1 .. Len(this.main)
      BY <2>2, ElementFacts DEF Ordered
    <2> QED BY <2>1, <2>3 DEF LoadedFirst
  <1>2. ProgramsInv /\ InHand /\ [Next]_vars /\ [Still]_vars => InHand'
    <2> SUFFICES ASSUME ProgramsInv, InHand, [Next]_vars, [Still]_vars, pc' = "store"
                 PROVE  reg' = value'
      OBVIOUS
    <2>1. LinkInv /\ program \in Programs /\ OnMain
      BY DEF ProgramsInv
    <2>2. CASE Main
      <3>1. Moves
        BY <2>2, MainMoves
      <3>2. pc = "load"
        BY <2>1, <3>1, OnlyLoadGoesToStore
      <3>3. Load
        BY <2>2, <3>2 DEF Main, Begin, BtEnable, bt_ready, Register, CountSteps, Wake, Increment, Sample,
           TestActive, Compare, Assign, TestSubscribed, NotifyValue, Notifies, Goto, Test
      <3> QED BY <3>3 DEF Load, Loads, linkVars, value
    <2>3. CASE UNCHANGED <<pc, reg>>
      <3>1. val' = val
        BY <2>3 DEF vars, linkVars
      <3> QED BY <2>3, <3>1 DEF value
    <2> QED BY <2>1, <2>2, <2>3, OnlyMainMoves
  <1>3. InHand => [Increment /\ val' # val => reg = value]_vars
    BY DEF Increment, Goto
  <1> HIDE DEF InHand
  <1> QED BY <1>1, <1>2, <1>3, Inductive, PTL DEF Safety, CountsOnFromMemory
=============================================================================
