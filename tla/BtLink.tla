------------------------------- MODULE BtLink -------------------------------
(***************************************************************************)
(* The Bluetooth LE peripheral as the applications see it: the part of the *)
(* Zephyr host that lies between an application's GATT table and the one   *)
(* central that may be connected (CONFIG_BT_MAX_CONN is 1).  The host is   *)
(* not part of the repository; it is modelled from the way the             *)
(* applications use it.                                                    *)
(*                                                                         *)
(* A "channel" is a characteristic that can be notified.  Its value is the *)
(* application's global variable (the attribute's user_data).  Next to the *)
(* value the module keeps history: gen[c] counts the changes of the value  *)
(* and every packet to the central carries the generation it was built     *)
(* from, so a property can compare what the central knows with what is.    *)
(***************************************************************************)
EXTENDS Integers, Sequences

CONSTANTS Chan,    \* the characteristics that can be notified
          MaxGen,  \* MaxGen[c] bounds the changes of c's value that are explored
          TxBufs   \* notifications the host can hold before bt_gatt_notify blocks

ASSUME BtLinkAssumption == /\ MaxGen \in [Chan -> Nat]
                           /\ TxBufs \in Nat \ {0}

VARIABLES
  link,        \* "off", "advertising", "connected", or "lost": the radio link
               \* has gone but the host has not run its cleanup yet
  registered,  \* bt_conn_cb_register has been called
  ccc,         \* ccc[c]: the central has enabled notifications of c
  val,         \* val[c]: the characteristic's value in memory
  air,         \* packets on their way to the central, oldest first
  gen,         \* history: how often val[c] has changed
  told,        \* history: generation in the last packet about c
  since,       \* history: generation of c when the central last subscribed
  seen         \* generation in the last packet about c the central received

linkVars == <<link, registered, ccc, val, air, gen, told, since, seen>>

Packet == [ch : Chan, rsp : BOOLEAN, n : Nat]

LinkTypeOK ==
  /\ link \in {"off", "advertising", "connected", "lost"}
  /\ registered \in BOOLEAN
  /\ ccc \in [Chan -> BOOLEAN]
  /\ val \in [Chan -> Nat]
  /\ air \in Seq(Packet)
  /\ gen \in [Chan -> Nat]
  /\ told \in [Chan -> Nat]
  /\ since \in [Chan -> Nat]
  /\ seen \in [Chan -> Nat]

LinkInit ==
  /\ link = "off"
  /\ registered = FALSE
  /\ ccc = [c \in Chan |-> FALSE]
  /\ val = [c \in Chan |-> 0]
  /\ air = << >>
  /\ gen = [c \in Chan |-> 0]
  /\ told = [c \in Chan |-> 0]
  /\ since = [c \in Chan |-> 0]
  /\ seen = [c \in Chan |-> 0]

Newer(m, n) == IF m > n THEN m ELSE n

(***************************************************************************)
(* The memory of a characteristic.                                         *)
(***************************************************************************)
CanStore(c, v) == v # val[c] => gen[c] < MaxGen[c]

\* val[c] := v, by whoever writes the global variable.
Store(c, v) ==
  /\ CanStore(c, v)
  /\ val' = [val EXCEPT ![c] = v]
  /\ gen' = IF v = val[c] THEN gen ELSE [gen EXCEPT ![c] = @ + 1]

(***************************************************************************)
(* Calls the application makes.                                            *)
(***************************************************************************)
\* bt_le_adv_start succeeds.
StartAdvertising ==
  /\ link' = "advertising"
  /\ UNCHANGED <<registered, ccc, val, air, gen, told, since, seen>>

\* bt_conn_cb_register.  Connections that already exist are not reported.
RegisterCallbacks ==
  /\ registered' = TRUE
  /\ UNCHANGED <<link, ccc, val, air, gen, told, since, seen>>

\* Put a packet about c in the transmit queue; n is the generation of the
\* value it carries (told[c] if it carries no value).
Send(c, rsp, n) ==
  /\ air' = Append(air, [ch |-> c, rsp |-> rsp, n |-> n])
  /\ told' = [told EXCEPT ![c] = n]

HasTxBuf == Len(SelectSeq(air, LAMBDA p : ~p.rsp)) < TxBufs

Reaches(c) == link = "connected" /\ ccc[c]

\* bt_gatt_notify.  With one connection object, an explicit connection and
\* NULL ("NULL for all") address the same central; without a connected and
\* subscribed central the call returns an error, which no caller looks at.
\* The call copies the value when it builds the packet and blocks while no
\* buffer is free.
Notify(c) ==
  /\ \/ Reaches(c) /\ HasTxBuf /\ Send(c, FALSE, gen[c])
     \/ ~Reaches(c) /\ UNCHANGED <<air, told>>
  /\ UNCHANGED <<link, registered, ccc, val, gen, since, seen>>

(***************************************************************************)
(* What the central and the radio do.  The application's callbacks run to  *)
(* completion in the host's cooperative threads: the modules that use      *)
(* these actions conjoin the effect of the callback.                       *)
(***************************************************************************)
LinkUp ==
  /\ link = "advertising"
  /\ link' = "connected"
  /\ UNCHANGED <<registered, ccc, val, air, gen, told, since, seen>>

\* Supervision timeout or termination; what was in the air is lost.
LinkDrop ==
  /\ link = "connected"
  /\ link' = "lost"
  /\ air' = << >>
  /\ told' = seen
  /\ UNCHANGED <<registered, ccc, val, gen, since, seen>>

\* The host's deferred cleanup of a dead link.  It resets every CCC, and
\* advertising resumes by itself.
LinkCleanup ==
  /\ link = "lost"
  /\ link' = "advertising"
  /\ ccc' = [c \in Chan |-> FALSE]
  /\ UNCHANGED <<registered, val, air, gen, told, since, seen>>

\* ATT allows the central one outstanding request.
CanRequest ==
  /\ link = "connected"
  /\ \A i \in DOMAIN air : ~air[i].rsp

\* The central writes the CCC descriptor of c.
SetCcc(c, on) ==
  /\ CanRequest
  /\ ccc' = [ccc EXCEPT ![c] = on]
  /\ since' = IF on /\ ~ccc[c] THEN [since EXCEPT ![c] = gen[c]] ELSE since
  /\ Send(c, TRUE, told[c])
  /\ UNCHANGED <<link, registered, val, gen, seen>>

\* The central reads c (bt_gatt_attr_read on the whole variable).
ReadValue(c) ==
  /\ CanRequest
  /\ Send(c, TRUE, gen[c])
  /\ UNCHANGED <<link, registered, ccc, val, gen, since, seen>>

\* The central writes c and the handler stores v.  If informs, v is what the
\* central asked for, so the response tells it the new value.
WriteValue(c, v, informs) ==
  /\ CanRequest
  /\ Store(c, v)
  /\ Send(c, TRUE, IF informs THEN gen'[c] ELSE told[c])
  /\ UNCHANGED <<link, registered, ccc, since, seen>>

\* The central receives the oldest packet.
Receive ==
  /\ link = "connected"
  /\ air # << >>
  /\ seen' = [seen EXCEPT ![Head(air).ch] = Head(air).n]
  /\ air' = Tail(air)
  /\ UNCHANGED <<link, registered, ccc, val, gen, told, since>>

(***************************************************************************)
(* What the central need not be told any more: it has received it, or it   *)
(* was already there when it subscribed (and could be read).               *)
(***************************************************************************)
Known(c) == Newer(seen[c], since[c])

\* The same with the packets that are still in the air.
Informed(c) == Newer(told[c], since[c])
=============================================================================
