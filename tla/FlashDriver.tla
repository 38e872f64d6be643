---------------------------- MODULE FlashDriver ----------------------------
(***************************************************************************)
(* ext_flash_mem.c: every function drives the chip select by hand, sends   *)
(* its command and data, and the ones that change the array then poll the  *)
(* chip's status until it is ready.  A single thread makes the calls.      *)
(***************************************************************************)
EXTENDS FlashChip

CONSTANT AddressSize   \* 2^24: an address is sent in three bytes

ASSUME DriverAssumption ==
  AddressSize \in Nat \ {0} /\ AddressSize % Size = 0 /\ Size % PageSize = 0

VARIABLES
  step,    \* next statement of the running call; "idle" between calls
  call,    \* its name and arguments
  answer   \* what the last read returned

driverVars == <<step, call, answer>>

Nothing == [op |-> "none"]

\* Mutant: block_erase sends the code of a sector erase.
OpcodeMixed ==
  [write_enable              |-> 6,
   write_disable             |-> 4,
   write_status_register     |-> 4,
   read_status_register      |-> 5,
   read_electronic_signature |-> 144,
   power_down                |-> 185,
   power_up                  |-> 171,
   read_data                 |-> 3,
   page_program              |-> 2,
   sector_erase              |-> 32,
   block_erase               |-> 32,
   chip_erase                |-> 96]

Opcode ==
  [write_enable              |-> 6,
   write_disable             |-> 4,
   write_status_register     |-> 4,
   read_status_register      |-> 5,
   read_electronic_signature |-> 144,
   power_down                |-> 185,
   power_up                  |-> 171,
   read_data                 |-> 3,
   page_program              |-> 2,
   sector_erase              |-> 32,
   block_erase               |-> 82,
   chip_erase                |-> 96]

Programs(c) == c.op = "page_program"
Erases(c) == c.op \in {"sector_erase", "block_erase", "chip_erase"}

Page(a) == a - (a % PageSize)

\* The three address bytes the call sends: erases send 0 for the lowest.
Sent(c) ==
  CASE c.op \in {"page_program", "read_data"} -> c.address % AddressSize
    [] c.op \in {"sector_erase", "block_erase"} -> Page(c.address % AddressSize)
    [] OTHER -> 0

DriverInit ==
  /\ step = "init"
  /\ call = Nothing
  /\ answer = <<>>

Goto(from, to) == step = from /\ step' = to

\* init_spi raises the chip select.  A command that a reset had cut short
\* ends there.
init_spi ==
  /\ Goto("init", "idle")
  /\ IF cs = 0 THEN Deselected ELSE UNCHANGED chipVars
  /\ UNCHANGED <<call, answer>>

Calls(c) ==
  /\ Goto("idle", "select")
  /\ call' = c
  /\ UNCHANGED <<chipVars, answer>>

Select ==
  /\ Goto("select", "command")
  /\ cs' = 0
  /\ UNCHANGED <<mem, wel, target, down, received, call, answer>>

\* The bytes that the two register reads return are left out.
SendCommand ==
  /\ Goto("command", IF call.op = "read_data" THEN "receive"
                     ELSE IF Programs(call) THEN "send" ELSE "deselect")
  /\ received' = [NoCommand EXCEPT !.code = Opcode[call.op], !.address = Sent(call)]
  /\ UNCHANGED <<mem, wel, target, down, cs, call, answer>>

SendData ==
  /\ Goto("send", "deselect")
  /\ received' = [received EXCEPT !.data = call.data]
  /\ UNCHANGED <<mem, wel, target, down, cs, call, answer>>

\* A chip that works or sleeps does not drive the line.
ReceiveData ==
  /\ Goto("receive", "deselect")
  /\ answer' = IF Working \/ down THEN <<>>
               ELSE [k \in 1 .. call.len |-> mem[(Decoded(received.address) + k - 1) % Size]]
  /\ UNCHANGED <<chipVars, call>>

\* Mutant: page_program does not wait.
DeselectNoWait ==
  /\ Goto("deselect", IF Erases(call) THEN "poll" ELSE "return")
  /\ Deselected
  /\ UNCHANGED <<call, answer>>

Deselect ==
  /\ Goto("deselect", IF Programs(call) \/ Erases(call) THEN "poll" ELSE "return")
  /\ Deselected
  /\ UNCHANGED <<call, answer>>

\* Mutant: the work-in-progress bit is read once.
PollOnce ==
  /\ Goto("poll", "return")
  /\ UNCHANGED <<chipVars, call, answer>>

\* Mutant: the bit is taken for a ready bit.
PollInverted ==
  /\ step = "poll"
  /\ step' = IF Working \/ down THEN "return" ELSE "poll"
  /\ UNCHANGED <<chipVars, call, answer>>

\* while (busy()): the exchange itself leaves the chip as it is.  A chip that
\* sleeps does not drive the line, and anything may be read.
Poll ==
  /\ step = "poll"
  /\ IF down THEN step' \in {"poll", "return"}
     ELSE step' = IF Working THEN "poll" ELSE "return"
  /\ UNCHANGED <<chipVars, call, answer>>

Return ==
  /\ Goto("return", "idle")
  /\ call' = Nothing
  /\ UNCHANGED <<chipVars, answer>>

Transfer == Select \/ SendCommand \/ SendData \/ ReceiveData \/ Deselect \/ Poll

ChipWorks == Complete /\ UNCHANGED driverVars

\* The board loses power, and with it the chip.
PowerCut ==
  /\ ChipPowerCut
  /\ step' = "init" /\ call' = Nothing /\ answer' = <<>>

\* The reset button restarts the MCU only.  Of a data transfer the chip may
\* have seen a part.
Reset ==
  /\ step' = "init" /\ call' = Nothing /\ answer' = <<>>
  /\ \/ UNCHANGED chipVars
     \/ /\ step = "send"
        /\ \E n \in 1 .. Len(call.data) - 1 :
             received' = [received EXCEPT !.data = SubSeq(call.data, 1, n)]
        /\ UNCHANGED <<mem, wel, target, down, cs>>

DriverTypeOK ==
  /\ ChipTypeOK
  /\ step \in {"init", "idle", "select", "command", "send", "receive", "deselect",
               "poll", "return"}
  /\ call = Nothing \/ call.op \in DOMAIN Opcode
  /\ call = Nothing <=> step \in {"init", "idle"}
=============================================================================
