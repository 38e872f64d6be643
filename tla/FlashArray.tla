----------------------------- MODULE FlashArray -----------------------------
(***************************************************************************)
(* What the serial flash driver promises its caller: an array of cells and *)
(* a write enable switch; a call takes effect at one moment between its    *)
(* request and its return, or not at all.  A cell is the set of its bits   *)
(* that are 1; programming clears bits, erasing sets them.                 *)
(***************************************************************************)
EXTENDS Integers, Sequences

CONSTANTS Bits, PageSize, SectorSize, BlockSize, Size

VARIABLES
  mem,        \* the cells
  enabled,    \* a program or erase call will be obeyed
  asleep,     \* only power_up is obeyed
  call,       \* the call in progress; Nothing between calls
  performed,  \* it has taken effect
  answer      \* what the last read returned

arrayVars == <<mem, enabled, asleep, call, performed, answer>>

Addresses == 0 .. Size - 1

\* Addresses beyond the array start again at its first cell.
At(c) == c.address % Size

Around(a, unit) == {x \in Addresses : x \div unit = a \div unit}

\* The k-th byte of a transfer that started at a stays within a's page.
PageByte(a, k) == PageSize * (a \div PageSize) + ((a + k - 1) % PageSize)

Nothing == [op |-> "none"]

Programs(c) == c.op = "page_program"
Erases(c) == c.op \in {"sector_erase", "block_erase", "chip_erase"}

Erased(c) ==
  CASE c.op = "sector_erase" -> Around(At(c), SectorSize)
    [] c.op = "block_erase"  -> Around(At(c), BlockSize)
    [] c.op = "chip_erase"   -> Addresses

\* mem once the data has been programmed from address a on.
Programmed(m, a, data) ==
  [x \in Addresses |->
     m[x] \ UNION {Bits \ data[k] : k \in {j \in 1 .. Len(data) : PageByte(a, j) = x}}]

Result(m, c) ==
  IF Programs(c) THEN Programmed(m, At(c), c.data)
  ELSE [x \in Addresses |-> IF x \in Erased(c) THEN Bits ELSE m[x]]

\* A change that was interrupted: every cell somewhere on its way.
Interrupted(m, r) ==
  {p \in [Addresses -> SUBSET Bits] :
     \A x \in Addresses : (m[x] \cap r[x]) \subseteq p[x] /\ p[x] \subseteq (m[x] \cup r[x])}

Init ==
  /\ mem \in [Addresses -> SUBSET Bits]
  /\ enabled = FALSE /\ asleep = FALSE
  /\ call = Nothing /\ performed = FALSE
  /\ answer = <<>>

Request ==
  /\ call = Nothing
  /\ call' # Nothing /\ performed' = FALSE
  /\ UNCHANGED <<mem, enabled, asleep, answer>>

\* A program call without data does nothing.
Obeyed == enabled /\ ~asleep /\ (Programs(call) => call.data # <<>>)

\* The write enable switch goes off with every change.
Change ==
  /\ Programs(call) \/ Erases(call)
  /\ IF Obeyed
     THEN mem' = Result(mem, call) /\ enabled' = FALSE
     ELSE UNCHANGED <<mem, enabled>>
  /\ UNCHANGED <<asleep, answer>>

Read ==
  /\ call.op = "read_data"
  /\ ~asleep =>
       answer' = [k \in 1 .. call.len |-> mem[(At(call) + k - 1) % Size]]
  /\ UNCHANGED <<mem, enabled, asleep>>

\* write_status_register does what write_disable does.
Switch ==
  /\ call.op \in {"write_enable", "write_disable", "write_status_register"}
  /\ enabled' = IF asleep THEN enabled ELSE call.op = "write_enable"
  /\ UNCHANGED <<mem, asleep, answer>>

Power ==
  /\ call.op \in {"power_down", "power_up"}
  /\ asleep' = (call.op = "power_down")
  /\ UNCHANGED <<mem, enabled, answer>>

\* The chip is asked about itself.
Ask ==
  /\ call.op \in {"read_status_register", "read_electronic_signature"}
  /\ UNCHANGED <<mem, enabled, asleep, answer>>

Perform ==
  /\ ~performed /\ performed'
  /\ Change \/ Read \/ Switch \/ Power \/ Ask
  /\ UNCHANGED call

Return ==
  /\ performed
  /\ call' = Nothing /\ performed' = FALSE
  /\ UNCHANGED <<mem, enabled, asleep, answer>>

\* The power fails: at most the change in progress is done in part.
PowerCut ==
  /\ \/ UNCHANGED mem
     \/ /\ ~performed /\ enabled /\ (Programs(call) \/ Erases(call))
        /\ mem' \in Interrupted(mem, Result(mem, call))
  /\ enabled' = FALSE /\ asleep' = FALSE
  /\ call' = Nothing /\ performed' = FALSE
  /\ answer' = <<>>

Next == Request \/ Perform \/ Return \/ PowerCut

Safety == Init /\ [][Next]_arrayVars
=============================================================================
