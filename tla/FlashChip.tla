----------------------------- MODULE FlashChip -----------------------------
(***************************************************************************)
(* External: the MX25L8005 as ext_flash_mem.c uses it.  It collects what   *)
(* it is sent while its chip select is low and acts when the chip select   *)
(* rises.  While it works on a program or erase command it obeys nothing   *)
(* but status reads; while powered down nothing but the wake-up command.   *)
(* A cell of the array is the set of its bits that are 1.                  *)
(***************************************************************************)
EXTENDS Integers, Sequences

CONSTANTS
  Bits, PageSize, SectorSize, BlockSize, Size,
  Initially   \* contents explored at first

Addresses == 0 .. Size - 1
Arrays == [Addresses -> SUBSET Bits]

ASSUME ChipAssumption ==
  /\ PageSize \in Nat \ {0} /\ SectorSize \in Nat \ {0}
  /\ BlockSize \in Nat \ {0} /\ Size \in Nat \ {0}
  /\ SectorSize % PageSize = 0 /\ BlockSize % PageSize = 0
  /\ Initially \subseteq Arrays

VARIABLES
  mem,       \* the array
  wel,       \* write enable latch
  target,    \* what the array will be when the work is done; Idle if none
  down,      \* deep power-down
  cs,        \* level of the chip select
  received   \* what came in since the chip select fell

chipVars == <<mem, wel, target, down, cs, received>>

Idle == <<>>
NoCommand == [code |-> 0, address |-> 0, data |-> <<>>]

ChipInit ==
  /\ mem \in Initially
  /\ wel = FALSE /\ target = Idle /\ down = FALSE
  /\ cs = 1 /\ received = NoCommand

Working == target # Idle

\* The chip leaves the address bits aside that its array is too small for.
Decoded(a) == a % Size

\* The address of the k-th data byte: within the page that was addressed.
PageByte(a, k) == PageSize * (a \div PageSize) + ((a + k - 1) % PageSize)

Cleared(a, data) ==
  [x \in Addresses |->
     mem[x] \ UNION {Bits \ data[k] : k \in {j \in 1 .. Len(data) : PageByte(a, j) = x}}]

Filled(a, unit) == [x \in Addresses |-> IF x \div unit = a \div unit THEN Bits ELSE mem[x]]

\* The commands, by their codes.
Obey(c, a, data) ==
  \/ c = 6   /\ wel' = TRUE  /\ UNCHANGED <<target, down>>
  \/ c = 4   /\ wel' = FALSE /\ UNCHANGED <<target, down>>
  \/ c = 185 /\ down' = TRUE /\ UNCHANGED <<wel, target>>
  \/ c = 171 /\ down' = FALSE /\ UNCHANGED <<wel, target>>
  \/ /\ wel
     /\ \/ c = 2 /\ data # <<>> /\ target' = Cleared(a, data)
        \/ c = 32 /\ target' = Filled(a, SectorSize)
        \/ c = 82 /\ target' = Filled(a, BlockSize)
        \/ c = 96 /\ target' = Filled(0, Size)
     /\ UNCHANGED <<wel, down>>

\* What is not obeyed changes nothing: reads, and commands at the wrong time.
Ignores(c, data) ==
  \/ Working
  \/ down /\ c # 171
  \/ ~wel /\ c \in {2, 32, 82, 96}
  \/ c = 2 /\ data = <<>>
  \/ c \in {0, 3, 5, 144}

\* The chip select rises.
Deselected ==
  /\ cs' = 1 /\ received' = NoCommand
  /\ LET c == received.code
     IN  IF Ignores(c, received.data)
         THEN UNCHANGED <<wel, target, down>>
         ELSE Obey(c, Decoded(received.address), received.data)
  /\ UNCHANGED mem

\* The work is done; the latch falls back.
Complete ==
  /\ Working
  /\ mem' = target /\ target' = Idle /\ wel' = FALSE
  /\ UNCHANGED <<down, cs, received>>

\* A change from m to t that was cut short: every cell somewhere on its way.
OnTheWay(m, t) ==
  LET changing == {x \in Addresses : m[x] # t[x]}
      between(x) == {v \in SUBSET Bits : (m[x] \cap t[x]) \subseteq v /\ v \subseteq (m[x] \cup t[x])}
  IN  {[x \in Addresses |-> IF x \in changing THEN part[x] ELSE m[x]] :
         part \in {p \in [changing -> SUBSET Bits] : \A x \in changing : p[x] \in between(x)}}

ChipPowerCut ==
  /\ mem' \in IF Working THEN OnTheWay(mem, target) ELSE {mem}
  /\ wel' = FALSE /\ target' = Idle /\ down' = FALSE
  /\ cs' = 1 /\ received' = NoCommand

ChipTypeOK ==
  /\ mem \in Arrays
  /\ wel \in BOOLEAN /\ down \in BOOLEAN
  /\ Working => target \in Arrays
  /\ cs \in {0, 1}
  /\ received.address \in Nat
=============================================================================
