----------------------------- MODULE FlashCalls -----------------------------
(***************************************************************************)
(* The functions of ext_flash_mem.c called in any order, and the power cut *)
(* at any moment.                                                          *)
(***************************************************************************)
EXTENDS FlashDriver

CONSTANTS
  Requests,  \* the calls explored
  MaxCuts    \* bound on the power cuts explored

ASSUME CallsAssumption ==
  /\ \A c \in Requests :
       /\ c.op \in DOMAIN Opcode
       /\ c.op \in {"read_data", "page_program", "sector_erase", "block_erase"} => c.address \in Nat
       /\ Programs(c) => c.data \in Seq(SUBSET Bits)
  /\ MaxCuts \in Nat

VARIABLE cuts

vars == <<chipVars, driverVars, cuts>>

Init == ChipInit /\ DriverInit /\ cuts = 0

Start == init_spi /\ UNCHANGED cuts

NewCall == (\E c \in Requests : Calls(c)) /\ UNCHANGED cuts

Continue == (Transfer \/ Return) /\ UNCHANGED cuts

Chip == ChipWorks /\ UNCHANGED cuts

Cut == cuts < MaxCuts /\ cuts' = cuts + 1 /\ PowerCut

Next == Start \/ NewCall \/ Continue \/ Chip \/ Cut

Safety == Init /\ [][Next]_vars

\* The calling thread runs, and the chip gets its work done.
Spec == Safety /\ WF_vars(Start) /\ WF_vars(Continue) /\ WF_vars(Chip)

TypeOK == DriverTypeOK /\ cuts \in 0 .. MaxCuts

(***************************************************************************)
(* While the chip is busy it is asked for nothing but its status: every    *)
(* function that starts work waits for its end (lines 149-152, 169-172,    *)
(* 189-192, 210-217), so no command is lost.                               *)
(***************************************************************************)
WaitsForChip == Working => step = "poll"

\* A call has had its effect.
Performed ==
  \/ step \in {"poll", "return"} /\ ~Working
  \/ step = "deselect" /\ call.op = "read_data"

Array == INSTANCE FlashArray WITH enabled <- wel, asleep <- down, performed <- Performed

(***************************************************************************)
(* Each call takes effect once, at one moment, on exactly the cells it is  *)
(* meant to change and only when enabled; a power cut leaves at most the   *)
(* running change half done (ext_flash_mem.c as a whole).                  *)
(***************************************************************************)
ImplementsArray == Array!Safety

(***************************************************************************)
(* A call comes back, however long the chip takes (the loops over busy()), *)
(* unless the chip sleeps: its status line then floats, and the loop may   *)
(* read it as busy for ever.                                               *)
(***************************************************************************)
CallsReturn == step # "idle" ~> step = "idle" \/ down
=============================================================================
