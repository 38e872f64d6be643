----------------------------- MODULE FlashMain -----------------------------
(***************************************************************************)
(* mx25l8005/src/main.c: enable writing, program a few bytes, then read    *)
(* them back for ever.  The power fails and the reset button is pressed at *)
(* any moment; the contents of the chip outlive both.  But for the resets  *)
(* main is one of the callers that FlashCalls speaks of.                   *)
(***************************************************************************)
EXTENDS FlashCalls

CONSTANTS
  Address, Data,         \* 0xfed04 and txdata on the board
  MaxResets              \* bound on the resets explored

ASSUME MainAssumption ==
  /\ Address \in Addresses
  /\ Data \in Seq(SUBSET Bits) /\ Address + Len(Data) <= Size
  /\ \A k \in 1 .. Len(Data) : PageByte(Address, k) = Address + k - 1  \* on one page
  /\ MaxResets \in Nat

VARIABLES
  pc,            \* next call of main
  resets,
  original       \* history: the contents before the first run

mainVars == <<pc, resets, original>>
allVars == <<vars, mainVars>>

MainInit ==
  /\ Init
  /\ pc = "enable"
  /\ resets = 0
  /\ original = mem

InitSpi == Start /\ UNCHANGED mainVars

EnableCall == [op |-> "write_enable"]
ProgramCall == [op |-> "page_program", address |-> Address, data |-> Data]
ReadCall == [op |-> "read_data", address |-> Address, len |-> Len(Data)]
MainCalls == {EnableCall, ProgramCall, ReadCall}

ASSUME CallerAssumption == MainCalls \subseteq Requests

\* Mutant: a sector erase in place of the commented-out one.
MainErases ==
  /\ \/ pc = "enable" /\ pc' = "program" /\ Calls(EnableCall)
     \/ pc = "program" /\ pc' = "read" /\ Calls([op |-> "sector_erase", address |-> Address])
     \/ pc = "read" /\ pc' = "read" /\ Calls(ReadCall)
  /\ UNCHANGED <<cuts, resets, original>>

\* Mutant: no write_enable.
MainForgets ==
  /\ \/ pc = "enable" /\ pc' = "read" /\ Calls(ProgramCall)
     \/ pc = "read" /\ pc' = "read" /\ Calls(ReadCall)
  /\ UNCHANGED <<cuts, resets, original>>

Main ==
  /\ \/ pc = "enable" /\ pc' = "program" /\ Calls(EnableCall)
     \/ pc = "program" /\ pc' = "read" /\ Calls(ProgramCall)
     \/ pc = "read" /\ pc' = "read" /\ Calls(ReadCall)
  /\ UNCHANGED <<cuts, resets, original>>

MainContinues == Continue /\ UNCHANGED mainVars

MainChip == Chip /\ UNCHANGED mainVars

MainCut ==
  /\ Cut
  /\ pc' = "enable"
  /\ UNCHANGED <<resets, original>>

Press ==
  /\ resets < MaxResets /\ resets' = resets + 1
  /\ Reset
  /\ pc' = "enable"
  /\ UNCHANGED <<cuts, original>>

MainNext == InitSpi \/ Main \/ MainContinues \/ MainChip \/ MainCut \/ Press

MainSafety == MainInit /\ [][MainNext]_allVars

\* The only thread runs, and the chip gets its work done.
MainSpec ==
  MainSafety /\ WF_allVars(InitSpi) /\ WF_allVars(Main)
             /\ WF_allVars(MainContinues) /\ WF_allVars(MainChip)

MainTypeOK ==
  /\ TypeOK
  /\ pc \in {"enable", "program", "read"}
  /\ resets \in 0 .. MaxResets
  /\ original \in Arrays

Asked == Address .. Address + Len(Data) - 1
Wanted(x) == original[x] \cap Data[x - Address + 1]
Erased == \A x \in Asked : original[x] = Bits

(***************************************************************************)
(* Power cuts and resets at any moment, half-sent commands included, leave *)
(* every cell main did not ask for as it was and clear no bit it did not   *)
(* want cleared (main.c line 18; ext_flash_mem.c lines 128-154).           *)
(***************************************************************************)
OnlyAsked ==
  \A x \in Addresses :
    IF x \in Asked THEN Wanted(x) \subseteq mem[x] /\ mem[x] \subseteq original[x]
                   ELSE mem[x] = original[x]

(***************************************************************************)
(* What main reads (line 21) is what the cells hold at that moment, after  *)
(* any power cuts and resets: page_program has waited for the chip.  If    *)
(* the reset button was never pressed, that is the bits the cells held at  *)
(* first and the data have in common, hence the data on an erased chip     *)
(* only: the erase of line 17 is commented out.                            *)
(***************************************************************************)
ReadsBack ==
  step = "deselect" /\ call.op = "read_data" =>
    /\ answer = [k \in 1 .. Len(Data) |-> mem[Address + k - 1]]
    /\ resets = 0 => answer = [k \in 1 .. Len(Data) |-> Wanted(Address + k - 1)]
    /\ resets = 0 /\ Erased => answer = Data

(***************************************************************************)
(* However often the power fails while it programs, main ends up with the  *)
(* bits cleared that its data want cleared and no others, since            *)
(* programming the same data again is harmless (main.c lines 15-18): the   *)
(* data themselves, on an erased chip.  A reset in the middle of a         *)
(* transfer breaks this: the chip is then still at work on half of the     *)
(* data when write_enable is sent.                                         *)
(***************************************************************************)
Programmed == \A x \in Asked : mem[x] = Wanted(x)

SurvivesPowerCuts == [](resets = 0) => <>[]Programmed
=============================================================================
