--------------------------- MODULE MCBlePrograms ---------------------------
(***************************************************************************)
(* Constants for checking BlePrograms.                                     *)
(***************************************************************************)
EXTENDS BlePrograms

CONSTANT Changes

MCChan == {"value"}
MCMaxGen == [c \in MCChan |-> Changes]
=============================================================================
