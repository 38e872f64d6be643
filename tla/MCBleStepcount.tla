--------------------------- MODULE MCBleStepcount ---------------------------
(***************************************************************************)
(* Constants for checking BleStepcount: how often the counter may change.  *)
(***************************************************************************)
EXTENDS BleStepcount

CONSTANT Changes

MCChan == {"step"}
MCMaxGen == [c \in MCChan |-> Changes]
=============================================================================
