--------------------------- MODULE MCMicrobitDemo ---------------------------
(***************************************************************************)
(* Constants for checking MicrobitDemo: how often each of the three values *)
(* may change.  A bound of 0 keeps a channel quiet.                        *)
(***************************************************************************)
EXTENDS MicrobitDemo

CONSTANTS StepChanges, AChanges, BChanges

MCChan == {"step", "a", "b"}
MCMaxGen == [c \in MCChan |-> CASE c = "step" -> StepChanges
                                [] c = "a" -> AChanges
                                [] c = "b" -> BChanges]
=============================================================================
