--------------------------- MODULE MCPeripherals ----------------------------
(***************************************************************************)
(* Constants for checking Peripherals: every program, and the one that     *)
(* sets a duty from a voltage.                                             *)
(***************************************************************************)
EXTENDS Peripherals

MCAll == {"steps"} \cup Lsm!Boards \cup Bmp!Boards \cup Analog!Boards
           \cup Demo!Boards \cup Gpio!Boards
MCVoltages == {-1, 0, 1, 2048, 4095}
MCAnalog == {"analog310", "analog370"}
=============================================================================
