---------------------------- MODULE MCFlashCalls ----------------------------
(***************************************************************************)
(* Constants for checking FlashCalls: cells of one bit, with a program     *)
(* that wraps within its page, one without data, erases that start inside  *)
(* their unit, a read past the end of the array, and addresses beyond the  *)
(* array and beyond the bits that are sent.                                *)
(***************************************************************************)
EXTENDS FlashCalls, TLC

Bit == {1}
Byte0 == {}

Plain == {[op |-> o] : o \in {"write_enable", "write_disable", "power_down", "power_up",
                              "chip_erase", "write_status_register",
                              "read_status_register", "read_electronic_signature"}}

Program(a, d) == [op |-> "page_program", address |-> a, data |-> d]
Read(a, n) == [op |-> "read_data", address |-> a, len |-> n]
Erase(o, a) == [op |-> o, address |-> a]

MCRequests ==
  Plain
  \cup {Program(48, <<Byte0, Bit>>), Program(5, <<Byte0, Byte0>>), Program(11, <<Byte0, Byte0>>),
        Program(6, <<>>)}
  \cup {Read(15, 2)}
  \cup {Erase("sector_erase", 39), Erase("sector_erase", 8), Erase("block_erase", 25)}

MCInitially == {[x \in Addresses |-> IF x \in 4 .. 13 THEN Byte0 ELSE Bit]}
=============================================================================
