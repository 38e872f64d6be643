------------------------------ MODULE Numbers -------------------------------
(***************************************************************************)
(* st7789_display/src/main.c: a demo that draws shapes whose places, sizes *)
(* and colours come from a shift register with feedback.                   *)
(***************************************************************************)
EXTENDS Program, FiniteSets

CONSTANTS
  Width,    \* of the shift register; 31 in the code
  Turns,    \* turns until the screen is cleared; 20 in the code
  MaxDrawn  \* bound on the numbers drawn

VARIABLES
  shift_register,
  count,    \* turns since the screen was cleared
  drawn     \* history: numbers drawn

numbersVars == <<shift_register, count, drawn>>

\* The arguments of drawRectangle and fillRectangle are five numbers each, those
\* of drawCircle and fillCircle four.
Arguments == 5 + 5 + 4 + 4

numbers310 ==
  [setup |-> <<"display_begin">>, loop |-> [i \in 1 .. Arguments |-> "random"] \o <<"count">>]
numbers260 == numbers310

Programs == [numbers310 |-> numbers310, numbers260 |-> numbers260]
Boards == DOMAIN Programs
main == IF board \in Boards THEN Programs[board] ELSE Other

\* The positions of the register, a register being the set of its ones.
Positions == 0 .. (Width - 1)

\* The ones move up by one; the one at the end falls out.
MovedUp(r) == {i + 1 : i \in r \ {Width - 1}}

\* Mutant: the taps are counted from one.
ShiftOffByOne(r) ==
  MovedUp(r) \cup (IF Width - 5 \in r <=> Width - 2 \in r THEN {0} ELSE {})

\* prbs: the exclusive or of bits 27 and 30, inverted, enters at the right.
\* Nothing reads the bits above them, and busy is never found set: prbs clears
\* it before it returns, and no interrupt calls it.
Shift(r) ==
  MovedUp(r) \cup (IF Width - 4 \in r <=> Width - 1 \in r THEN {0} ELSE {})

\* 0xaa551199
Seed == {0, 3, 4, 7, 8, 12, 16, 18, 20, 22, 25, 27, 29, 31} \cap Positions

Init ==
  /\ board \in Boards /\ at = 1
  /\ shift_register = Seed /\ count = 0 /\ drawn = 0

Begin ==
  /\ At(main, "display_begin")
  /\ Advance(main) \/ Stop
  /\ UNCHANGED numbersVars

\* random(lower, upper) draws one number and takes it modulo the range.
random ==
  /\ At(main, "random") /\ Advance(main)
  /\ shift_register' = Shift(shift_register)
  /\ drawn < MaxDrawn /\ drawn' = drawn + 1
  /\ UNCHANGED count

\* After some turns the screen is cleared.
Count ==
  /\ At(main, "count") /\ Advance(main)
  /\ count' = IF count + 1 >= Turns THEN 0 ELSE count + 1
  /\ UNCHANGED <<shift_register, drawn>>

Next == Begin \/ random \/ Count

(***************************************************************************)
(* Properties                                                              *)
(***************************************************************************)
Zeros(r) == Positions \ r

\* A relation on the positions as a matrix of bits, applied to the zeros of a
\* register: a zero stays where an odd number of zeros lead to.
Sum(m, z) == {i \in Positions : Cardinality({j \in z : <<j, i>> \in m}) % 2 = 1}
After(m, r) == Zeros(Sum(m, Zeros(r)))

\* The matrix of 2^k numbers, that of prbs squared k times: prbs is linear in
\* the zeros, since its feedback is inverted.
Leap[k \in 0 .. Width] ==
  IF k = 0 THEN {p \in Positions \X Positions : p[2] \in Zeros(Shift(Zeros({p[1]})))}
           ELSE LET m == Leap[k - 1]
                IN  UNION {{j} \X Sum(m, Sum(m, {j})) : j \in Positions}

\* 2^Width - 1, which has no divisor when Width is 31.
Period == 2^(Width - 1) - 1 + 2^(Width - 1)
Prime == \A d \in 2 .. 2^((Width + 1) \div 2) : d > Period \div d \/ Period % d # 0

(***************************************************************************)
(* "It should be maximum length but this has not been checked" (line 15),  *)
(* for the register of the board: after 2^Width numbers it is where it was *)
(* after one, so its period divides 2^Width - 1, which is a prime, and it  *)
(* is not 1.  Hence it visits every state but the one that would lock it   *)
(* up.                                                                     *)
(***************************************************************************)
MaximumLength ==
  /\ After(Leap[0], shift_register) = Shift(shift_register)
  /\ After(Leap[Width], shift_register) = Shift(shift_register)
  /\ Shift(shift_register) # shift_register
  /\ Prime
=============================================================================
