----------------------------- MODULE LedMatrix -----------------------------
(***************************************************************************)
(* matrix.c: the micro:bit's N x N LED matrix on GPIO pins.  An LED is lit *)
(* while its row pin is high and its column pin is low.  An update is a    *)
(* series of writes to single pins, and the eye sees every pin change.     *)
(* The uint8_t bit masks of the code are sets of bit positions, bit 0      *)
(* being position 1.                                                       *)
(***************************************************************************)
EXTENDS Integers, Sequences

CONSTANT N   \* rows and columns; 5 on the board

ASSUME MatrixAssumption == N \in 1 .. 7

VARIABLES
  row,   \* levels of the row pins
  col,   \* levels of the column pins
  todo   \* pin writes the running matrix_* call has still to do

matrixVars == <<row, col, todo>>

Lines == 1 .. N
Byte == 1 .. 8

Level(mask, i) == IF i \in mask THEN 1 ELSE 0

\* After a reset the output latches hold 0 and the pins are inputs.
MatrixInit ==
  /\ row = [i \in Lines |-> 0]
  /\ col = [i \in Lines |-> 0]
  /\ todo = <<>>

Write(side, i, level) == [side |-> side, line |-> i, level |-> level]

\* Mutant: the columns are written from the last to the first.
PutPatternReversed(rows, cols) ==
  [k \in 1 .. 2 * N |->
     IF k <= N THEN Write("row", k, Level(rows, k))
               ELSE Write("col", 2 * N + 1 - k, Level(cols, 2 * N + 1 - k))]

\* Mutant: the last column is forgotten.
PutPatternShort(rows, cols) ==
  [k \in 1 .. (2 * N) - 1 |->
     IF k <= N THEN Write("row", k, Level(rows, k))
               ELSE Write("col", k - N, Level(cols, k - N))]

matrix_put_pattern(rows, cols) ==
  [k \in 1 .. 2 * N |->
     IF k <= N THEN Write("row", k, Level(rows, k))
               ELSE Write("col", k - N, Level(cols, k - N))]

matrix_all_off ==
  [k \in 1 .. 2 * N |->
     IF k <= N THEN Write("row", k, 0) ELSE Write("col", k - N, 1)]

\* ~mask in C, kept to the 8 bits the parameter has.
Not(mask) == Byte \ mask

\* mask << 1 in a uint8_t.
Shift(mask) == {i + 1 : i \in mask} \cap Byte

\* Mutant: mask >= 16 on the board.
PastLastEarly(mask) == \E i \in mask : i >= N

\* mask > 16 on the board: larger than the mask of the last line alone.
PastLast(mask) == (\E i \in mask : i > N) \/ (N \in mask /\ mask # {N})

\* The matrix call is over.
AtRest == todo = <<>>

\* set_row1 .. set_row5, set_col1 .. set_col5
SetPin ==
  /\ todo # <<>>
  /\ todo' = Tail(todo)
  /\ LET w == Head(todo)
     IN  /\ row' = IF w.side = "row" THEN [row EXCEPT ![w.line] = w.level] ELSE row
         /\ col' = IF w.side = "col" THEN [col EXCEPT ![w.line] = w.level] ELSE col

Call(writes) ==
  /\ AtRest
  /\ todo' = writes
  /\ UNCHANGED <<row, col>>

\* matrix_begin: the pins become outputs and everything is switched off.
matrix_begin == Call(matrix_all_off)

Lit == {p \in Lines \X Lines : row[p[1]] = 1 /\ col[p[2]] = 0}
=============================================================================
