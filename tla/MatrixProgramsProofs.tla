------------------------ MODULE MatrixProgramsProofs ------------------------
(***************************************************************************)
(* Proofs about the programs that drive the LED matrix, for matrices of    *)
(* any size the code's bytes can hold.                                     *)
(***************************************************************************)
EXTENDS MatrixPrograms, FiniteSetTheorems, SequenceTheorems, TLAPS

(***************************************************************************)
(* The matrix between two pin writes.                                      *)
(***************************************************************************)
Writes == [side : {"row", "col"}, line : Lines, level : {0, 1}]

MatrixTypeOK ==
  /\ row \in [Lines -> {0, 1}] /\ col \in [Lines -> {0, 1}]
  /\ todo \in Seq(Writes) /\ Len(todo) <= 2 * N

\* Pin writes already done, of an update's 2 * N.
Done == (2 * N) - Len(todo)

WriteAt(R, C, k) ==
  IF k <= N THEN Write("row", k, Level(R, k)) ELSE Write("col", k - N, Level(C, k - N))

\* The matrix is being set to rows R and columns C, in the order of the code:
\* rows first, each side from its first line to its last.
Updating(R, C) ==
  /\ \A k \in 1 .. Len(todo) : todo[k] = WriteAt(R, C, Done + k)
  /\ \A i \in Lines : i <= Done => row[i] = Level(R, i)
  /\ \A i \in Lines : i + N <= Done => col[i] = Level(C, i)

\* What has not been written yet still stands for rows R and columns C.
Leaving(R, C) ==
  /\ \A i \in Lines : i > Done => row[i] = Level(R, i)
  /\ \A i \in Lines : i + N > Done => col[i] = Level(C, i)

LEMMA SizeIs == N \in Nat /\ 1 <= N /\ N <= 7
  BY MatrixAssumption

LEMMA PatternIs ==
  ASSUME NEW R, NEW C
  PROVE  /\ matrix_put_pattern(R, C) \in Seq(Writes)
         /\ Len(matrix_put_pattern(R, C)) = 2 * N
         /\ \A k \in 1 .. 2 * N : matrix_put_pattern(R, C)[k] = WriteAt(R, C, k)
  <1> DEFINE p == matrix_put_pattern(R, C)
  <1>1. p = [k \in 1 .. 2 * N |-> WriteAt(R, C, k)]
    BY DEF matrix_put_pattern, WriteAt
  <1>2. \A k \in 1 .. 2 * N : WriteAt(R, C, k) \in Writes
    BY SizeIs DEF WriteAt, Write, Writes, Level, Lines
  <1>3. p \in [1 .. 2 * N -> Writes]
    BY <1>1, <1>2
  <1>4. 2 * N \in Nat
    BY SizeIs
  <1> HIDE DEF p
  <1>5. p \in Seq(Writes)
    BY <1>3, <1>4, SeqDef
  <1>6. Len(p) = 2 * N
    BY <1>3, <1>4, <1>5, LenProperties
  <1> QED BY <1>1, <1>5, <1>6 DEF p

LEMMA AllOffIs == matrix_all_off = matrix_put_pattern({}, Byte)
  <1>1. \A k \in 1 .. 2 * N :
          /\ Level({}, k) = 0
          /\ ~(k <= N) => Level(Byte, k - N) = 1
    BY SizeIs DEF Level, Byte
  <1> QED BY <1>1 DEF matrix_all_off, matrix_put_pattern

LEMMA CallStarts ==
  ASSUME NEW R, NEW C, MatrixTypeOK, Call(matrix_put_pattern(R, C))
  PROVE  /\ MatrixTypeOK' /\ Updating(R, C)' /\ ~AtRest'
         /\ \A P, Q : Updating(P, Q) => Leaving(P, Q)'
  <1>1. todo = <<>> /\ Len(todo) = 0 /\ Done = 2 * N
    BY SizeIs DEF Call, AtRest, Done
  <1>2. todo' = matrix_put_pattern(R, C) /\ UNCHANGED <<row, col>>
    BY DEF Call
  <1>3. todo' \in Seq(Writes) /\ Len(todo') = 2 * N /\ \A k \in 1 .. 2 * N : todo'[k] = WriteAt(R, C, k)
    BY <1>2, PatternIs
  <1>4. Done' = 0
    BY <1>3, SizeIs DEF Done
  <1>5. MatrixTypeOK'
    BY <1>2, <1>3, SizeIs DEF MatrixTypeOK
  <1>6. Updating(R, C)'
    BY <1>3, <1>4, SizeIs DEF Updating, Lines
  <1>7. ~AtRest'
    BY <1>3, SizeIs DEF AtRest
  <1>8. \A P, Q : Updating(P, Q) => Leaving(P, Q)'
    BY <1>1, <1>2, <1>4, SizeIs DEF Updating, Leaving, Lines
  <1> QED BY <1>5, <1>6, <1>7, <1>8

LEMMA PinMoves ==
  ASSUME MatrixTypeOK, SetPin
  PROVE  /\ MatrixTypeOK'
         /\ \A R, C : Updating(R, C) => Updating(R, C)'
         /\ \A R, C, P, Q : Updating(R, C) /\ Leaving(P, Q) => Leaving(P, Q)'
  <1> DEFINE w == Head(todo)
             d == Done
  <1>1. /\ todo \in Seq(Writes) /\ todo # <<>> /\ todo' = Tail(todo)
        /\ row' = IF w.side = "row" THEN [row EXCEPT ![w.line] = w.level] ELSE row
        /\ col' = IF w.side = "col" THEN [col EXCEPT ![w.line] = w.level] ELSE col
    BY DEF MatrixTypeOK, SetPin
  <1>2. /\ w \in Writes /\ w = todo[1] /\ Len(todo) \in Nat /\ 1 <= Len(todo) /\ Len(todo) <= 2 * N
        /\ todo' \in Seq(Writes) /\ Len(todo') = Len(todo) - 1
        /\ \A k \in 1 .. Len(todo') : todo'[k] = todo[k + 1]
    BY <1>1 DEF MatrixTypeOK
  <1>3. d \in Nat /\ d < 2 * N /\ Done' = d + 1
    BY <1>2, SizeIs DEF Done
  <1>4. MatrixTypeOK'
    <2>1. row \in [Lines -> {0, 1}] /\ col \in [Lines -> {0, 1}]
      BY DEF MatrixTypeOK
    <2>2. w.line \in Lines /\ w.level \in {0, 1}
      BY <1>2 DEF Writes
    <2> HIDE DEF w
    <2>3. row' \in [Lines -> {0, 1}]
      BY <1>1, <2>1, <2>2
    <2>4. col' \in [Lines -> {0, 1}]
      BY <1>1, <2>1, <2>2
    <2>5. Len(todo') <= 2 * N
      BY <1>2, SizeIs
    <2> QED BY <1>2, <2>3, <2>4, <2>5 DEF MatrixTypeOK
  <1> HIDE DEF w, d
  <1>5. ASSUME NEW R, NEW C, Updating(R, C)
        PROVE  /\ w = WriteAt(R, C, d + 1)
               /\ d + 1 <= N => row' = [row EXCEPT ![d + 1] = Level(R, d + 1)] /\ col' = col
               /\ ~(d + 1 <= N) => row' = row /\ col' = [col EXCEPT ![d + 1 - N] = Level(C, d + 1 - N)]
    <2>1. w = WriteAt(R, C, d + 1)
      BY <1>2, <1>5 DEF Updating, d
    <2>2. CASE d + 1 <= N
      <3>1. w = Write("row", d + 1, Level(R, d + 1))
        BY <2>1, <2>2 DEF WriteAt
      <3>2. w.side = "row" /\ w.line = d + 1 /\ w.level = Level(R, d + 1)
        BY <3>1 DEF Write
      <3> QED BY <1>1, <2>1, <2>2, <3>2
    <2>3. CASE ~(d + 1 <= N)
      <3>1. w = Write("col", d + 1 - N, Level(C, d + 1 - N))
        BY <2>1, <2>3, <1>3, SizeIs DEF WriteAt
      <3>2. w.side = "col" /\ w.line = d + 1 - N /\ w.level = Level(C, d + 1 - N)
        BY <3>1 DEF Write
      <3> QED BY <1>1, <2>1, <2>3, <3>2
    <2> QED BY <2>2, <2>3
  <1>6. ASSUME NEW R, NEW C, Updating(R, C)
        PROVE  Updating(R, C)'
    <2>1. \A k \in 1 .. Len(todo') : todo'[k] = WriteAt(R, C, Done' + k)
      <3> TAKE k \in 1 .. Len(todo')
      <3>1. k + 1 \in 1 .. Len(todo) /\ Done' + k = d + (k + 1)
        BY <1>2, <1>3
      <3> QED BY <1>2, <1>6, <3>1 DEF Updating, d
    <2>2. row \in [Lines -> {0, 1}] /\ col \in [Lines -> {0, 1}]
      BY DEF MatrixTypeOK
    <2>3. \A i \in Lines : i <= d + 1 => row'[i] = Level(R, i)
      <3> SUFFICES ASSUME NEW i \in Lines, i <= d + 1
                   PROVE  row'[i] = Level(R, i)
        OBVIOUS
      <3>1. CASE i = d + 1
        BY <1>3, <1>5, <1>6, <2>2, <3>1, SizeIs DEF Lines
      <3>2. CASE i # d + 1
        <4>1. i <= d /\ row[i] = Level(R, i)
          BY <1>3, <1>6, <3>2, SizeIs DEF Updating, Lines, d
        <4>2. row'[i] = row[i]
          BY <1>3, <1>5, <1>6, <2>2, <3>2, SizeIs DEF Lines
        <4> QED BY <4>1, <4>2
      <3> QED BY <3>1, <3>2
    <2>4. \A i \in Lines : i + N <= d + 1 => col'[i] = Level(C, i)
      <3> SUFFICES ASSUME NEW i \in Lines, i + N <= d + 1
                   PROVE  col'[i] = Level(C, i)
        OBVIOUS
      <3>0. i \in Nat /\ ~(d + 1 <= N)
        BY <1>3, SizeIs DEF Lines
      <3>1. CASE i + N = d + 1
        <4>1. d + 1 - N = i
          BY <1>3, <3>0, <3>1, SizeIs
        <4> QED BY <1>5, <1>6, <2>2, <3>0, <4>1
      <3>2. CASE i + N # d + 1
        <4>1. i + N <= d /\ d + 1 - N # i
          BY <1>3, <3>0, <3>2, SizeIs
        <4>2. col[i] = Level(C, i)
          BY <1>6, <4>1 DEF Updating, d
        <4>3. col'[i] = col[i]
          BY <1>5, <1>6, <2>2, <3>0, <4>1
        <4> QED BY <4>2, <4>3
      <3> QED BY <3>1, <3>2
    <2> QED BY <1>3, <2>1, <2>3, <2>4 DEF Updating
  <1>7. ASSUME NEW R, NEW C, NEW P, NEW Q, Updating(R, C), Leaving(P, Q)
        PROVE  Leaving(P, Q)'
    <2>1. row \in [Lines -> {0, 1}] /\ col \in [Lines -> {0, 1}]
      BY DEF MatrixTypeOK
    <2>2. \A i \in Lines : i > d + 1 => row'[i] = Level(P, i)
      BY <1>3, <1>5, <1>7, <2>1, SizeIs DEF Leaving, Lines, d
    <2>3. \A i \in Lines : i + N > d + 1 => col'[i] = Level(Q, i)
      BY <1>3, <1>5, <1>7, <2>1, SizeIs DEF Leaving, Lines, d
    <2> QED BY <1>3, <2>2, <2>3 DEF Leaving
  <1> QED BY <1>4, <1>6, <1>7

LEMMA RestShows ==
  ASSUME NEW R, NEW C, Updating(R, C), AtRest
  PROVE  Lit = {p \in Lines \X Lines : p[1] \in R /\ p[2] \notin C}
  <1>1. Done = 2 * N
    BY SizeIs DEF AtRest, Done
  <1>2. \A i \in Lines : row[i] = Level(R, i) /\ col[i] = Level(C, i)
    BY <1>1, SizeIs DEF Updating, Lines
  <1>3. \A i \in Lines : (row[i] = 1 <=> i \in R) /\ (col[i] = 0 <=> i \notin C)
    BY <1>2 DEF Level
  <1> QED BY <1>3 DEF Lit

-----------------------------------------------------------------------------
(***************************************************************************)
(* Positions: the masks hold one bit.                                      *)
(***************************************************************************)
Single(mask) == \E i \in Lines : mask = {i}

LEMMA ShowsOne ==
  ASSUME NEW i \in Lines, NEW j \in Lines, Updating({i}, Not({j})), AtRest
  PROVE  Lit = {i} \X {j} /\ Cardinality(Lit) = 1
  <1>1. Lines \subseteq Byte
    BY SizeIs DEF Lines, Byte
  <1>2. Lit = {p \in Lines \X Lines : p[1] \in {i} /\ p[2] \notin Not({j})}
    BY RestShows
  <1>3. Lit = {i} \X {j}
    BY <1>1, <1>2 DEF Not
  <1>4. {i} \X {j} = {<<i, j>>}
    OBVIOUS
  <1> QED BY <1>3, <1>4, FS_Singleton

LEMMA ShiftIs ==
  ASSUME NEW i \in Lines
  PROVE  Shift({i}) = {i + 1} /\ i + 1 \in Byte
  BY SizeIs DEF Shift, Lines, Byte

LEMMA PastLastIs ==
  ASSUME NEW k \in Byte
  PROVE  PastLast({k}) <=> k > N
  BY SizeIs DEF PastLast, Byte

\* The shift and the two wrap-arounds keep one bit in each mask.
LEMMA MoveOn ==
  ASSUME Single(rows), Single(cols),
         IF PastLast(Shift(cols))
         THEN cols' = {1} /\ rows' = IF PastLast(Shift(rows)) THEN {1} ELSE Shift(rows)
         ELSE cols' = Shift(cols) /\ UNCHANGED rows
  PROVE  /\ Single(rows)' /\ Single(cols)'
         /\ cols' # {1} => \E j \in Lines : j + 1 \in Lines /\ cols = {j} /\ cols' = {j + 1} /\ UNCHANGED rows
  <1>1. PICK i \in Lines : rows = {i}
    BY DEF Single
  <1>2. PICK j \in Lines : cols = {j}
    BY DEF Single
  <1>3. 1 \in Lines /\ Lines' = Lines
    BY SizeIs DEF Lines
  <1>4. Shift(rows) = {i + 1} /\ (PastLast(Shift(rows)) <=> i + 1 > N)
    BY <1>1, ShiftIs, PastLastIs
  <1>5. Shift(cols) = {j + 1} /\ (PastLast(Shift(cols)) <=> j + 1 > N)
    BY <1>2, ShiftIs, PastLastIs
  <1>6. /\ ~(i + 1 > N) => i + 1 \in Lines
        /\ ~(j + 1 > N) => j + 1 \in Lines
    BY SizeIs DEF Lines
  <1>7. rows' \in {rows, {1}, {i + 1}} /\ (rows' = {i + 1} => rows' = rows \/ i + 1 \in Lines \/ rows' = {1})
    BY <1>4, <1>6
  <1>8. Single(rows)'
    BY <1>1, <1>3, <1>4, <1>6 DEF Single
  <1>9. CASE PastLast(Shift(cols))
    BY <1>3, <1>8, <1>9 DEF Single
  <1>10. CASE ~PastLast(Shift(cols))
    <2>1. cols' = {j + 1} /\ UNCHANGED rows /\ j + 1 \in Lines
      BY <1>5, <1>6, <1>10
    <2> QED BY <1>2, <1>3, <1>8, <2>1 DEF Single
  <1> QED BY <1>9, <1>10

-----------------------------------------------------------------------------
(***************************************************************************)
(* Every program is over the same pins.                                    *)
(***************************************************************************)
LEMMA ScanMatrix ==
  /\ Scan!Lines = Lines /\ Scan!Byte = Byte
  /\ (Scan!AtRest <=> AtRest) /\ Scan!matrixVars = matrixVars
  /\ Scan!Lit = Lit
  /\ Scan!SetPin <=> SetPin
  /\ \A w : Scan!Call(w) <=> Call(w)
  /\ \A R, C : Scan!matrix_put_pattern(R, C) = matrix_put_pattern(R, C)
  /\ Scan!matrix_all_off = matrix_all_off
  /\ \A m : Scan!Not(m) = Not(m)
  /\ \A m : Scan!Shift(m) = Shift(m)
  /\ \A m : Scan!PastLast(m) <=> PastLast(m)
  /\ \A S : Scan!Cardinality(S) = Cardinality(S)
  /\ Scan!MatrixInit <=> MatrixInit
  <1>1. Scan!Lines = Lines /\ Scan!Byte = Byte
    BY DEF Scan!Lines, Lines, Scan!Byte, Byte
  <1>2. (Scan!AtRest <=> AtRest) /\ Scan!matrixVars = matrixVars
    BY DEF Scan!AtRest, AtRest, Scan!matrixVars, matrixVars
  <1>3. Scan!Lit = Lit
    BY DEF Scan!Lit, Lit, Scan!Lines, Lines
  <1>4. Scan!SetPin <=> SetPin
    BY DEF Scan!SetPin, SetPin
  <1>5. \A w : Scan!Call(w) <=> Call(w)
    BY DEF Scan!Call, Call, Scan!AtRest, AtRest
  <1>6. \A R, C : Scan!matrix_put_pattern(R, C) = matrix_put_pattern(R, C)
    BY DEF Scan!matrix_put_pattern, matrix_put_pattern, Scan!Write, Write, Scan!Level, Level
  <1>7. Scan!matrix_all_off = matrix_all_off
    BY DEF Scan!matrix_all_off, matrix_all_off, Scan!Write, Write
  <1>8. \A m : Scan!Not(m) = Not(m)
    BY DEF Scan!Not, Not, Scan!Byte, Byte
  <1>9. \A m : Scan!Shift(m) = Shift(m)
    BY DEF Scan!Shift, Shift, Scan!Byte, Byte
  <1>10. \A m : Scan!PastLast(m) <=> PastLast(m)
    BY DEF Scan!PastLast, PastLast
  <1>11. \A S : Scan!Cardinality(S) = Cardinality(S)
    BY DEF Scan!Cardinality, Cardinality
  <1>12. Scan!MatrixInit <=> MatrixInit
    BY DEF Scan!MatrixInit, MatrixInit, Scan!Lines, Lines
  <1> QED BY <1>1, <1>2, <1>3, <1>4, <1>5, <1>6, <1>7, <1>8, <1>9, <1>10, <1>11, <1>12

LEMMA PolledMatrix ==
  /\ Polled!Lines = Lines /\ Polled!Byte = Byte
  /\ (Polled!AtRest <=> AtRest) /\ Polled!matrixVars = matrixVars
  /\ Polled!Lit = Lit
  /\ Polled!SetPin <=> SetPin
  /\ \A w : Polled!Call(w) <=> Call(w)
  /\ \A R, C : Polled!matrix_put_pattern(R, C) = matrix_put_pattern(R, C)
  /\ Polled!matrix_all_off = matrix_all_off
  /\ \A m : Polled!Not(m) = Not(m)
  /\ \A m : Polled!Shift(m) = Shift(m)
  /\ \A m : Polled!PastLast(m) <=> PastLast(m)
  /\ \A S : Polled!Cardinality(S) = Cardinality(S)
  /\ Polled!MatrixInit <=> MatrixInit
  <1>1. Polled!Lines = Lines /\ Polled!Byte = Byte
    BY DEF Polled!Lines, Lines, Polled!Byte, Byte
  <1>2. (Polled!AtRest <=> AtRest) /\ Polled!matrixVars = matrixVars
    BY DEF Polled!AtRest, AtRest, Polled!matrixVars, matrixVars
  <1>3. Polled!Lit = Lit
    BY DEF Polled!Lit, Lit, Polled!Lines, Lines
  <1>4. Polled!SetPin <=> SetPin
    BY DEF Polled!SetPin, SetPin
  <1>5. \A w : Polled!Call(w) <=> Call(w)
    BY DEF Polled!Call, Call, Polled!AtRest, AtRest
  <1>6. \A R, C : Polled!matrix_put_pattern(R, C) = matrix_put_pattern(R, C)
    BY DEF Polled!matrix_put_pattern, matrix_put_pattern, Polled!Write, Write, Polled!Level, Level
  <1>7. Polled!matrix_all_off = matrix_all_off
    BY DEF Polled!matrix_all_off, matrix_all_off, Polled!Write, Write
  <1>8. \A m : Polled!Not(m) = Not(m)
    BY DEF Polled!Not, Not, Polled!Byte, Byte
  <1>9. \A m : Polled!Shift(m) = Shift(m)
    BY DEF Polled!Shift, Shift, Polled!Byte, Byte
  <1>10. \A m : Polled!PastLast(m) <=> PastLast(m)
    BY DEF Polled!PastLast, PastLast
  <1>11. \A S : Polled!Cardinality(S) = Cardinality(S)
    BY DEF Polled!Cardinality, Cardinality
  <1>12. Polled!MatrixInit <=> MatrixInit
    BY DEF Polled!MatrixInit, MatrixInit, Polled!Lines, Lines
  <1> QED BY <1>1, <1>2, <1>3, <1>4, <1>5, <1>6, <1>7, <1>8, <1>9, <1>10, <1>11, <1>12

LEMMA OnPressMatrix ==
  /\ OnPress!Lines = Lines /\ OnPress!Byte = Byte
  /\ (OnPress!AtRest <=> AtRest) /\ OnPress!matrixVars = matrixVars
  /\ OnPress!Lit = Lit
  /\ OnPress!SetPin <=> SetPin
  /\ \A w : OnPress!Call(w) <=> Call(w)
  /\ \A R, C : OnPress!matrix_put_pattern(R, C) = matrix_put_pattern(R, C)
  /\ OnPress!matrix_all_off = matrix_all_off
  /\ \A m : OnPress!Not(m) = Not(m)
  /\ \A m : OnPress!Shift(m) = Shift(m)
  /\ \A m : OnPress!PastLast(m) <=> PastLast(m)
  /\ \A S : OnPress!Cardinality(S) = Cardinality(S)
  /\ OnPress!MatrixInit <=> MatrixInit
  <1>1. OnPress!Lines = Lines /\ OnPress!Byte = Byte
    BY DEF OnPress!Lines, Lines, OnPress!Byte, Byte
  <1>2. (OnPress!AtRest <=> AtRest) /\ OnPress!matrixVars = matrixVars
    BY DEF OnPress!AtRest, AtRest, OnPress!matrixVars, matrixVars
  <1>3. OnPress!Lit = Lit
    BY DEF OnPress!Lit, Lit, OnPress!Lines, Lines
  <1>4. OnPress!SetPin <=> SetPin
    BY DEF OnPress!SetPin, SetPin
  <1>5. \A w : OnPress!Call(w) <=> Call(w)
    BY DEF OnPress!Call, Call, OnPress!AtRest, AtRest
  <1>6. \A R, C : OnPress!matrix_put_pattern(R, C) = matrix_put_pattern(R, C)
    BY DEF OnPress!matrix_put_pattern, matrix_put_pattern, OnPress!Write, Write, OnPress!Level, Level
  <1>7. OnPress!matrix_all_off = matrix_all_off
    BY DEF OnPress!matrix_all_off, matrix_all_off, OnPress!Write, Write
  <1>8. \A m : OnPress!Not(m) = Not(m)
    BY DEF OnPress!Not, Not, OnPress!Byte, Byte
  <1>9. \A m : OnPress!Shift(m) = Shift(m)
    BY DEF OnPress!Shift, Shift, OnPress!Byte, Byte
  <1>10. \A m : OnPress!PastLast(m) <=> PastLast(m)
    BY DEF OnPress!PastLast, PastLast
  <1>11. \A S : OnPress!Cardinality(S) = Cardinality(S)
    BY DEF OnPress!Cardinality, Cardinality
  <1>12. OnPress!MatrixInit <=> MatrixInit
    BY DEF OnPress!MatrixInit, MatrixInit, OnPress!Lines, Lines
  <1> QED BY <1>1, <1>2, <1>3, <1>4, <1>5, <1>6, <1>7, <1>8, <1>9, <1>10, <1>11, <1>12

LEMMA LampMatrix ==
  /\ Lamp!Lines = Lines /\ Lamp!Byte = Byte
  /\ (Lamp!AtRest <=> AtRest) /\ Lamp!matrixVars = matrixVars
  /\ Lamp!Lit = Lit
  /\ Lamp!SetPin <=> SetPin
  /\ \A w : Lamp!Call(w) <=> Call(w)
  /\ \A R, C : Lamp!matrix_put_pattern(R, C) = matrix_put_pattern(R, C)
  /\ Lamp!matrix_all_off = matrix_all_off
  /\ \A m : Lamp!Not(m) = Not(m)
  /\ Lamp!MatrixInit <=> MatrixInit
  <1>1. Lamp!Lines = Lines /\ Lamp!Byte = Byte
    BY DEF Lamp!Lines, Lines, Lamp!Byte, Byte
  <1>2. (Lamp!AtRest <=> AtRest) /\ Lamp!matrixVars = matrixVars
    BY DEF Lamp!AtRest, AtRest, Lamp!matrixVars, matrixVars
  <1>3. Lamp!Lit = Lit
    BY DEF Lamp!Lit, Lit, Lamp!Lines, Lines
  <1>4. Lamp!SetPin <=> SetPin
    BY DEF Lamp!SetPin, SetPin
  <1>5. \A w : Lamp!Call(w) <=> Call(w)
    BY DEF Lamp!Call, Call, Lamp!AtRest, AtRest
  <1>6. \A R, C : Lamp!matrix_put_pattern(R, C) = matrix_put_pattern(R, C)
    BY DEF Lamp!matrix_put_pattern, matrix_put_pattern, Lamp!Write, Write, Lamp!Level, Level
  <1>7. Lamp!matrix_all_off = matrix_all_off
    BY DEF Lamp!matrix_all_off, matrix_all_off, Lamp!Write, Write
  <1>8. \A m : Lamp!Not(m) = Not(m)
    BY DEF Lamp!Not, Not, Lamp!Byte, Byte
  <1>9. Lamp!MatrixInit <=> MatrixInit
    BY DEF Lamp!MatrixInit, MatrixInit, Lamp!Lines, Lines
  <1> QED BY <1>1, <1>2, <1>3, <1>4, <1>5, <1>6, <1>7, <1>8, <1>9

LEMMA WriteLedMatrix ==
  /\ Write_led!Lines = Lines /\ Write_led!Byte = Byte
  /\ (Write_led!AtRest <=> AtRest) /\ Write_led!matrixVars = matrixVars
  /\ Write_led!Lit = Lit
  /\ Write_led!SetPin <=> SetPin
  /\ \A w : Write_led!Call(w) <=> Call(w)
  /\ \A R, C : Write_led!matrix_put_pattern(R, C) = matrix_put_pattern(R, C)
  /\ Write_led!matrix_all_off = matrix_all_off
  /\ \A m : Write_led!Not(m) = Not(m)
  /\ Write_led!MatrixInit <=> MatrixInit
  <1>1. Write_led!Lines = Lines /\ Write_led!Byte = Byte
    BY DEF Write_led!Lines, Lines, Write_led!Byte, Byte
  <1>2. (Write_led!AtRest <=> AtRest) /\ Write_led!matrixVars = matrixVars
    BY DEF Write_led!AtRest, AtRest, Write_led!matrixVars, matrixVars
  <1>3. Write_led!Lit = Lit
    BY DEF Write_led!Lit, Lit, Write_led!Lines, Lines
  <1>4. Write_led!SetPin <=> SetPin
    BY DEF Write_led!SetPin, SetPin
  <1>5. \A w : Write_led!Call(w) <=> Call(w)
    BY DEF Write_led!Call, Call, Write_led!AtRest, AtRest
  <1>6. \A R, C : Write_led!matrix_put_pattern(R, C) = matrix_put_pattern(R, C)
    BY DEF Write_led!matrix_put_pattern, matrix_put_pattern, Write_led!Write, Write, Write_led!Level, Level
  <1>7. Write_led!matrix_all_off = matrix_all_off
    BY DEF Write_led!matrix_all_off, matrix_all_off, Write_led!Write, Write
  <1>8. \A m : Write_led!Not(m) = Not(m)
    BY DEF Write_led!Not, Not, Write_led!Byte, Byte
  <1>9. Write_led!MatrixInit <=> MatrixInit
    BY DEF Write_led!MatrixInit, MatrixInit, Write_led!Lines, Lines
  <1> QED BY <1>1, <1>2, <1>3, <1>4, <1>5, <1>6, <1>7, <1>8, <1>9

LEMMA MatrixStarts == MatrixInit => MatrixTypeOK /\ AtRest
  <1> SUFFICES ASSUME MatrixInit PROVE MatrixTypeOK /\ AtRest
    OBVIOUS
  <1>1. row \in [Lines -> {0, 1}] /\ col \in [Lines -> {0, 1}] /\ todo = <<>>
    BY DEF MatrixInit
  <1>2. todo \in Seq(Writes) /\ Len(todo) <= 2 * N
    BY <1>1, SizeIs
  <1> QED BY <1>1, <1>2 DEF MatrixTypeOK, AtRest

\* matrix_begin and matrix_all_off are one more pattern.
LEMMA OffStarts ==
  ASSUME MatrixTypeOK, Call(matrix_all_off)
  PROVE  MatrixTypeOK' /\ Updating({}, Byte)'
  BY AllOffIs, CallStarts

LEMMA MatrixStays ==
  ASSUME UNCHANGED matrixVars
  PROVE  /\ MatrixTypeOK => MatrixTypeOK'
         /\ \A R, C : (Updating(R, C) <=> Updating(R, C)') /\ (Leaving(R, C) <=> Leaving(R, C)')
         /\ AtRest' = AtRest
  BY DEF matrixVars, MatrixTypeOK, Updating, Leaving, Done, AtRest, WriteAt, Writes, Lines

-----------------------------------------------------------------------------
(***************************************************************************)
(* LedScan.                                                                *)
(***************************************************************************)
\* In a row the matrix shows the LED before the one rows and cols name, until
\* the update that moves on begins; that update starts from there.
ScanInv ==
  /\ pc \in {"begin", "show", "advance", "dead"}
  /\ Single(rows) /\ Single(cols)
  /\ pc \in {"begin", "dead"} => cols = {1}
  /\ pc = "show" /\ cols # {1} =>
       AtRest /\ \E j \in Lines : cols = {j + 1} /\ Updating(rows, Not({j}))
  /\ pc = "advance" =>
       /\ Updating(rows, Not(cols))
       /\ cols # {1} => \E j \in Lines : cols = {j + 1} /\ Leaving(rows, Not({j}))

LEMMA ScanStep ==
  ASSUME MatrixTypeOK, ScanInv, Scan!Next
  PROVE  MatrixTypeOK' /\ ScanInv'
  <1>0. Lines' = Lines
    BY DEF Lines
  <1>1. CASE Scan!Begin
    <2>1. /\ pc' \in {"show", "dead"} /\ cols' = {1} /\ UNCHANGED <<rows, cols>>
          /\ Call(matrix_all_off) \/ UNCHANGED matrixVars
      BY <1>1, ScanMatrix DEF Scan!Begin, Scan!matrix_begin, Scan!matrixVars, matrixVars, ScanInv
    <2> QED BY <1>0, <2>1, OffStarts, MatrixStays DEF ScanInv, Single
  <1>2. CASE Scan!Show
    <2>1. /\ pc = "show" /\ pc' = "advance" /\ UNCHANGED <<rows, cols>>
          /\ Call(matrix_put_pattern(rows, Not(cols)))
      BY <1>2, ScanMatrix DEF Scan!Show
    <2>2. MatrixTypeOK' /\ Updating(rows, Not(cols))'
      <3>1. MatrixTypeOK' /\ \A R, C : Call(matrix_put_pattern(R, C)) => Updating(R, C)'
        BY <2>1, CallStarts
      <3> QED BY <2>1, <3>1 DEF Updating, WriteAt, Not, Byte
    <2>3. cols # {1} => \E j \in Lines : cols = {j + 1} /\ Leaving(rows, Not({j}))'
      <3>1. \A P, Q : Updating(P, Q) => Leaving(P, Q)'
        BY <2>1, CallStarts
      <3> QED BY <2>1, <3>1 DEF ScanInv
    <2> QED BY <1>0, <2>1, <2>2, <2>3 DEF ScanInv, Single
  <1>3. CASE Scan!Advance
    <2>1. /\ pc = "advance" /\ pc' = "show" /\ AtRest /\ UNCHANGED matrixVars
          /\ IF PastLast(Shift(cols))
             THEN cols' = {1} /\ rows' = IF PastLast(Shift(rows)) THEN {1} ELSE Shift(rows)
             ELSE cols' = Shift(cols) /\ UNCHANGED rows
      BY <1>3, ScanMatrix DEF Scan!Advance, Scan!matrixVars, matrixVars
    <2>2. /\ Single(rows)' /\ Single(cols)'
          /\ cols' # {1} => \E j \in Lines : cols = {j} /\ cols' = {j + 1} /\ UNCHANGED rows
      BY <2>1, MoveOn DEF ScanInv
    <2>3. MatrixTypeOK' /\ AtRest' /\ \A R, C : Updating(R, C) => Updating(R, C)'
      BY <2>1, MatrixStays
    <2>4. Updating(rows, Not(cols))
      BY <2>1 DEF ScanInv
    <2>5. cols' # {1} => \E j \in Lines : cols' = {j + 1} /\ Updating(rows, Not({j}))' /\ UNCHANGED rows
      BY <2>2, <2>3, <2>4
    <2> QED BY <1>0, <2>1, <2>2, <2>3, <2>5 DEF ScanInv
  <1>4. CASE Scan!Pin
    <2>1. SetPin /\ UNCHANGED <<pc, rows, cols>> /\ ~AtRest
      BY <1>4, ScanMatrix DEF Scan!Pin, SetPin, AtRest
    <2>2. MatrixTypeOK' /\ \A R, C : Updating(R, C) => Updating(R, C)'
      BY <2>1, PinMoves
    <2>3. \A R, C, P, Q : Updating(R, C) /\ Leaving(P, Q) => Leaving(P, Q)'
      BY <2>1, PinMoves
    <2>4. pc = "advance" => /\ Updating(rows, Not(cols))'
                            /\ cols # {1} => \E j \in Lines : cols = {j + 1} /\ Leaving(rows, Not({j}))'
      BY <2>1, <2>2, <2>3 DEF ScanInv
    <2>5. pc = "show" => cols = {1}
      BY <2>1 DEF ScanInv
    <2> QED BY <1>0, <2>1, <2>2, <2>4, <2>5 DEF ScanInv, Single
  <1>5. CASE Scan!Hang
    <2>1. UNCHANGED matrixVars /\ UNCHANGED <<pc, rows, cols>> /\ pc = "dead"
      BY <1>5, ScanMatrix DEF Scan!Hang, Scan!vars, Scan!matrixVars, matrixVars
    <2> QED BY <1>0, <2>1, MatrixStays DEF ScanInv, Single
  <1> QED BY <1>1, <1>2, <1>3, <1>4, <1>5 DEF Scan!Next

LEMMA ScanShows ==
  ASSUME MatrixTypeOK, ScanInv
  PROVE  Scan!OneLedAtRest /\ Scan!NoGhostInRow
  <1>1. PICK i \in Lines : rows = {i}
    BY DEF ScanInv, Single
  <1>2. PICK k \in Lines : cols = {k}
    BY DEF ScanInv, Single
  <1>3. pc = "advance" /\ AtRest => Lit = rows \X cols /\ Cardinality(Lit) = 1
    BY <1>1, <1>2, ShowsOne DEF ScanInv
  <1>4. ASSUME cols # {1}
        PROVE  Cardinality(Lit) <= 1
    <2>1. CASE pc = "show"
      <3>1. AtRest /\ \E j \in Lines : cols = {j + 1} /\ Updating(rows, Not({j}))
        BY <1>4, <2>1 DEF ScanInv
      <3> QED BY <1>1, <3>1, ShowsOne
    <2>2. CASE pc = "advance"
      <3>1. PICK j \in Lines : cols = {j + 1} /\ Leaving(rows, Not({j})) /\ Updating(rows, Not(cols))
        BY <1>4, <2>2 DEF ScanInv
      <3>2. /\ j \in Int /\ 1 <= j /\ j <= N /\ j + 1 <= N /\ j + 1 \in Byte /\ j \in Byte
            /\ Len(todo) \in Nat /\ Done \in Int
        BY <1>2, <3>1, SizeIs DEF Lines, Byte, MatrixTypeOK, Done
      <3> DEFINE m == IF j + 1 + N <= Done THEN j + 1 ELSE j
      <3>3. ASSUME NEW n \in Lines, col[n] = 0
            PROVE  n = m
        <4>1. n \in Int /\ 1 <= n /\ n <= N /\ n \in Byte
          BY SizeIs DEF Lines, Byte
        <4>2. CASE n + N <= Done
          <5>1. Level(Not(cols), n) = 0
            BY <3>1, <3>3, <4>2 DEF Updating
          <5>2. n = j + 1
            BY <3>1, <4>1, <5>1 DEF Level, Not
          <5> QED BY <4>2, <5>2
        <4>3. CASE ~(n + N <= Done)
          <5>1. n + N > Done
            BY <3>2, <4>1, <4>3, SizeIs
          <5>2. Level(Not({j}), n) = 0
            BY <3>1, <3>3, <5>1 DEF Leaving
          <5>3. n = j
            BY <4>1, <5>2 DEF Level, Not
          <5> QED BY <3>2, <4>3, <5>3, SizeIs
        <4> QED BY <4>2, <4>3
      <3>4. \A n \in Lines : row[n] = Level(rows, n)
        <4> TAKE n \in Lines
        <4>1. n \in Int
          BY DEF Lines
        <4>2. n <= Done \/ n > Done
          BY <3>2, <4>1
        <4> QED BY <3>1, <4>2 DEF Leaving, Updating
      <3>5. Lit \subseteq {<<i, m>>}
        BY <1>1, <3>3, <3>4 DEF Lit, Level
      <3>6. IsFiniteSet({<<i, m>>}) /\ Cardinality({<<i, m>>}) = 1
        BY FS_Singleton
      <3> QED BY <3>5, <3>6, FS_Subset
    <2>3. pc \notin {"begin", "dead"}
      BY <1>4 DEF ScanInv
    <2> QED BY <2>1, <2>2, <2>3 DEF ScanInv
  <1> QED BY <1>3, <1>4, ScanMatrix DEF Scan!OneLedAtRest, Scan!NoGhostInRow

-----------------------------------------------------------------------------
(***************************************************************************)
(* MatrixPolled.                                                           *)
(***************************************************************************)
\* The column mask is one bit too far between the poll of A and the wrap.
PolledInv ==
  /\ pc \in {"begin", "show", "pollA", "pollB", "wrap", "dead"}
  /\ Single(rows)
  /\ \E k \in 1 .. N + 1 : cols = {k}
  /\ pc \in {"begin", "show", "pollA"} => Single(cols)
  /\ pc = "pollA" => Updating(rows, Not(cols))

LEMMA PolledStep ==
  ASSUME MatrixTypeOK, PolledInv, Polled!Next
  PROVE  MatrixTypeOK' /\ PolledInv'
  <1> USE DEF Polled!Goto
  <1>0. Lines' = Lines /\ 1 \in Lines /\ 1 \in 1 .. N + 1
    BY SizeIs DEF Lines
  <1>1. CASE Polled!Begin
    <2>1. /\ pc = "begin" /\ pc' \in {"show", "dead"} /\ UNCHANGED <<rows, cols>>
          /\ Call(matrix_all_off) \/ UNCHANGED matrixVars
      BY <1>1, PolledMatrix DEF Polled!Begin, Polled!matrix_begin, Polled!matrixVars, matrixVars
    <2> QED BY <1>0, <2>1, OffStarts, MatrixStays DEF PolledInv, Single
  <1>2. CASE Polled!Show
    <2>1. /\ pc = "show" /\ pc' = "pollA" /\ UNCHANGED <<rows, cols>>
          /\ Call(matrix_put_pattern(rows, Not(cols)))
      BY <1>2, PolledMatrix DEF Polled!Show
    <2>2. MatrixTypeOK' /\ Updating(rows, Not(cols))'
      <3>1. MatrixTypeOK' /\ \A R, C : Call(matrix_put_pattern(R, C)) => Updating(R, C)'
        BY <2>1, CallStarts
      <3> QED BY <2>1, <3>1 DEF Updating, WriteAt, Not, Byte
    <2> QED BY <1>0, <2>1, <2>2 DEF PolledInv, Single
  <1>3. CASE Polled!PollA
    <2>1. /\ pc = "pollA" /\ pc' = "pollB" /\ UNCHANGED rows /\ UNCHANGED matrixVars
          /\ cols' = IF a = 0 THEN Shift(cols) ELSE cols
      BY <1>3, PolledMatrix DEF Polled!PollA, Polled!matrixVars, matrixVars
    <2>2. PICK j \in Lines : cols = {j}
      BY <2>1 DEF PolledInv, Single
    <2>3. cols' \in {{j}, {j + 1}} /\ j \in 1 .. N + 1 /\ j + 1 \in 1 .. N + 1
      BY <2>1, <2>2, ShiftIs, SizeIs DEF Lines
    <2> QED BY <1>0, <2>1, <2>3, MatrixStays DEF PolledInv, Single
  <1>4. CASE Polled!PollB
    <2>1. /\ pc = "pollB" /\ pc' = "wrap" /\ UNCHANGED matrixVars
          /\ IF b = 0 THEN rows' = {1} /\ cols' = {1} ELSE UNCHANGED <<rows, cols>>
      BY <1>4, PolledMatrix DEF Polled!PollB, Polled!matrixVars, matrixVars
    <2> QED BY <1>0, <2>1, MatrixStays DEF PolledInv, Single
  <1>5. CASE Polled!Wrap
    <2>1. /\ pc = "wrap" /\ pc' = "show" /\ UNCHANGED matrixVars
          /\ IF PastLast(cols)
             THEN cols' = {1} /\ rows' = IF PastLast(Shift(rows)) THEN {1} ELSE Shift(rows)
             ELSE UNCHANGED <<rows, cols>>
      BY <1>5, PolledMatrix DEF Polled!Wrap, Polled!matrixVars, matrixVars
    <2>2. PICK i \in Lines : rows = {i}
      BY DEF PolledInv, Single
    <2>3. PICK k \in 1 .. N + 1 : cols = {k}
      BY DEF PolledInv
    <2>4. k \in Byte /\ (~(k > N) => k \in Lines) /\ (~(i + 1 > N) => i + 1 \in Lines)
      BY SizeIs DEF Lines, Byte
    <2>5. (PastLast(cols) <=> k > N) /\ Shift(rows) = {i + 1} /\ (PastLast(Shift(rows)) <=> i + 1 > N)
      BY <2>2, <2>3, <2>4, ShiftIs, PastLastIs
    <2>6. Single(rows)'
      BY <1>0, <2>1, <2>2, <2>4, <2>5 DEF Single
    <2>7. Single(cols)' /\ \E n \in 1 .. N + 1 : cols' = {n}
      BY <1>0, <2>1, <2>3, <2>4, <2>5 DEF Single
    <2> QED BY <2>1, <2>6, <2>7, MatrixStays DEF PolledInv
  <1>6. CASE Polled!Pin
    <2>1. SetPin /\ UNCHANGED <<pc, rows, cols>>
      BY <1>6, PolledMatrix DEF Polled!Pin, Polled!program
    <2>2. MatrixTypeOK' /\ \A R, C : Updating(R, C) => Updating(R, C)'
      BY <2>1, PinMoves
    <2>3. pc = "pollA" => Updating(rows, Not(cols))'
      BY <2>1, <2>2 DEF PolledInv
    <2> QED BY <1>0, <2>1, <2>2, <2>3 DEF PolledInv, Single
  <1>7. CASE Polled!MoveButton
    <2>1. UNCHANGED <<pc, rows, cols>> /\ UNCHANGED matrixVars
      BY <1>7, PolledMatrix DEF Polled!MoveButton, Polled!program, Polled!matrixVars, matrixVars
    <2>2. pc = "pollA" => Updating(rows, Not(cols))'
      BY <2>1, MatrixStays DEF PolledInv
    <2> QED BY <1>0, <2>1, <2>2, MatrixStays DEF PolledInv, Single
  <1> QED BY <1>1, <1>2, <1>3, <1>4, <1>5, <1>6, <1>7 DEF Polled!Next, Polled!Main

LEMMA PolledShows ==
  ASSUME PolledInv
  PROVE  Polled!OneLedAtRest
  BY PolledMatrix, ShowsOne DEF PolledInv, Single, Polled!OneLedAtRest

-----------------------------------------------------------------------------
(***************************************************************************)
(* MatrixOnPress.                                                          *)
(***************************************************************************)
\* rows and cols may have moved on, or between their two reads, but each
\* argument is one line of the matrix.
OnPressInv ==
  /\ Single(rows) /\ Single(cols)
  /\ rowsArg = {} \/ Single(rowsArg)
  /\ colsArg = {} \/ Single(colsArg)
  /\ pc = "sleep" => Single(rowsArg) /\ Single(colsArg) /\ Updating(rowsArg, Not(colsArg))

LEMMA OnPressStep ==
  ASSUME MatrixTypeOK, OnPressInv, OnPress!Next
  PROVE  MatrixTypeOK' /\ OnPressInv'
  <1> USE DEF OnPress!Main, OnPress!None
  <1>0. Lines' = Lines
    BY DEF Lines
  <1>1. CASE OnPress!Begin
    <2>1. /\ pc' \in {"attach", "dead"} /\ UNCHANGED <<rows, cols, rowsArg, colsArg>>
          /\ Call(matrix_all_off) \/ UNCHANGED matrixVars
      BY <1>1, OnPressMatrix DEF OnPress!Begin, OnPress!matrix_begin, OnPress!args, OnPress!matrixVars, matrixVars
    <2> QED BY <1>0, <2>1, OffStarts, MatrixStays DEF OnPressInv, Single
  <1>2. CASE OnPress!Show
    <2>1. /\ pc' = "sleep" /\ UNCHANGED <<rows, cols, rowsArg, colsArg>>
          /\ rowsArg # {} /\ colsArg # {}
          /\ Call(matrix_put_pattern(rowsArg, Not(colsArg)))
      BY <1>2, OnPressMatrix DEF OnPress!Show, OnPress!args
    <2>2. MatrixTypeOK' /\ Updating(rowsArg, Not(colsArg))'
      <3>1. MatrixTypeOK' /\ \A R, C : Call(matrix_put_pattern(R, C)) => Updating(R, C)'
        BY <2>1, CallStarts
      <3> QED BY <2>1, <3>1 DEF Updating, WriteAt, Not, Byte
    <2> QED BY <1>0, <2>1, <2>2 DEF OnPressInv, Single
  <1>3. CASE OnPress!Pin
    <2>1. SetPin /\ UNCHANGED <<pc, rows, cols, rowsArg, colsArg>>
      BY <1>3, OnPressMatrix DEF OnPress!Pin, OnPress!args
    <2>2. MatrixTypeOK' /\ \A R, C : Updating(R, C) => Updating(R, C)'
      BY <2>1, PinMoves
    <2>3. pc = "sleep" => Updating(rowsArg, Not(colsArg))'
      BY <2>1, <2>2 DEF OnPressInv
    <2> QED BY <1>0, <2>1, <2>2, <2>3 DEF OnPressInv, Single
  <1>4. ASSUME UNCHANGED matrixVars, pc' = "sleep" => pc = "sleep" /\ UNCHANGED <<rowsArg, colsArg>>
        PROVE  /\ MatrixTypeOK'
               /\ pc' = "sleep" =>
                    Single(rowsArg)' /\ Single(colsArg)' /\ Updating(rowsArg, Not(colsArg))'
    <2>1. pc' = "sleep" => Updating(rowsArg, Not(colsArg))'
      BY <1>4, MatrixStays DEF OnPressInv
    <2> QED BY <1>0, <1>4, <2>1, MatrixStays DEF OnPressInv, Single
  <1>5. CASE OnPress!AttachButton \/ OnPress!Ignored \/ OnPress!Push
    <2>1. /\ UNCHANGED matrixVars /\ UNCHANGED <<rows, cols, rowsArg, colsArg>>
          /\ pc' = "sleep" => pc = "sleep"
      BY <1>5 DEF OnPress!AttachButton, OnPress!Ignored, OnPress!Push, OnPress!args, OnPress!matrixVars, matrixVars
    <2> QED BY <1>0, <1>4, <2>1 DEF OnPressInv, Single
  <1>6. CASE OnPress!ReadArgument
    <2>1. /\ UNCHANGED matrixVars /\ UNCHANGED <<rows, cols>> /\ pc' # "sleep"
          /\ rowsArg' \in {rowsArg, rows} /\ colsArg' \in {colsArg, cols}
      BY <1>6 DEF OnPress!ReadArgument, OnPress!matrixVars, matrixVars
    <2> QED BY <1>0, <1>4, <2>1 DEF OnPressInv, Single
  <1>7. CASE OnPress!Wake
    <2>1. /\ UNCHANGED matrixVars /\ UNCHANGED <<rows, cols>> /\ pc' # "sleep"
          /\ rowsArg' = {} /\ colsArg' = {}
      BY <1>7 DEF OnPress!Wake, OnPress!matrixVars, matrixVars
    <2> QED BY <1>0, <1>4, <2>1 DEF OnPressInv, Single
  <1>8. CASE OnPress!button_a_pressed
    <2>1. /\ UNCHANGED matrixVars /\ UNCHANGED <<pc, rowsArg, colsArg>>
          /\ IF PastLast(Shift(cols))
             THEN cols' = {1} /\ rows' = IF PastLast(Shift(rows)) THEN {1} ELSE Shift(rows)
             ELSE cols' = Shift(cols) /\ UNCHANGED rows
      BY <1>8, OnPressMatrix DEF OnPress!button_a_pressed, OnPress!args, OnPress!matrixVars, matrixVars
    <2>2. Single(rows)' /\ Single(cols)'
      BY <2>1, MoveOn DEF OnPressInv
    <2> QED BY <1>0, <1>4, <2>1, <2>2 DEF OnPressInv, Single
  <1> QED BY <1>1, <1>2, <1>3, <1>5, <1>6, <1>7, <1>8 DEF OnPress!Next, OnPress!Thread

LEMMA OnPressShows ==
  ASSUME OnPressInv
  PROVE  OnPress!OneLedAtRest
  BY OnPressMatrix, ShowsOne DEF OnPressInv, Single, OnPress!OneLedAtRest

-----------------------------------------------------------------------------
(***************************************************************************)
(* LampOnPress.                                                            *)
(***************************************************************************)
\* No press is served before the button is attached, so main's own update is
\* never on top of a callback's.
LampInv ==
  /\ state \in {0, 1}
  /\ pc = "begin" => ~handler /\ ~pressed
  /\ pressed => Updating(IF state = 0 THEN Lines ELSE {}, {})

LEMMA LampStep ==
  ASSUME MatrixTypeOK, LampInv, Lamp!Next
  PROVE  MatrixTypeOK' /\ LampInv'
  <1>0. Lines' = Lines
    BY DEF Lines
  <1>1. CASE Lamp!Begin
    <2>1. /\ pc = "begin" /\ pc' \in {"attach", "dead"} /\ UNCHANGED <<state, pressed>>
          /\ Call(matrix_all_off) \/ UNCHANGED matrixVars
      BY <1>1, LampMatrix DEF Lamp!Begin, Lamp!matrix_begin, Lamp!matrixVars, matrixVars
    <2> QED BY <2>1, OffStarts, MatrixStays DEF LampInv
  <1>2. CASE Lamp!my_button_a_callback
    <2>1. /\ handler /\ pressed' /\ UNCHANGED pc /\ state' = 1 - state
          /\ Call(matrix_put_pattern(IF state = 1 THEN Lines ELSE {}, {}))
      BY <1>2, LampMatrix DEF Lamp!my_button_a_callback, Lamp!Served
    <2>2. MatrixTypeOK' /\ \A R, C : Call(matrix_put_pattern(R, C)) => Updating(R, C)'
      BY <2>1, CallStarts
    <2>3. CASE state = 1
      <3>1. Updating(Lines, {})' /\ state' = 0
        BY <1>0, <2>1, <2>2, <2>3
      <3> QED BY <1>0, <2>1, <2>2, <3>1 DEF LampInv
    <2>4. CASE state = 0
      <3>1. Updating({}, {})' /\ state' = 1
        BY <2>1, <2>2, <2>4
      <3> QED BY <1>0, <2>1, <2>2, <3>1 DEF LampInv
    <2> QED BY <2>3, <2>4 DEF LampInv
  <1>3. CASE Lamp!Pin
    <2>1. SetPin /\ UNCHANGED <<pc, state, pressed, handler>>
      BY <1>3, LampMatrix DEF Lamp!Pin, Lamp!buttonVars, Lamp!attachVars
    <2>2. MatrixTypeOK' /\ \A R, C : Updating(R, C) => Updating(R, C)'
      BY <2>1, PinMoves
    <2> QED BY <1>0, <2>1, <2>2 DEF LampInv
  <1>4. CASE Lamp!AttachButton \/ Lamp!Ignored \/ Lamp!Push
    <2>1. /\ UNCHANGED matrixVars /\ UNCHANGED <<state, pressed>>
          /\ pc' = "begin" => pc = "begin" /\ UNCHANGED handler
      BY <1>4 DEF Lamp!AttachButton, Lamp!Ignored, Lamp!Push, Lamp!Unserved, Lamp!Interrupt, Lamp!MoveButton,
                  Lamp!attachVars, Lamp!matrixVars, matrixVars
    <2> QED BY <1>0, <2>1, MatrixStays DEF LampInv
  <1> QED BY <1>1, <1>2, <1>3, <1>4 DEF Lamp!Next, Lamp!Thread, Lamp!Interrupts

LEMMA LampShows ==
  ASSUME LampInv
  PROVE  Lamp!LampFollowsState
  <1> SUFFICES ASSUME pressed, AtRest
               PROVE  Lit = IF state = 0 THEN Lines \X Lines ELSE {}
    BY LampMatrix DEF Lamp!LampFollowsState, Lamp!All
  <1>1. CASE state = 0
    <2>1. Lit = {p \in Lines \X Lines : p[1] \in Lines /\ p[2] \notin {}}
      BY <1>1, RestShows DEF LampInv
    <2> QED BY <1>1, <2>1
  <1>2. CASE state # 0
    <2>1. Lit = {p \in Lines \X Lines : p[1] \in {} /\ p[2] \notin {}}
      BY <1>2, RestShows DEF LampInv
    <2> QED BY <1>2, <2>1
  <1> QED BY <1>1, <1>2

-----------------------------------------------------------------------------
(***************************************************************************)
(* LedWrite.                                                               *)
(***************************************************************************)
\* Nothing is said once a write was longer than led.
LedInv ==
  pc = "loop" /\ ~overrun =>
    IF led = Write_led!Zero THEN Updating({}, Byte) ELSE Updating(Lines, Not(Lines))

\* The first write may come while main's matrix_all_off still runs: it waits,
\* as every call does.
LEMMA LedStep ==
  ASSUME MatrixTypeOK, LedInv, Write_led!Next, pc \in {"begin", "off"} => led = Write_led!Zero
  PROVE  /\ MatrixTypeOK' /\ LedInv'
         /\ pc' \in {"begin", "off"} => led' = Write_led!Zero
  <1>0. Lines' = Lines /\ Byte' = Byte /\ Write_led!Zero' = Write_led!Zero
    BY DEF Lines, Byte, Write_led!Zero, Write_led!Bytes
  <1>1. CASE Write_led!Begin
    <2>1. /\ pc = "begin" /\ pc' \in {"off", "dead"} /\ UNCHANGED led
          /\ Call(matrix_all_off) \/ UNCHANGED matrixVars
      BY <1>1, WriteLedMatrix DEF Write_led!Begin, Write_led!matrix_begin, Write_led!matrixVars, matrixVars
    <2> QED BY <1>0, <2>1, OffStarts, MatrixStays DEF LedInv
  <1>4. CASE Write_led!Off
    <2>1. pc = "off" /\ pc' = "loop" /\ UNCHANGED led /\ Call(matrix_all_off)
      BY <1>4, WriteLedMatrix DEF Write_led!Off
    <2>2. led' = Write_led!Zero
      BY <2>1
    <2> QED BY <1>0, <2>1, <2>2, OffStarts DEF LedInv
  <1>2. ASSUME NEW data, Write_led!write_led(data)
        PROVE  MatrixTypeOK' /\ LedInv' /\ pc' = "loop"
    <2>1. /\ pc = "loop" /\ pc' = "loop"
          /\ Call(IF led' = Write_led!Zero THEN matrix_all_off ELSE matrix_put_pattern(Lines, Not(Lines)))
      BY <1>2, WriteLedMatrix DEF Write_led!write_led
    <2>2. CASE led' = Write_led!Zero
      BY <1>0, <2>1, <2>2, OffStarts DEF LedInv
    <2>3. CASE led' # Write_led!Zero
      <3>1. Call(matrix_put_pattern(Lines, Not(Lines)))
        BY <2>1, <2>3
      <3>2. MatrixTypeOK' /\ Updating(Lines, Not(Lines))'
        BY <1>0, <3>1, CallStarts DEF Not
      <3> QED BY <1>0, <2>1, <2>3, <3>2 DEF LedInv
    <2> QED BY <2>2, <2>3
  <1>3. CASE Write_led!Pin
    <2>1. SetPin /\ UNCHANGED <<pc, led, overrun>>
      BY <1>3, WriteLedMatrix DEF Write_led!Pin
    <2>2. MatrixTypeOK' /\ \A R, C : Updating(R, C) => Updating(R, C)'
      BY <2>1, PinMoves
    <2> QED BY <1>0, <2>1, <2>2 DEF LedInv, Not
  <1>5. CASE Write_led!Spoilt
    <2>1. /\ overrun' /\ UNCHANGED <<led, row, col>> /\ pc' \in {pc, "dead"}
          /\ (todo # <<>> /\ todo' = Tail(todo)) \/ todo' = <<>>
      BY <1>5 DEF Write_led!Spoilt
    <2>2. todo' \in Seq(Writes) /\ Len(todo') <= 2 * N
      <3>1. CASE todo' = <<>>
        BY <3>1, SizeIs
      <3>2. CASE todo # <<>> /\ todo' = Tail(todo)
        BY <3>2, SizeIs DEF MatrixTypeOK
      <3> QED BY <2>1, <3>1, <3>2
    <2>3. Writes' = Writes
      BY DEF Writes, Lines
    <2> QED BY <1>0, <2>1, <2>2, <2>3 DEF MatrixTypeOK, LedInv
  <1>6. CASE Write_led!Hang
    <2>1. UNCHANGED matrixVars /\ UNCHANGED <<pc, led>> /\ pc = "dead"
      BY <1>6, WriteLedMatrix DEF Write_led!Hang, Write_led!vars, Write_led!matrixVars, matrixVars
    <2> QED BY <1>0, <2>1, MatrixStays DEF LedInv
  <1> QED BY <1>1, <1>2, <1>3, <1>4, <1>5, <1>6 DEF Write_led!Next

LEMMA LedShows ==
  ASSUME LedInv
  PROVE  Write_led!LedsShowValue
  <1> SUFFICES ASSUME pc = "loop", AtRest, ~overrun
               PROVE  Lit = IF led = Write_led!Zero THEN {} ELSE Lines \X Lines
    BY WriteLedMatrix DEF Write_led!LedsShowValue, Write_led!Shown, Write_led!All
  <1>1. CASE led = Write_led!Zero
    <2>1. Lit = {p \in Lines \X Lines : p[1] \in {} /\ p[2] \notin Byte}
      BY <1>1, RestShows DEF LedInv
    <2> QED BY <1>1, <2>1
  <1>2. CASE led # Write_led!Zero
    <2>1. Lit = {p \in Lines \X Lines : p[1] \in Lines /\ p[2] \notin Not(Lines)}
      BY <1>2, RestShows DEF LedInv
    <2> QED BY <1>2, <2>1 DEF Not
  <1> QED BY <1>1, <1>2

-----------------------------------------------------------------------------
(***************************************************************************)
(* All programs together: one is on the board, and stays there.            *)
(***************************************************************************)
MatrixInv ==
  /\ MatrixTypeOK
  /\ program \in {"scan", "polled", "on_press", "lamp", "write_led"}
  /\ program = "scan" => ScanInv
  /\ program = "polled" => PolledInv
  /\ program = "on_press" => OnPressInv
  /\ program = "lamp" => LampInv
  /\ program = "write_led" => LedInv /\ (pc \in {"begin", "off"} => led = Write_led!Zero)

LEMMA MatrixBegins == Init => MatrixInv
  <1> SUFFICES ASSUME Init PROVE MatrixInv
    OBVIOUS
  <1>0. 1 \in Lines /\ 1 \in 1 .. N + 1
    BY SizeIs DEF Lines
  <1>1. CASE program = "scan" /\ Scan!Init
    BY <1>0, <1>1, ScanMatrix, MatrixStarts DEF MatrixInv, Scan!Init, ScanInv, Single
  <1>2. CASE program = "polled" /\ Polled!Init
    BY <1>0, <1>2, PolledMatrix, MatrixStarts DEF MatrixInv, Polled!Init, PolledInv, Single
  <1>3. CASE program = "on_press" /\ OnPress!Init
    BY <1>0, <1>3, OnPressMatrix, MatrixStarts DEF MatrixInv, OnPress!Init, OnPress!None, OnPressInv, Single
  <1>4. CASE program = "lamp" /\ Lamp!Init
    BY <1>4, LampMatrix, MatrixStarts DEF MatrixInv, Lamp!Init, Lamp!ButtonInit, LampInv
  <1>5. CASE program = "write_led" /\ Write_led!Init
    BY <1>5, WriteLedMatrix, MatrixStarts DEF MatrixInv, Write_led!Init, LedInv
  <1> QED BY <1>1, <1>2, <1>3, <1>4, <1>5 DEF Init

LEMMA MatrixNext == MatrixInv /\ [Next]_vars => MatrixInv'
  <1> SUFFICES ASSUME MatrixInv, [Next]_vars PROVE MatrixInv'
    OBVIOUS
  <1>1. CASE RunScan
    BY <1>1, ScanStep DEF RunScan, MatrixInv
  <1>2. CASE RunPolled
    BY <1>2, PolledStep DEF RunPolled, MatrixInv
  <1>3. CASE RunOnPress
    BY <1>3, OnPressStep DEF RunOnPress, MatrixInv
  <1>4. CASE RunLamp
    BY <1>4, LampStep DEF RunLamp, MatrixInv
  <1>5. CASE RunWriteLed
    BY <1>5, LedStep DEF RunWriteLed, MatrixInv
  <1>6. CASE UNCHANGED vars
    <2>1. /\ UNCHANGED matrixVars /\ Lines' = Lines /\ Byte' = Byte /\ Write_led!Zero' = Write_led!Zero
          /\ UNCHANGED <<program, pc, rows, cols, rowsArg, colsArg, handler, state, pressed, led, overrun>>
      BY <1>6 DEF vars, position, pressVars, buttonVars, lampVars, ledVars, Lines, Byte, Write_led!Zero, Write_led!Bytes
    <2>2. ScanInv => ScanInv'
      BY <2>1, MatrixStays DEF ScanInv, Single, Not
    <2>3. PolledInv => PolledInv'
      BY <2>1, MatrixStays DEF PolledInv, Single, Not
    <2>4. OnPressInv => OnPressInv'
      BY <2>1, MatrixStays DEF OnPressInv, Single, Not
    <2>5. LampInv => LampInv'
      BY <2>1, MatrixStays DEF LampInv
    <2>6. LedInv => LedInv'
      BY <2>1, MatrixStays DEF LedInv, Not
    <2> QED BY <2>1, <2>2, <2>3, <2>4, <2>5, <2>6, MatrixStays DEF MatrixInv
  <1> QED BY <1>1, <1>2, <1>3, <1>4, <1>5, <1>6 DEF Next

LEMMA MatrixAlways == Spec => []MatrixInv
  BY MatrixBegins, MatrixNext, PTL DEF Spec

\* Between two updates exactly one LED is lit, whatever the buttons do and
\* wherever the interrupt falls between the reads of rows and cols (LedScan,
\* MatrixPolled, MatrixOnPress).
THEOREM OneLed == Spec => []OneLedAtRest
  <1>1. MatrixInv => OneLedAtRest
    BY ScanShows, PolledShows, OnPressShows DEF MatrixInv, OneLedAtRest
  <1> QED BY <1>1, MatrixAlways, PTL

\* The order of the writes in matrix_put_pattern keeps a second LED of the row
\* from flashing up at any moment of an update (LedScan).
THEOREM NoGhost == Spec => []NoGhostInRow
  <1>1. MatrixInv => NoGhostInRow
    BY ScanShows DEF MatrixInv, NoGhostInRow
  <1> QED BY <1>1, MatrixAlways, PTL

\* The matrix shows the state that my_button_a_callback will toggle next
\* (LampOnPress).
THEOREM LampCorrect == Spec => []LampFollowsState
  <1>1. MatrixInv => LampFollowsState
    BY LampShows DEF MatrixInv, LampFollowsState
  <1> QED BY <1>1, MatrixAlways, PTL

\* The matrix is on exactly while the value the central wrote is not 0, all of
\* its bytes counted, after writes of up to four bytes in any order; the first
\* longer one ends the promise (LedWrite).
THEOREM LedCorrect == Spec => []LedsShowValue
  <1>1. MatrixInv => LedsShowValue
    BY LedShows DEF MatrixInv, LedsShowValue
  <1> QED BY <1>1, MatrixAlways, PTL


\* The LED after another in reading order, the first after the last.
NextLed(i, j) == IF j < N THEN <<i, j + 1>> ELSE IF i < N THEN <<i + 1, 1>> ELSE <<1, 1>>

Turns == RunScan /\ Scan!Advance

MovesToNext == \E i, j \in Lines : Lit = {<<i, j>>} /\ rows' \X cols' = {NextLed(i, j)}

(***************************************************************************)
(* The safety half of EveryLedShown: at every turn of the scan one LED is  *)
(* lit, and the one it names to be lit next follows it (LedScan, main.c    *)
(* lines 22-31).  So no LED is left out, and none comes twice before all   *)
(* others have had their turn.                                             *)
(***************************************************************************)
THEOREM ScansInOrder == Spec => [][Turns => MovesToNext]_vars
  <1>1. ASSUME MatrixInv, Turns PROVE MovesToNext
    <2>1. MatrixTypeOK /\ ScanInv
      BY <1>1 DEF MatrixInv, Turns, RunScan
    <2>2. /\ pc = "advance" /\ AtRest
          /\ IF PastLast(Shift(cols))
             THEN cols' = {1} /\ rows' = IF PastLast(Shift(rows)) THEN {1} ELSE Shift(rows)
             ELSE cols' = Shift(cols) /\ UNCHANGED rows
      BY <1>1, ScanMatrix DEF Turns, Scan!Advance
    <2>3. PICK i \in Lines, j \in Lines : rows = {i} /\ cols = {j}
      BY <2>1 DEF ScanInv, Single
    <2>4. Lit = {<<i, j>>}
      <3>1. Updating(rows, Not(cols))
        BY <2>1, <2>2 DEF ScanInv
      <3> QED BY <2>2, <2>3, <3>1, <2>1, ShowsOne
    <2>5. /\ Shift(rows) = {i + 1} /\ (PastLast(Shift(rows)) <=> i + 1 > N)
          /\ Shift(cols) = {j + 1} /\ (PastLast(Shift(cols)) <=> j + 1 > N)
      BY <2>3, ShiftIs, PastLastIs
    <2>6. i \in Int /\ j \in Int /\ N \in Int
      BY SizeIs DEF Lines
    <2>7. CASE j < N
      <3>1. rows' = {i} /\ cols' = {j + 1}
        BY <2>2, <2>3, <2>5, <2>6, <2>7
      <3>2. rows' \X cols' = {<<i, j + 1>>}
        BY <3>1
      <3> QED BY <2>4, <2>7, <3>2 DEF MovesToNext, NextLed
    <2>8. CASE ~(j < N) /\ i < N
      <3>1. rows' = {i + 1} /\ cols' = {1}
        BY <2>2, <2>3, <2>5, <2>6, <2>8
      <3>2. rows' \X cols' = {<<i + 1, 1>>}
        BY <3>1
      <3> QED BY <2>4, <2>8, <3>2 DEF MovesToNext, NextLed
    <2>9. CASE ~(j < N) /\ ~(i < N)
      <3>1. rows' = {1} /\ cols' = {1}
        BY <2>2, <2>3, <2>5, <2>6, <2>9
      <3>2. rows' \X cols' = {<<1, 1>>}
        BY <3>1
      <3> QED BY <2>4, <2>9, <3>2 DEF MovesToNext, NextLed
    <2> QED BY <2>7, <2>8, <2>9
  <1>2. MatrixInv => (Turns => MovesToNext)
    BY <1>1
  <1> QED BY <1>2, MatrixAlways, PTL
=============================================================================
