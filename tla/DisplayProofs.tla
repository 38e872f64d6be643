---------------------------- MODULE DisplayProofs ----------------------------
(***************************************************************************)
(* The drawing loops of display.c draw what their names say, for every     *)
(* size of the screen, the block and the font, all coordinates and all     *)
(* texts that the index can count.                                         *)
(***************************************************************************)
EXTENDS Display, FiniteSetTheorems, TLAPS

(***************************************************************************)
(* Division.                                                               *)
(***************************************************************************)
LEMMA DivFacts ==
  ASSUME NEW a \in Nat, NEW u \in Nat \ {0}
  PROVE  a \div u \in Nat /\ a % u \in Nat /\ a % u < u /\ a = u * (a \div u) + (a % u)
  OBVIOUS

LEMMA TimesMono ==
  ASSUME NEW u \in Nat, NEW a \in Nat, NEW b \in Nat, a <= b
  PROVE  u * a <= u * b /\ u * a \in Nat /\ u * b \in Nat
  OBVIOUS

LEMMA DivUnique ==
  ASSUME NEW u \in Nat \ {0}, NEW q \in Nat, NEW r \in Nat, r < u
  PROVE  (u * q + r) \div u = q /\ (u * q + r) % u = r
<1> DEFINE n == u * q + r
           d == n \div u
           m == n % u
<1>0. u * q \in Nat /\ n \in Nat
  OBVIOUS
<1>1. d \in Nat /\ m \in Nat /\ m < u /\ n = u * d + m
  BY <1>0, DivFacts
<1>2. n = u * q + r
  OBVIOUS
<1> HIDE DEF d, m, n
<1>3. ASSUME d < q PROVE FALSE
  <2>1. u * (d + 1) <= u * q
    BY <1>1, <1>3, TimesMono
  <2>2. u * (d + 1) = u * d + u
    BY <1>1
  <2> QED BY <1>0, <1>1, <1>2, <2>1, <2>2, TimesMono
<1>4. ASSUME q < d PROVE FALSE
  <2>1. u * (q + 1) <= u * d
    BY <1>1, <1>4, TimesMono
  <2>2. u * (q + 1) = u * q + u
    OBVIOUS
  <2> QED BY <1>0, <1>1, <1>2, <2>1, <2>2, TimesMono
<1>5. d = q
  BY <1>1, <1>3, <1>4
<1>6. m = r
  BY <1>0, <1>1, <1>2, <1>5, TimesMono
<1> QED
  BY <1>5, <1>6 DEF d, m, n

LEMMA ModSmall ==
  ASSUME NEW a \in Nat, NEW u \in Nat \ {0}, a < u
  PROVE  a % u = a
<1>1. u * 0 = 0 /\ 0 \in Nat
  OBVIOUS
<1> QED
  BY <1>1, DivUnique

-----------------------------------------------------------------------------
(***************************************************************************)
(* A window that is filled to its last pixel.                              *)
(***************************************************************************)
Sweep(window, n) == {Cell(window, k) : k \in 0 .. n - 1}

Frame(x, y, w, h) == <<x, y, x + w - 1, y + h - 1>>

Rectangle(x, y, w, h) == (x .. x + w - 1) \X (y .. y + h - 1)

\* The k-th pixel of a window lies in the window, and so for each of its cells.
LEMMA CellOfPixel ==
  ASSUME NEW x \in Nat, NEW y \in Nat, NEW w \in Nat, NEW h \in Nat,
         NEW k \in 0 .. (w * h) - 1
  PROVE  /\ w \in Nat \ {0} /\ h \in Nat \ {0}
         /\ k % w \in 0 .. w - 1 /\ k \div w \in 0 .. h - 1
         /\ Cell(Frame(x, y, w, h), k) = <<x + (k % w), y + (k \div w)>>
<1>1. w # 0 /\ h # 0 /\ w * h \in Nat /\ k \in Nat
  OBVIOUS
<1>2. k % w \in 0 .. w - 1 /\ k \div w \in Nat /\ k = w * (k \div w) + (k % w)
  BY <1>1, DivFacts
<1> DEFINE d == k \div w
           m == k % w
<1> HIDE DEF d, m
<1>3. d < h
  <2> SUFFICES ASSUME h <= d PROVE FALSE
    BY <1>2 DEF d
  <2>1. w * h <= w * d /\ w * d \in Nat
    BY <1>2, TimesMono DEF d
  <2>2. k = w * d + m /\ m \in Nat
    BY <1>2 DEF d, m
  <2> QED BY <1>1, <2>1, <2>2
<1>4. d % h = d
  BY <1>2, <1>3 DEF d
<1>5. x + w - 1 - x + 1 = w /\ y + h - 1 - y + 1 = h
  OBVIOUS
<1>6. Cell(Frame(x, y, w, h), k) = <<x + m, y + (d % h)>>
  BY <1>5 DEF Cell, Frame, d, m
<1> QED
  BY <1>1, <1>2, <1>3, <1>4, <1>6 DEF d, m

LEMMA PixelOfCell ==
  ASSUME NEW w \in Nat, NEW h \in Nat, NEW a \in 0 .. w - 1, NEW b \in 0 .. h - 1
  PROVE  \E k \in 0 .. (w * h) - 1 : k % w = a /\ k \div w = b
<1> DEFINE k == w * b + a
<1>1. w \in Nat \ {0} /\ a \in Nat /\ b \in Nat /\ a < w /\ b + 1 <= h
  OBVIOUS
<1>2. k \div w = b /\ k % w = a
  BY <1>1, DivUnique
<1>3. w * (b + 1) <= w * h /\ w * (b + 1) = w * b + w /\ w * h \in Nat /\ w * b \in Nat
  BY <1>1, TimesMono
<1>4. k \in 0 .. (w * h) - 1
  BY <1>1, <1>3
<1> QED
  BY <1>2, <1>4

LEMMA WindowSwept ==
  ASSUME NEW x \in Nat, NEW y \in Nat, NEW w \in Nat, NEW h \in Nat
  PROVE  Sweep(Frame(x, y, w, h), w * h) = Rectangle(x, y, w, h)
<1>1. ASSUME NEW k \in 0 .. (w * h) - 1
      PROVE  Cell(Frame(x, y, w, h), k) \in Rectangle(x, y, w, h)
  <2>1. /\ k % w \in 0 .. w - 1 /\ k \div w \in 0 .. h - 1
        /\ Cell(Frame(x, y, w, h), k) = <<x + (k % w), y + (k \div w)>>
    BY CellOfPixel
  <2>2. x + (k % w) \in x .. x + w - 1 /\ y + (k \div w) \in y .. y + h - 1
    BY <2>1
  <2> QED
    BY <2>1, <2>2 DEF Rectangle
<1>2. ASSUME NEW c \in Rectangle(x, y, w, h)
      PROVE  \E k \in 0 .. (w * h) - 1 : c = Cell(Frame(x, y, w, h), k)
  <2>1. /\ c = <<c[1], c[2]>> /\ c[1] - x \in 0 .. w - 1 /\ c[2] - y \in 0 .. h - 1
        /\ c[1] \in Int /\ c[2] \in Int
    BY DEF Rectangle
  <2>2. PICK k \in 0 .. (w * h) - 1 : k % w = c[1] - x /\ k \div w = c[2] - y
    BY <2>1, PixelOfCell
  <2>3. Cell(Frame(x, y, w, h), k) = <<x + (k % w), y + (k \div w)>>
    BY CellOfPixel
  <2>4. x + (k % w) = c[1] /\ y + (k \div w) = c[2]
    BY <2>1, <2>2
  <2> QED
    BY <2>1, <2>3, <2>4
<1> QED
  BY <1>1, <1>2 DEF Sweep

LEMMA RectangleSize ==
  ASSUME NEW x \in Nat, NEW y \in Nat, NEW w \in Nat, NEW h \in Nat
  PROVE  Cardinality(Rectangle(x, y, w, h)) = w * h
<1> DEFINE S == x .. x + w - 1
           T == y .. y + h - 1
<1>1. IsFiniteSet(S) /\ Cardinality(S) = w
  <2>1. x \in Int /\ x + w - 1 \in Int
    OBVIOUS
  <2>2. Cardinality(S) = IF x > x + w - 1 THEN 0 ELSE x + w - 1 - x + 1
    BY <2>1, FS_Interval
  <2> QED
    BY <2>1, <2>2, FS_Interval
<1>2. IsFiniteSet(T) /\ Cardinality(T) = h
  <2>1. y \in Int /\ y + h - 1 \in Int
    OBVIOUS
  <2>2. Cardinality(T) = IF y > y + h - 1 THEN 0 ELSE y + h - 1 - y + 1
    BY <2>1, FS_Interval
  <2> QED
    BY <2>1, <2>2, FS_Interval
<1> HIDE DEF S, T
<1>3. Cardinality(S \X T) = Cardinality(S) * Cardinality(T)
  BY <1>1, <1>2, FS_Product
<1> QED
  BY <1>1, <1>2, <1>3 DEF Rectangle, S, T


-----------------------------------------------------------------------------
(***************************************************************************)
(* Which call is served, and which loops it never starts.                  *)
(***************************************************************************)
Operations ==
  {"fillRectangle", "putImage", "drawLine", "drawRectangle", "drawCircle", "fillCircle", "print"}

Served == call.op \in Operations /\ (call \in Requests \/ call = Blackout)

Circle(op) == [kind : {op}, x : Int, y : Int, dx : Int, dy : Int, err : Int]

Quiet ==
  /\ call = Nothing \/ Served
  /\ display = "off" => call = Nothing
  /\ call = Nothing => Drawn /\ painted = {} /\ ink = {}
  /\ call.op # "fillRectangle" => fill = NoFill
  /\ call.op \notin {"drawLine", "drawRectangle", "fillCircle"} => lines = <<>> /\ line = None
  /\ circle = None \/ (circle \in Circle(call.op) /\ call.op \in {"drawCircle", "fillCircle"})
  /\ text = None \/ call.op = "print"
  /\ call.op # "print" => ink = {}

LEMMA CallFacts ==
  ASSUME NEW c, c = Nothing \/ c \in Requests \/ c = Blackout
  PROVE  /\ c = Nothing => c.op = "none"
         /\ c.op \in {"fillRectangle", "putImage"} =>
              /\ c.x \in Nat /\ c.y \in Nat /\ c.width \in Nat /\ c.height \in Nat
              /\ c.x + c.width <= CoordinateSize /\ c.y + c.height <= CoordinateSize
         /\ c.op = "drawLine" =>
              c.x0 \in Nat /\ c.y0 \in Nat /\ c.x1 \in Nat /\ c.y1 \in Nat
         /\ c.op = "drawRectangle" =>
              /\ c.x \in Nat /\ c.y \in Nat /\ c.w \in Nat /\ c.h \in Nat
              /\ c.x + c.w < CoordinateSize /\ c.y + c.h < CoordinateSize
         /\ c.op \in {"drawCircle", "fillCircle"} =>
              c.x0 \in Nat /\ c.y0 \in Nat /\ c.radius \in Nat
         /\ c.op = "print" =>
              /\ c.x \in Nat /\ c.y \in Nat /\ c.text \in Seq(DOMAIN Font)
              /\ Len(c.text) < IndexSize =>
                   c.x + (Len(c.text) * (FONT_WIDTH + 2)) < CoordinateSize
<1>1. CASE c = Nothing
  BY <1>1 DEF Nothing
<1>2. CASE c = Blackout
  BY <1>2, DisplayAssumption DEF Blackout, Nothing
<1>3. CASE c \in Requests
  BY <1>3, RequestsAssumption DEF Nothing
<1> QED
  BY <1>1, <1>2, <1>3

LEMMA QuietInit == Init => Quiet
BY DEF Init, Quiet, Nothing, Drawn

\* A turn, written out: first y grows, then x shrinks.
Grown(c) ==
  [kind |-> c.kind, x |-> c.x, y |-> c.y + 1, dx |-> c.dx, dy |-> c.dy + 2, err |-> c.err + c.dy]

Shrunk(c) ==
  [kind |-> c.kind, x |-> c.x - 1, y |-> c.y, dx |-> c.dx + 2, dy |-> c.dy,
   err |-> c.err + c.dx + 2 - (2 * call.radius)]

LEMMA TurnedCases ==
  ASSUME NEW op, NEW c \in Circle(op)
  PROVE  LET up == IF c.err <= 0 THEN Grown(c) ELSE c
         IN  Turned(c) = IF up.err > 0 THEN Shrunk(up) ELSE up
<1>1. [c EXCEPT !.y = @ + 1, !.err = @ + c.dy, !.dy = @ + 2] = Grown(c)
  <2> DEFINE r == [c EXCEPT !.y = @ + 1, !.err = @ + c.dy, !.dy = @ + 2]
  <2>1. /\ r.kind = c.kind /\ r.x = c.x /\ r.y = c.y + 1
        /\ r.dx = c.dx /\ r.dy = c.dy + 2 /\ r.err = c.err + c.dy
    BY DEF Circle
  <2>2. DOMAIN r = {"kind", "x", "y", "dx", "dy", "err"}
    BY DEF Circle
  <2>3. r = [f \in DOMAIN r |-> r[f]]
    BY DEF Circle
  <2> HIDE DEF r
  <2>4. r = Grown(c)
    BY <2>1, <2>2, <2>3 DEF Grown
  <2> QED
    BY <2>4 DEF r
<1>2. Grown(c) \in Circle(op)
  BY DEF Circle, Grown
<1>3. ASSUME NEW up \in Circle(op)
      PROVE  [up EXCEPT !.x = @ - 1, !.dx = @ + 2, !.err = @ + up.dx + 2 - (2 * call.radius)]
               = Shrunk(up)
  <2> DEFINE r == [up EXCEPT !.x = @ - 1, !.dx = @ + 2, !.err = @ + up.dx + 2 - (2 * call.radius)]
  <2>1. /\ r.kind = up.kind /\ r.x = up.x - 1 /\ r.y = up.y
        /\ r.dx = up.dx + 2 /\ r.dy = up.dy /\ r.err = up.err + up.dx + 2 - (2 * call.radius)
    BY DEF Circle
  <2>2. DOMAIN r = {"kind", "x", "y", "dx", "dy", "err"}
    BY DEF Circle
  <2>3. r = [f \in DOMAIN r |-> r[f]]
    BY DEF Circle
  <2> HIDE DEF r
  <2>4. r = Shrunk(up)
    BY <2>1, <2>2, <2>3 DEF Shrunk
  <2> QED
    BY <2>4 DEF r
<1> DEFINE coded == IF c.err <= 0
                    THEN [c EXCEPT !.y = @ + 1, !.err = @ + c.dy, !.dy = @ + 2] ELSE c
           up == IF c.err <= 0 THEN Grown(c) ELSE c
           next(u) == [u EXCEPT !.x = @ - 1, !.dx = @ + 2, !.err = @ + u.dx + 2 - (2 * call.radius)]
<1>4. Turned(c) = IF coded.err > 0 THEN next(coded) ELSE coded
  BY DEF Turned
<1>5. up = coded /\ up \in Circle(op)
  BY <1>1, <1>2
<1> HIDE DEF coded, up
<1>6. next(up) = Shrunk(up)
  BY <1>3, <1>5
<1> HIDE DEF next
<1>7. Turned(c) = IF up.err > 0 THEN Shrunk(up) ELSE up
  BY <1>4, <1>5, <1>6
<1> QED
  BY <1>7 DEF up

LEMMA TurnedType ==
  ASSUME NEW op, NEW c \in Circle(op), call.radius \in Nat
  PROVE  Turned(c) \in Circle(op)
BY TurnedCases DEF Circle, Grown, Shrunk

LEMMA QuietNext ==
  ASSUME Quiet, [Next]_vars
  PROVE  Quiet'
<1> USE DEF Quiet
<1>1. CASE UNCHANGED vars
  BY <1>1 DEF vars, loops, panel, Served, Drawn
<1>2. ASSUME UNCHANGED <<display, text>>,
             NEW op \in Operations, Begins(op), ink' = ink,
             op # "fillRectangle" => fill' = fill,
             op \notin {"drawLine", "drawRectangle", "fillCircle"} => lines' = lines /\ line' = line,
             circle' = None \/ (circle' \in Circle(op) /\ op \in {"drawCircle", "fillCircle"})
      PROVE  Quiet'
  <2>1. Served' /\ call'.op = op
    BY <1>2 DEF Begins, Served
  <2>2. call' # Nothing
    BY <2>1 DEF Nothing, Operations
  <2>3. call = Nothing /\ display = "ready"
    BY <1>2 DEF Begins
  <2> QED
    BY <1>2, <2>1, <2>2, <2>3 DEF Drawn
<1>3. ASSUME call # Nothing, call' = call, display' = display,
             call.op # "fillRectangle" => fill' = fill,
             call.op \notin {"drawLine", "drawRectangle", "fillCircle"} => lines' = lines /\ line' = line,
             circle' = circle \/ circle' = None \/ (circle # None /\ circle' \in Circle(call.op)),
             text' = text \/ text' = None \/ text # None,
             ink' = ink \/ text # None
      PROVE  Quiet'
  BY <1>3 DEF Served, Drawn
<1>4. ASSUME Shapes, UNCHANGED <<display, text, ink>>
      PROVE  Quiet'
  <2>0. /\ "fillRectangle" \in Operations /\ "putImage" \in Operations
        /\ "drawLine" \in Operations /\ "drawRectangle" \in Operations
    BY DEF Operations
  <2>1. CASE fillRectangle
    <3>1. Begins("fillRectangle") /\ UNCHANGED <<display, text, ink, lines, line, circle>>
      BY <1>4, <2>1 DEF fillRectangle, StartFill
    <3>2. circle' = None
      BY <3>1 DEF Begins, Drawn
    <3> QED
      BY <1>2, <2>0, <3>1, <3>2
  <2>2. CASE putImage
    <3>1. Begins("putImage") /\ UNCHANGED <<display, text, ink, fill, lines, line, circle>>
      BY <1>4, <2>2 DEF putImage, loops
    <3>2. circle' = None
      BY <3>1 DEF Begins, Drawn
    <3> QED
      BY <1>2, <2>0, <3>1, <3>2
  <2>3. CASE drawLine
    <3>1. Begins("drawLine") /\ UNCHANGED <<display, text, ink, fill, line, circle>>
      BY <1>4, <2>3 DEF drawLine
    <3>2. circle' = None
      BY <3>1 DEF Begins, Drawn
    <3> QED
      BY <1>2, <2>0, <3>1, <3>2
  <2>4. CASE drawRectangle
    <3>1. Begins("drawRectangle") /\ UNCHANGED <<display, text, ink, fill, line, circle>>
      BY <1>4, <2>4 DEF drawRectangle
    <3>2. circle' = None
      BY <3>1 DEF Begins, Drawn
    <3> QED
      BY <1>2, <2>0, <3>1, <3>2
  <2>5. ASSUME NEW op \in {"drawCircle", "fillCircle"}, StartCircle(op)
        PROVE  Quiet'
    <3>1. Served' /\ call'.op = op
      BY <2>5 DEF StartCircle, Begins, Served, Operations
    <3>2. call'.radius \in Nat
      BY <2>5, RequestsAssumption DEF StartCircle, Begins
    <3>3. circle' = None \/ circle' \in Circle(op)
      BY <2>5, <3>2 DEF StartCircle, Circle
    <3> QED
      BY <1>2, <1>4, <2>5, <3>3 DEF StartCircle, Begins, Operations
  <2>6. CASE SendBlock
    BY <1>3, <1>4, <2>6 DEF SendBlock, Drawn, NoFill
  <2>7. CASE SendRest
    BY <1>3, <1>4, <2>7 DEF SendRest, Drawn, NoFill
  <2>8. CASE NextLine
    BY <1>3, <1>4, <2>8 DEF NextLine, Drawn
  <2>9. CASE LineTurn
    BY <1>3, <1>4, <2>9 DEF LineTurn, Drawn
  <2>10. CASE LineEnds
    BY <1>3, <1>4, <2>10 DEF LineEnds, Drawn
  <2>11. CASE RingTurn
    <3>1. circle \in Circle(call.op) /\ call.radius \in Nat /\ circle # None
      BY <2>11, CallFacts DEF RingTurn, None, Served
    <3>2. circle' \in Circle(call.op)
      BY <2>11, <3>1, TurnedType DEF RingTurn
    <3> QED
      BY <1>3, <1>4, <2>11, <3>1, <3>2 DEF RingTurn, Drawn
  <2>12. CASE DiscTurn
    <3>1. circle \in Circle(call.op) /\ call.op = "fillCircle" /\ circle # None
      BY <2>12 DEF DiscTurn, None, Circle
    <3>0. call.radius \in Nat
      BY <3>1, CallFacts DEF Served
    <3>2. circle' \in Circle(call.op)
      BY <2>12, <3>0, <3>1, TurnedType DEF DiscTurn
    <3> QED
      BY <1>3, <1>4, <2>12, <3>1, <3>2 DEF DiscTurn, Drawn
  <2>13. CASE CircleEnds
    BY <1>3, <1>4, <2>13 DEF CircleEnds, Drawn
  <2> QED
    BY <1>4, <2>1, <2>2, <2>3, <2>4, <2>5, <2>6, <2>7, <2>8, <2>9, <2>10, <2>11, <2>12, <2>13
    DEF Shapes, drawCircle, fillCircle
<1>5. CASE display_print /\ UNCHANGED display
  <2>1. Served' /\ call'.op = "print"
    BY <1>5 DEF display_print, Begins, Served, Operations
  <2> QED
    BY <1>5, <2>1 DEF display_print, Begins, loops, Nothing, Drawn
<1>6. CASE PrintTurn /\ UNCHANGED display
  BY <1>3, <1>6 DEF PrintTurn, loops, Drawn
<1>7. CASE PrintEnds /\ UNCHANGED display
  BY <1>3, <1>7 DEF PrintEnds, loops, Drawn
<1>8. CASE display_begin
  <2>1. CASE display' = "ready"
    <3>1. call' = Blackout /\ call'.op = "fillRectangle" /\ Served'
      BY <1>8, <2>1 DEF display_begin, Blackout, Served, Operations
    <3>2. UNCHANGED <<lines, line, circle, text, ink>>
      BY <1>8, <2>1 DEF display_begin, StartFill
    <3> QED
      BY <1>8, <2>1, <3>1, <3>2 DEF display_begin, Drawn, Nothing
  <2>2. CASE display' # "ready"
    BY <1>8, <2>2 DEF display_begin, loops, panel, Drawn
  <2> QED
    BY <2>1, <2>2
<1>9. CASE Hang
  BY <1>1, <1>9 DEF Hang
<1>10. CASE Return
  BY <1>10 DEF Return, Drawn, loops, Nothing, Served, Operations
<1> QED
  BY <1>1, <1>4, <1>5, <1>6, <1>7, <1>8, <1>9, <1>10 DEF Next


\* Which actions a call of each kind consists of.
LEMMA WhoActs ==
  ASSUME Quiet, [Next]_vars
  PROVE  \/ UNCHANGED vars
         \/ call' = Nothing
         \/ fillRectangle \/ (display_begin /\ display' = "ready")
         \/ (call.op = "fillRectangle" /\ (SendBlock \/ SendRest))
         \/ putImage
         \/ drawLine \/ drawRectangle
         \/ (call.op \in {"drawLine", "drawRectangle", "fillCircle"} /\ (NextLine \/ LineTurn \/ LineEnds))
         \/ StartCircle("drawCircle") \/ StartCircle("fillCircle")
         \/ (call.op = "drawCircle" /\ RingTurn)
         \/ (call.op = "fillCircle" /\ DiscTurn)
         \/ (call.op \in {"drawCircle", "fillCircle"} /\ CircleEnds)
         \/ (display_print \/ (call.op = "print" /\ (PrintTurn \/ PrintEnds))) /\ UNCHANGED display
<1>1. SendBlock \/ SendRest => call.op = "fillRectangle"
  BY DEF Quiet, SendBlock, SendRest, NoFill
<1>2. NextLine \/ LineTurn \/ LineEnds => call.op \in {"drawLine", "drawRectangle", "fillCircle"}
  BY DEF Quiet, NextLine, LineTurn, LineEnds
<1>3. RingTurn => call.op = "drawCircle"
  BY DEF Quiet, RingTurn, None, Circle
<1>4. DiscTurn => call.op = "fillCircle"
  BY DEF Quiet, DiscTurn, None, Circle
<1>5. CircleEnds => call.op \in {"drawCircle", "fillCircle"}
  BY DEF Quiet, CircleEnds
<1>6. PrintTurn \/ PrintEnds => call.op = "print"
  BY DEF Quiet, PrintTurn, PrintEnds
<1>7. display_begin => display' = "ready" \/ call' = Nothing
  BY DEF display_begin, Quiet
<1>8. Return => call' = Nothing
  BY DEF Return
<1>9. Hang => UNCHANGED vars
  BY DEF Hang
<1>10. CASE Shapes
  <2>1. CASE fillRectangle \/ putImage \/ drawLine \/ drawRectangle \/ drawCircle \/ fillCircle
    <3>1. drawCircle => StartCircle("drawCircle")
      BY DEF drawCircle
    <3>2. fillCircle => StartCircle("fillCircle")
      BY DEF fillCircle
    <3> QED
      BY <2>1, <3>1, <3>2, Zenon
  <2>2. CASE SendBlock \/ SendRest \/ RingTurn \/ DiscTurn
    BY <1>1, <1>3, <1>4, <2>2, Zenon
  <2>3. CASE NextLine \/ LineTurn \/ LineEnds
    BY <1>2, <2>3, Zenon
  <2>4. CASE CircleEnds
    BY <1>5, <2>4, Zenon
  <2> QED
    BY <1>10, <2>1, <2>2, <2>3, <2>4, Zenon DEF Shapes
<1>11. CASE (display_print \/ PrintTurn \/ PrintEnds) /\ UNCHANGED display
  BY <1>6, <1>11, Zenon
<1>12. CASE display_begin \/ Hang \/ Return
  BY <1>7, <1>8, <1>9, <1>12, Zenon
<1> QED
  BY <1>10, <1>11, <1>12, Zenon DEF Next

LEMMA ActionsOf ==
  ASSUME Quiet, [Next]_vars
  PROVE  /\ call'.op = "fillRectangle" =>
              \/ UNCHANGED vars \/ fillRectangle \/ (display_begin /\ display' = "ready")
              \/ (call.op = "fillRectangle" /\ (SendBlock \/ SendRest))
         /\ call'.op = "putImage" => UNCHANGED vars \/ putImage
         /\ call'.op = "drawLine" =>
              \/ UNCHANGED vars \/ drawLine
              \/ (call.op = "drawLine" /\ (NextLine \/ LineTurn \/ LineEnds))
         /\ call'.op = "drawRectangle" =>
              \/ UNCHANGED vars \/ drawRectangle
              \/ (call.op = "drawRectangle" /\ (NextLine \/ LineTurn \/ LineEnds))
         /\ call'.op = "drawCircle" =>
              \/ UNCHANGED vars \/ StartCircle("drawCircle")
              \/ (call.op = "drawCircle" /\ (RingTurn \/ CircleEnds))
         /\ call'.op = "fillCircle" =>
              \/ UNCHANGED vars \/ StartCircle("fillCircle")
              \/ (call.op = "fillCircle" /\ (NextLine \/ LineTurn \/ LineEnds \/ DiscTurn \/ CircleEnds))
         /\ call'.op = "print" =>
              \/ UNCHANGED vars \/ display_print
              \/ (call.op = "print" /\ (PrintTurn \/ PrintEnds))
<1>1. call' = Nothing => call'.op = "none"
  BY DEF Nothing
<1>2. /\ fillRectangle => call'.op = "fillRectangle"
      /\ putImage => call'.op = "putImage"
      /\ drawLine => call'.op = "drawLine"
      /\ drawRectangle => call'.op = "drawRectangle"
      /\ StartCircle("drawCircle") => call'.op = "drawCircle"
      /\ StartCircle("fillCircle") => call'.op = "fillCircle"
      /\ display_print => call'.op = "print"
  BY DEF fillRectangle, putImage, drawLine, drawRectangle, StartCircle, display_print, Begins
<1>3. display_begin /\ display' = "ready" => call'.op = "fillRectangle"
  BY DEF display_begin, Blackout, Quiet
<1>4. (SendBlock \/ SendRest \/ NextLine \/ LineTurn \/ LineEnds \/ RingTurn \/ DiscTurn
         \/ CircleEnds \/ PrintTurn \/ PrintEnds) => call'.op = call.op
  BY DEF SendBlock, SendRest, NextLine, LineTurn, LineEnds, RingTurn, DiscTurn, CircleEnds, PrintTurn,
         PrintEnds
<1> QED
  BY WhoActs, <1>1, <1>2, <1>3, <1>4

LEMMA Started ==
  ASSUME NEW op \in Operations, Begins(op), Quiet
  PROVE  /\ call' \in Requests /\ call'.op = op /\ call = Nothing
         /\ painted = {} /\ ink = {} /\ Drawn
BY DEF Begins, Quiet

-----------------------------------------------------------------------------
(***************************************************************************)
(* fillRectangle and putImage: what was sent and what is still counted are *)
(* together the pixels of the window, and the pixels sent are its first.   *)
(***************************************************************************)
Filling ==
  call.op = "fillRectangle" =>
    /\ aperture = Window(call)
    /\ fill \in [blocks : Nat, pixels : Nat] /\ sent \in Nat
    /\ sent + (PIXEL_CACHE_SIZE * fill.blocks) + fill.pixels = call.width * call.height
    /\ painted = Sweep(Window(call), sent)

Imaged ==
  call.op = "putImage" =>
    painted = Sweep(Window(call), call.width * call.height) /\ sent = call.width * call.height

LEMMA SweepMore ==
  ASSUME NEW window, NEW m \in Nat, NEW n \in Nat
  PROVE  Sweep(window, m) \cup {Cell(window, k) : k \in m .. m + n - 1} = Sweep(window, m + n)
<1>1. (0 .. m - 1) \cup (m .. m + n - 1) = 0 .. m + n - 1
  OBVIOUS
<1> QED
  BY <1>1 DEF Sweep

LEMMA StartFilling ==
  ASSUME call'.op = "fillRectangle", StartFill(call'), (call = Nothing \/ Served)'
  PROVE  Filling'
<1> DEFINE n == call'.height * call'.width
<1>1. call'.width \in Nat /\ call'.height \in Nat /\ n \in Nat /\ n = call'.width * call'.height
  <2>1. call'.width \in Nat /\ call'.height \in Nat
    BY CallFacts DEF Served
  <2> QED
    BY <2>1
<1> HIDE DEF n
<1>2. /\ n \div PIXEL_CACHE_SIZE \in Nat /\ n % PIXEL_CACHE_SIZE \in Nat
      /\ n = PIXEL_CACHE_SIZE * (n \div PIXEL_CACHE_SIZE) + (n % PIXEL_CACHE_SIZE)
  BY <1>1, DisplayAssumption, DivFacts
<1>3. /\ fill' = [blocks |-> n \div PIXEL_CACHE_SIZE, pixels |-> n % PIXEL_CACHE_SIZE]
      /\ sent' = 0 /\ painted' = {} /\ aperture' = Window(call')
  BY DEF StartFill, n
<1>4. painted' = Sweep(Window(call'), 0)
  BY <1>3 DEF Sweep
<1>5. PIXEL_CACHE_SIZE * (n \div PIXEL_CACHE_SIZE) \in Nat
  <2>1. 0 \in Nat /\ 0 <= n \div PIXEL_CACHE_SIZE /\ PIXEL_CACHE_SIZE \in Nat
    BY <1>2, DisplayAssumption
  <2> QED
    BY <1>2, <2>1, TimesMono
<1>6. sent' + (PIXEL_CACHE_SIZE * fill'.blocks) + fill'.pixels = call'.width * call'.height
  BY <1>1, <1>2, <1>3, <1>5
<1> QED
  BY <1>2, <1>3, <1>4, <1>6 DEF Filling


LEMMA FillingNext ==
  ASSUME Quiet, Quiet', Filling, [Next]_vars, call'.op = "fillRectangle"
  PROVE  Filling'
<1>1. CASE UNCHANGED vars
  BY <1>1 DEF vars, loops, panel, Filling
<1>2. CASE fillRectangle
  BY <1>2, StartFilling DEF fillRectangle, Quiet
<1>3. CASE display_begin /\ display' = "ready"
  BY <1>3, StartFilling DEF display_begin, Quiet
<1>4. ASSUME NEW n \in Nat, SendPixels(n), UNCHANGED call, call.op = "fillRectangle",
             fill' \in [blocks : Nat, pixels : Nat],
             n + (PIXEL_CACHE_SIZE * fill'.blocks) + fill'.pixels
               = (PIXEL_CACHE_SIZE * fill.blocks) + fill.pixels
      PROVE  Filling'
  <2>1. /\ sent \in Nat /\ sent' = sent + n /\ aperture' = Window(call)
        /\ painted' = Sweep(Window(call), sent) \cup {Cell(Window(call), k) : k \in sent .. sent + n - 1}
    BY <1>4 DEF SendPixels, Filling
  <2>2. painted' = Sweep(Window(call), sent')
    BY <2>1, SweepMore
  <2>3. fill \in [blocks : Nat, pixels : Nat]
    BY <1>4 DEF Filling
  <2>4. /\ PIXEL_CACHE_SIZE * fill.blocks \in Int /\ fill.pixels \in Int
        /\ PIXEL_CACHE_SIZE * fill'.blocks \in Int /\ fill'.pixels \in Int
    BY <1>4, <2>3, DisplayAssumption
  <2>5. sent' + (PIXEL_CACHE_SIZE * fill'.blocks) + fill'.pixels = call.width * call.height
    <3>1. sent + (PIXEL_CACHE_SIZE * fill.blocks) + fill.pixels = call.width * call.height
      BY <1>4 DEF Filling
    <3> QED
      BY <1>4, <2>1, <2>4, <3>1
  <2> QED
    BY <1>4, <2>1, <2>2, <2>5 DEF Filling
<1>5. CASE call.op = "fillRectangle" /\ SendBlock
  <2>1. fill \in [blocks : Nat, pixels : Nat] /\ fill.blocks > 0
    BY <1>5 DEF Filling, SendBlock
  <2>2. /\ fill' \in [blocks : Nat, pixels : Nat]
        /\ fill'.blocks = fill.blocks - 1 /\ fill'.pixels = fill.pixels
    BY <1>5, <2>1 DEF SendBlock
  <2>3. PIXEL_CACHE_SIZE * (fill.blocks - 1) = PIXEL_CACHE_SIZE * fill.blocks - PIXEL_CACHE_SIZE
    BY <2>1, DisplayAssumption
  <2>4. PIXEL_CACHE_SIZE + (PIXEL_CACHE_SIZE * fill'.blocks) + fill'.pixels
          = (PIXEL_CACHE_SIZE * fill.blocks) + fill.pixels
    BY <2>1, <2>2, <2>3, DisplayAssumption
  <2> QED
    BY <1>4, <1>5, <2>2, <2>4, DisplayAssumption DEF SendBlock
<1>6. CASE call.op = "fillRectangle" /\ SendRest
  <2>1. fill \in [blocks : Nat, pixels : Nat] /\ fill.pixels > 0
    BY <1>6 DEF Filling, SendRest
  <2>2. /\ fill' \in [blocks : Nat, pixels : Nat]
        /\ fill'.blocks = fill.blocks /\ fill'.pixels = fill.pixels - 1
    BY <1>6, <2>1 DEF SendRest
  <2>3. PIXEL_CACHE_SIZE * fill.blocks \in Int
    BY <2>1, DisplayAssumption
  <2>4. 1 + (PIXEL_CACHE_SIZE * fill'.blocks) + fill'.pixels
          = (PIXEL_CACHE_SIZE * fill.blocks) + fill.pixels
    BY <2>1, <2>2, <2>3
  <2> QED
    BY <1>4, <1>6, <2>2, <2>4 DEF SendRest
<1> QED
  BY ActionsOf, <1>1, <1>2, <1>3, <1>5, <1>6

LEMMA ImagedNext ==
  ASSUME Quiet, Imaged, [Next]_vars, call'.op = "putImage"
  PROVE  Imaged'
<1>1. CASE UNCHANGED vars
  BY <1>1 DEF vars, panel, Imaged
<1>2. CASE putImage
  <2>1. painted = {} /\ call'.width \in Nat /\ call'.height \in Nat
    BY <1>2, CallFacts DEF putImage, Begins, Quiet
  <2> QED
    BY <1>2, <2>1 DEF putImage, SendImage, Sweep, Imaged
<1> QED
  BY ActionsOf, <1>1, <1>2


-----------------------------------------------------------------------------
(***************************************************************************)
(* print: the characters drawn so far are the first ones of the text, each *)
(* in its own box.                                                         *)
(***************************************************************************)
Boxes(n) ==
  {<<Left(k) + col, call.y + row>> :
     k \in 1 .. n, col \in 0 .. FONT_WIDTH - 1, row \in 0 .. FONT_HEIGHT - 1}

Dots(n) ==
  {b \in Boxes(n) :
     \E k \in 1 .. n, col \in 0 .. FONT_WIDTH - 1 :
       b[1] = Left(k) + col /\ (b[2] - call.y) \in Font[call.text[k]][col]}

Printing ==
  call.op = "print" =>
    LET length == Len(call.text)
        written(n) == painted = Boxes(n) /\ ink = Dots(n)
    IN  /\ text = None => length < IndexSize /\ written(length)
        /\ text # None =>
             /\ text \in [kind : {"text"}, index : 0 .. length, x : Nat]
             /\ text.index < IndexSize
             /\ length < IndexSize => text.x = Left(text.index + 1) /\ written(text.index)

\* Character n + 1 adds its box and its dots.
LEMMA NextBox ==
  ASSUME NEW n \in Nat
  PROVE  Boxes(n + 1) = Boxes(n)
           \cup {<<Left(n + 1) + col, call.y + row>> :
                   col \in 0 .. FONT_WIDTH - 1, row \in 0 .. FONT_HEIGHT - 1}
<1>1. 1 .. n + 1 = (1 .. n) \cup {n + 1}
  OBVIOUS
<1> QED
  BY <1>1 DEF Boxes

LEMMA NextDots ==
  ASSUME NEW n \in Nat, call.y \in Int, call.text[n + 1] \in DOMAIN Font,
         \A k \in 1 .. n + 1 : Left(k) \in Int
  PROVE  Dots(n + 1) = Dots(n)
           \cup {<<Left(n + 1) + (k % FONT_WIDTH), call.y + (k \div FONT_WIDTH)>> :
                   k \in TextBox(call.text[n + 1])}
<1> DEFINE C == Font[call.text[n + 1]]
           New == {<<Left(n + 1) + (k % FONT_WIDTH), call.y + (k \div FONT_WIDTH)>> :
                     k \in TextBox(call.text[n + 1])}
<1>0. C \in [0 .. FONT_WIDTH - 1 -> SUBSET (0 .. FONT_HEIGHT - 1)]
  BY DisplayAssumption
<1>1. ASSUME NEW b \in Dots(n) PROVE b \in Dots(n + 1)
  BY NextBox DEF Dots
<1>2. ASSUME NEW k \in TextBox(call.text[n + 1])
      PROVE  <<Left(n + 1) + (k % FONT_WIDTH), call.y + (k \div FONT_WIDTH)>> \in Dots(n + 1)
  <2> DEFINE col == k % FONT_WIDTH
             row == k \div FONT_WIDTH
  <2>1. col \in 0 .. FONT_WIDTH - 1 /\ row \in 0 .. FONT_HEIGHT - 1
    BY DisplayAssumption, CellOfPixel DEF TextBox
  <2>2. row \in C[col]
    BY DEF TextBox
  <2> HIDE DEF col, row
  <2>3. <<Left(n + 1) + col, call.y + row>> \in Boxes(n + 1) /\ n + 1 \in 1 .. n + 1
    BY <2>1 DEF Boxes
  <2>4. call.y + row - call.y = row
    BY <2>1
  <2> QED
    BY <2>1, <2>2, <2>3, <2>4 DEF Dots, col, row
<1>3. ASSUME NEW b \in Dots(n + 1) PROVE b \in Dots(n) \/ b \in New
  <2>1. PICK k \in 1 .. n + 1 : \E col \in 0 .. FONT_WIDTH - 1 :
          b[1] = Left(k) + col /\ (b[2] - call.y) \in Font[call.text[k]][col]
    BY DEF Dots
  <2>2. PICK col \in 0 .. FONT_WIDTH - 1 :
          b[1] = Left(k) + col /\ (b[2] - call.y) \in Font[call.text[k]][col]
    BY <2>1
  <2>3. PICK row \in 0 .. FONT_HEIGHT - 1 : b = <<b[1], call.y + row>>
    BY DEF Dots, Boxes
  <2>4. b = <<Left(k) + col, call.y + row>> /\ b[2] = call.y + row
    BY <2>2, <2>3
  <2>5. CASE k \in 1 .. n
    <3>1. b \in Boxes(n)
      BY <2>4, <2>5 DEF Boxes
    <3> QED
      BY <2>2, <2>5, <3>1 DEF Dots
  <2>6. CASE k = n + 1
    <3>1. PICK i \in 0 .. (FONT_WIDTH * FONT_HEIGHT) - 1 : i % FONT_WIDTH = col /\ i \div FONT_WIDTH = row
      <4>1. FONT_WIDTH \in Nat /\ FONT_HEIGHT \in Nat
        BY DisplayAssumption
      <4> QED
        BY <4>1, PixelOfCell
    <3>2. row \in C[col]
      BY <2>2, <2>4, <2>6
    <3>3. i \in TextBox(call.text[n + 1])
      BY <3>1, <3>2 DEF TextBox
    <3> QED
      BY <2>4, <2>6, <3>1, <3>3
  <2> QED
    BY <2>5, <2>6
<1> QED
  BY <1>1, <1>2, <1>3

LEMMA CellOfDot ==
  ASSUME NEW x \in Nat, NEW y \in Nat, NEW c, NEW k \in TextBox(c)
  PROVE  Cell(Frame(x, y, FONT_WIDTH, FONT_HEIGHT), k)
           = <<x + (k % FONT_WIDTH), y + (k \div FONT_WIDTH)>>
<1>1. k \in 0 .. (FONT_WIDTH * FONT_HEIGHT) - 1 /\ FONT_WIDTH \in Nat /\ FONT_HEIGHT \in Nat
  BY DisplayAssumption DEF TextBox
<1>2. Cell(Frame(x, y, FONT_WIDTH, FONT_HEIGHT), k)
        = <<x + (k % FONT_WIDTH), y + (k \div FONT_WIDTH)>>
  BY <1>1, CellOfPixel, SMTT(30)
<1> QED
  BY <1>2

Box(x, y, w, h) == {<<x + col, y + row>> : col \in 0 .. w - 1, row \in 0 .. h - 1}

LEMMA BoxIsRectangle ==
  ASSUME NEW x \in Nat, NEW y \in Nat, NEW w \in Nat, NEW h \in Nat
  PROVE  Rectangle(x, y, w, h) = Box(x, y, w, h)
<1>1. ASSUME NEW c \in Rectangle(x, y, w, h)
      PROVE  c \in {<<x + col, y + row>> : col \in 0 .. w - 1, row \in 0 .. h - 1}
  <2>1. c = <<c[1], c[2]>> /\ c[1] \in x .. x + w - 1 /\ c[2] \in y .. y + h - 1
    BY DEF Rectangle
  <2>2. /\ c[1] - x \in 0 .. w - 1 /\ c[2] - y \in 0 .. h - 1
        /\ c[1] = x + (c[1] - x) /\ c[2] = y + (c[2] - y)
    BY <2>1
  <2> QED
    BY <2>1, <2>2
<1>2. ASSUME NEW col \in 0 .. w - 1, NEW row \in 0 .. h - 1
      PROVE  <<x + col, y + row>> \in Rectangle(x, y, w, h)
  <2>1. x + col \in x .. x + w - 1 /\ y + row \in y .. y + h - 1
    OBVIOUS
  <2> QED
    BY <2>1 DEF Rectangle
<1> QED
  BY <1>1, <1>2 DEF Box

LEMMA Pitches ==
  ASSUME NEW a \in Nat, NEW p \in Nat, NEW i \in Nat, NEW n \in Nat, i + 1 <= n
  PROVE  a + (i * p) + p = a + ((i + 1) * p) /\ a + (i * p) + p <= a + (n * p)
<1>1. p * (i + 1) <= p * n
  BY TimesMono
<1> QED
  BY <1>1

LEMMA PrintingNext ==
  ASSUME Quiet, Printing, [Next]_vars, call'.op = "print"
  PROVE  Printing'
<1>1. CASE UNCHANGED vars
  <2>1. UNCHANGED <<call, text, painted, ink>>
    BY <1>1 DEF vars, loops, panel
  <2>2. /\ \A n : Boxes(n)' = Boxes(n) /\ Dots(n)' = Dots(n)
        /\ \A n : Left(n)' = Left(n)
    BY <2>1 DEF Boxes, Dots, Left
  <2> QED
    BY <2>1, <2>2 DEF Printing
<1>2. CASE display_print
  <2>1. /\ painted' = {} /\ ink' = {} /\ text' = [kind |-> "text", index |-> 0, x |-> call'.x]
        /\ call'.x \in Nat /\ call'.y \in Nat /\ call'.text \in Seq(DOMAIN Font)
    BY <1>2, CallFacts DEF display_print, Begins, Quiet, panel
  <2>2. Boxes(0)' = {} /\ Dots(0)' = {}
    BY DEF Boxes, Dots
  <2>3. text' # None
    BY <2>1 DEF None
  <2>4. Left(1)' = call'.x
    BY <2>1, DisplayAssumption DEF Left
  <2> QED
    BY <2>1, <2>2, <2>3, <2>4, DisplayAssumption DEF Printing
<1>3. CASE call.op = "print" /\ PrintEnds
  <2>1. call' = call /\ text # None /\ text' = None /\ painted' = painted /\ ink' = ink
    BY <1>3 DEF PrintEnds, panel
  <2>2. call.text \in Seq(DOMAIN Font)
    BY <1>3, CallFacts DEF Quiet, Served
  <2>3. text.index = Len(call.text) /\ text.index < IndexSize
    BY <1>3, <2>1, <2>2 DEF PrintEnds, Printing
  <2>4. painted = Boxes(Len(call.text)) /\ ink = Dots(Len(call.text))
    BY <1>3, <2>1, <2>3 DEF Printing
  <2> QED
    BY <2>1, <2>3, <2>4 DEF Printing, Boxes, Dots, Left
<1>4. CASE call.op = "print" /\ PrintTurn
  <2> DEFINE length == Len(call.text)
             i == text.index
             c == call.text[i + 1]
  <2>1. /\ call' = call /\ text # None /\ i < length
        /\ call.x \in Nat /\ call.y \in Nat /\ call.text \in Seq(DOMAIN Font)
        /\ length < IndexSize => call.x + (length * (FONT_WIDTH + 2)) < CoordinateSize
    BY <1>4, CallFacts DEF Quiet, PrintTurn, Served
  <2>2. /\ text \in [kind : {"text"}, index : 0 .. length, x : Nat] /\ i < IndexSize
        /\ length < IndexSize => text.x = Left(i + 1) /\ painted = Boxes(i) /\ ink = Dots(i)
    BY <1>4, <2>1 DEF Printing
  <2>3. i \in Nat /\ length \in Nat /\ text.x \in Nat /\ c \in DOMAIN Font
    BY <2>1, <2>2
  <2> HIDE DEF i, length, c
  <2>4. text' = [kind |-> "text", index |-> (i + 1) % IndexSize,
                 x |-> Coordinate(text.x + FONT_WIDTH + 2)]
    <3> DEFINE r == [text EXCEPT !.index = (@ + 1) % IndexSize,
                                 !.x = Coordinate(@ + FONT_WIDTH + 2)]
    <3>1. text' = r
      BY <1>4 DEF PrintTurn
    <3>2. r.kind = "text" /\ r.index = (text.index + 1) % IndexSize
          /\ r.x = Coordinate(text.x + FONT_WIDTH + 2)
      BY <2>2
    <3>3. DOMAIN r = {"kind", "index", "x"} /\ r = [f \in DOMAIN r |-> r[f]]
      BY <2>2
    <3> HIDE DEF r
    <3> QED
      BY <3>1, <3>2, <3>3 DEF i
  <2>5. /\ (i + 1) % IndexSize \in Nat /\ (i + 1) % IndexSize < IndexSize
        /\ (i + 1) % IndexSize <= i + 1
        /\ Coordinate(text.x + FONT_WIDTH + 2) \in Nat
    <3>1. i + 1 \in Nat /\ text.x + FONT_WIDTH + 2 \in Nat
      BY <2>3, DisplayAssumption
    <3>2. (i + 1) % IndexSize \in Nat /\ (i + 1) % IndexSize < IndexSize
      BY <3>1, DisplayAssumption, DivFacts
    <3>3. Coordinate(text.x + FONT_WIDTH + 2) \in Nat
      BY <3>1, DisplayAssumption, DivFacts DEF Coordinate
    <3>4. (i + 1) % IndexSize <= i + 1
      <4>1. CASE i + 1 < IndexSize
        BY <3>1, <4>1, DisplayAssumption, ModSmall
      <4>2. CASE i + 1 >= IndexSize
        BY <3>1, <3>2, <4>2, DisplayAssumption
      <4> QED
        BY <3>1, <4>1, <4>2, DisplayAssumption
    <3> QED
      BY <3>2, <3>3, <3>4
  <2>6. text' # None
    BY <2>4 DEF None
  <2>7. text' \in [kind : {"text"}, index : 0 .. length, x : Nat] /\ text'.index < IndexSize
    BY <2>1, <2>3, <2>4, <2>5
  <2>8. ASSUME length < IndexSize
        PROVE  text'.x = Left(text'.index + 1) /\ painted' = Boxes(text'.index) /\ ink' = Dots(text'.index)
    <3> DEFINE x == text.x
               box == {<<x + col, call.y + row>> :
                         col \in 0 .. FONT_WIDTH - 1, row \in 0 .. FONT_HEIGHT - 1}
               dots == {<<x + (k % FONT_WIDTH), call.y + (k \div FONT_WIDTH)>> : k \in TextBox(c)}
               window == Frame(x, call.y, FONT_WIDTH, FONT_HEIGHT)
               size == FONT_WIDTH * FONT_HEIGHT
    <3>1. x = Left(i + 1) /\ painted = Boxes(i) /\ ink = Dots(i)
      BY <2>2, <2>8
    <3>2. i + 1 < IndexSize /\ text'.index = i + 1
      <4>1. i + 1 \in Nat /\ i + 1 < IndexSize
        BY <2>1, <2>3, <2>8, DisplayAssumption
      <4>2. (i + 1) % IndexSize = i + 1
        BY <4>1, DisplayAssumption, ModSmall
      <4> QED
        BY <2>4, <4>1, <4>2
    <3>3. text'.x = Left(text'.index + 1)
      <4> DEFINE pitch == FONT_WIDTH + 2
      <4>1. pitch \in Nat /\ Left(i + 1) = call.x + (i * pitch) /\ Left(i + 2) = call.x + ((i + 1) * pitch)
        <5>1. pitch \in Nat
          BY DisplayAssumption
        <5>2. (i + 1) - 1 = i /\ (i + 2) - 1 = i + 1
          BY <2>3
        <5> QED
          BY <5>1, <5>2 DEF Left
      <4>2. text.x + FONT_WIDTH + 2 = text.x + pitch
        BY <2>3, DisplayAssumption
      <4> HIDE DEF pitch
      <4>3. i \in Nat /\ length \in Nat /\ i + 1 <= length
        BY <2>1, <2>3
      <4>4. text.x + pitch = Left(i + 2) /\ text.x + pitch <= call.x + (length * pitch)
        <5>1. /\ call.x + (i * pitch) + pitch = call.x + ((i + 1) * pitch)
              /\ call.x + (i * pitch) + pitch <= call.x + (length * pitch)
          BY <2>1, <4>1, <4>3, Pitches, Zenon
        <5> QED
          BY <3>1, <4>1, <5>1
      <4>5. text.x + pitch < CoordinateSize
        BY <2>1, <2>3, <2>8, <4>1, <4>4, DisplayAssumption DEF pitch
      <4>6. Coordinate(text.x + pitch) = text.x + pitch
        <5>1. text.x + pitch \in Nat
          BY <2>3, <4>1
        <5> QED
          BY <4>5, <5>1, DisplayAssumption, ModSmall DEF Coordinate
      <4>7. i + 2 = i + 1 + 1
        BY <2>3
      <4> QED
        BY <2>4, <3>2, <4>2, <4>4, <4>6, <4>7
    <3>4. /\ painted' = painted \cup Sweep(window, size)
          /\ ink' = ink \cup {Cell(window, k) : k \in TextBox(c)}
      BY <1>4 DEF PrintTurn, SendImage, Sweep, Frame, i, c
    <3>5. FONT_WIDTH \in Nat /\ FONT_HEIGHT \in Nat /\ x \in Nat
      BY <2>3, DisplayAssumption
    <3>6. Sweep(window, size) = Rectangle(x, call.y, FONT_WIDTH, FONT_HEIGHT)
      <4> HIDE DEF x
      <4>1. FONT_WIDTH \in Nat /\ FONT_HEIGHT \in Nat /\ x \in Nat /\ call.y \in Nat
        BY <2>1, <3>5
      <4>2. Sweep(Frame(x, call.y, FONT_WIDTH, FONT_HEIGHT), FONT_WIDTH * FONT_HEIGHT)
              = Rectangle(x, call.y, FONT_WIDTH, FONT_HEIGHT)
        BY <4>1, WindowSwept
      <4> QED BY <4>2
    <3>7. Rectangle(x, call.y, FONT_WIDTH, FONT_HEIGHT) = box
      <4> HIDE DEF x
      <4>1. Rectangle(x, call.y, FONT_WIDTH, FONT_HEIGHT) = Box(x, call.y, FONT_WIDTH, FONT_HEIGHT)
        BY <2>1, <3>5, BoxIsRectangle
      <4> QED
        BY <4>1 DEF Box
    <3>8. {Cell(window, k) : k \in TextBox(c)} = dots
      <4>1. ASSUME NEW k \in TextBox(c)
            PROVE  Cell(window, k) = <<x + (k % FONT_WIDTH), call.y + (k \div FONT_WIDTH)>>
        BY <2>1, <3>5, CellOfDot
      <4> QED
        BY <4>1
    <3>9. Boxes(i + 1) = Boxes(i) \cup box
      BY <2>3, <3>1, NextBox
    <3>10. Dots(i + 1) = Dots(i) \cup dots
      <4>1. \A k \in 1 .. i + 1 : Left(k) \in Int
        BY <2>1, <2>3, DisplayAssumption DEF Left
      <4> QED
        BY <2>1, <2>3, <3>1, <4>1, NextDots DEF c
    <3> QED
      BY <3>1, <3>2, <3>3, <3>4, <3>6, <3>7, <3>8, <3>9, <3>10
  <2>9. /\ \A n : Boxes(n)' = Boxes(n) /\ Dots(n)' = Dots(n)
        /\ \A n : Left(n)' = Left(n)
    BY <2>1 DEF Boxes, Dots, Left
  <2> QED
    BY <2>1, <2>6, <2>7, <2>8, <2>9 DEF Printing, length
<1> QED
  BY ActionsOf, <1>1, <1>2, <1>3, <1>4


-----------------------------------------------------------------------------
(***************************************************************************)
(* drawLine: the line is at most half a cell off, rounding halves down, so *)
(* that each step along u has exactly one cell.                            *)
(***************************************************************************)
Pixel(kind, u, v) == IF kind = "low" THEN <<u, v>> ELSE <<v, u>>

\* How far the slope S at t is from b cells off along v, times du; and that b
\* is the nearest.
Off(S, t, b) == ((t - S.u) * S.dv) - (b * S.du)

On(S, t, b) ==
  /\ 2 * Off(S, t, b) <= S.du
  /\ IF S.du = 0 THEN b = 0 ELSE -S.du < 2 * Off(S, t, b)

Track(S, last) ==
  {Pixel(S.kind, tb[1], S.v + (S.step * tb[2])) :
     tb \in {p \in (S.u .. last) \X (0 .. S.dv) : On(S, p[1], p[2])}}

\* Each step along u has its cell.
Gapless(S) == \A t \in S.u .. S.last : \E b \in 0 .. S.dv : On(S, t, b)

\* The loop at L has painted the cells: the track of S up to L.u; D tells on which
\* side of the next half it is.
Along(S, L, cells) ==
  /\ L \in [kind : {S.kind}, u : Int, v : Int, last : {S.last}, du : {S.du}, dv : {S.dv},
            step : {S.step}, D : Int]
  /\ L.u \in S.u .. S.last + 1
  /\ cells = Track(S, L.u - 1)
  /\ \A t \in S.u .. L.u - 1 : \E b \in 0 .. S.dv : On(S, t, b)
  /\ \E b \in Nat :
       /\ On(S, L.u, b)
       /\ L.v = S.v + (S.step * b)
       /\ L.D = (2 * (Off(S, L.u, b) + S.dv)) - S.du

Ends == <<call.x0, call.y0, call.x1, call.y1>>

Lining ==
  call.op = "drawLine" =>
    \/ lines = <<Ends>> /\ line = None /\ painted = {}
    \/ lines = <<>> /\ line # None /\ Along(Line(Ends), line, painted)
    \/ /\ lines = <<>> /\ line = None
       /\ painted = Track(Line(Ends), Line(Ends).last) /\ Gapless(Line(Ends))

-----------------------------------------------------------------------------
(***************************************************************************)
(* One pixel, one turn of the loop of a line.                              *)
(***************************************************************************)
LEMMA PutCells ==
  ASSUME NEW ps, PutPixels(ps), \A k \in DOMAIN ps : ps[k] \in Int \X Int
  PROVE  painted' = painted \cup {ps[k] : k \in DOMAIN ps}
<1>1. ASSUME NEW k \in DOMAIN ps
      PROVE  Cell(<<ps[k][1], ps[k][2], ps[k][1] + 1, ps[k][2] + 1>>, 0) = ps[k]
  <2>1. PICK a \in Int, b \in Int : ps[k] = <<a, b>>
    OBVIOUS
  <2>2. a + 1 - a + 1 = 2 /\ b + 1 - b + 1 = 2 /\ 0 % 2 = 0 /\ 0 \div 2 = 0 /\ a + 0 = a /\ b + 0 = b
    OBVIOUS
  <2>3. Cell(<<a, b, a + 1, b + 1>>, 0) = <<a, b>>
    BY <2>2 DEF Cell
  <2> QED
    BY <2>1, <2>3
<1> QED
  BY <1>1 DEF PutPixels

Running ==
  [kind : {"low", "high"}, u : Int, v : Int, last : Int, du : Int, dv : Int, step : {-1, 1}, D : Int]

LEMMA PixelType ==
  ASSUME NEW kind, NEW u \in Int, NEW v \in Int
  PROVE  Pixel(kind, u, v) \in Int \X Int
BY DEF Pixel

LEMMA LineTurns ==
  ASSUME LineTurn, line \in Running
  PROVE  /\ line.u <= line.last /\ UNCHANGED <<call, fill, lines, circle>>
         /\ painted' = painted \cup {Pixel(line.kind, line.u, line.v)}
         /\ line' = [kind |-> line.kind, u |-> line.u + 1,
                     v |-> IF line.D > 0 THEN line.v + line.step ELSE line.v,
                     last |-> line.last, du |-> line.du, dv |-> line.dv, step |-> line.step,
                     D |-> line.D + (2 * line.dv) - (IF line.D > 0 THEN 2 * line.du ELSE 0)]
<1>1. line.u <= line.last /\ UNCHANGED <<call, fill, lines, circle>>
  BY DEF LineTurn
<1>2. painted' = painted \cup {Pixel(line.kind, line.u, line.v)}
  <2> DEFINE p == Pixel(line.kind, line.u, line.v)
  <2>1. PutPixels(<<p>>)
    BY DEF LineTurn, Pixel
  <2>2. p \in Int \X Int
    BY PixelType DEF Running
  <2> HIDE DEF p
  <2>3. painted' = painted \cup {<<p>>[k] : k \in DOMAIN <<p>>}
    BY <2>1, <2>2, PutCells
  <2>4. {<<p>>[k] : k \in DOMAIN <<p>>} = {p}
    OBVIOUS
  <2> QED
    BY <2>3, <2>4 DEF p
<1>3. line' = [kind |-> line.kind, u |-> line.u + 1,
               v |-> IF line.D > 0 THEN line.v + line.step ELSE line.v,
               last |-> line.last, du |-> line.du, dv |-> line.dv, step |-> line.step,
               D |-> line.D + (2 * line.dv) - (IF line.D > 0 THEN 2 * line.du ELSE 0)]
  <2> DEFINE r == [line EXCEPT
                     !.u = @ + 1,
                     !.v = IF line.D > 0 THEN @ + line.step ELSE @,
                     !.D = @ + (2 * line.dv) - (IF line.D > 0 THEN 2 * line.du ELSE 0)]
  <2>1. line' = r
    BY DEF LineTurn
  <2>2. /\ r.kind = line.kind /\ r.u = line.u + 1 /\ r.last = line.last
        /\ r.du = line.du /\ r.dv = line.dv /\ r.step = line.step
    BY DEF Running
  <2>3. r.v = IF line.D > 0 THEN line.v + line.step ELSE line.v
    BY DEF Running
  <2>4. r.D = line.D + (2 * line.dv) - (IF line.D > 0 THEN 2 * line.du ELSE 0)
    BY DEF Running
  <2>5. DOMAIN r = {"kind", "u", "v", "last", "du", "dv", "step", "D"} /\ r = [f \in DOMAIN r |-> r[f]]
    BY DEF Running
  <2> HIDE DEF r
  <2> QED
    BY <2>1, <2>2, <2>3, <2>4, <2>5
<1> QED
  BY <1>1, <1>2, <1>3


Proper(S) ==
  S \in Running /\ S.du \in Nat /\ S.dv \in 0 .. S.du /\ S.last = S.u + S.du /\ S.D = (2 * S.dv) - S.du

LEMMA TimesStep ==
  ASSUME NEW d \in Nat, NEW b \in Nat, NEW c \in Nat, b < c
  PROVE  (b * d) + d <= c * d /\ b * d \in Nat /\ c * d \in Nat
<1>1. d * (b + 1) <= d * c /\ d * (b + 1) = (b * d) + d
  BY TimesMono
<1> QED
  BY <1>1

LEMMA Distribute ==
  ASSUME NEW a \in Int, NEW b \in Int
  PROVE  /\ a * (b + 1) = (a * b) + a /\ a * b \in Int
         /\ (b + 1) * a = (b * a) + a
OBVIOUS

LEMMA OffMoves ==
  ASSUME NEW S, Proper(S), NEW t \in Int, NEW b \in Int
  PROVE  /\ Off(S, t, b) \in Int
         /\ Off(S, t + 1, b) = Off(S, t, b) + S.dv
         /\ Off(S, t + 1, b + 1) = Off(S, t, b) + S.dv - S.du
         /\ Off(S, S.u, 0) = 0
<1>1. S.u \in Int /\ S.dv \in Int /\ S.du \in Int
  BY DEF Proper, Running
<1>2. PICK u \in Int, h \in Int, d \in Int : u = S.u /\ h = S.dv /\ d = S.du
  BY <1>1
<1>3. /\ Off(S, t, b) = ((t - u) * h) - (b * d)
      /\ Off(S, t + 1, b) = ((t + 1 - u) * h) - (b * d)
      /\ Off(S, t + 1, b + 1) = ((t + 1 - u) * h) - ((b + 1) * d)
      /\ Off(S, S.u, 0) = ((u - u) * h) - (0 * d)
  BY <1>2 DEF Off
<1>4. (t + 1 - u) * h = ((t - u) * h) + h /\ (b + 1) * d = (b * d) + d /\ (u - u) * h = 0 /\ 0 * d = 0
  OBVIOUS
<1>5. PICK A \in Int, B \in Int : A = (t - u) * h /\ B = b * d
  OBVIOUS
<1>6. Off(S, t, b) = A - B /\ Off(S, S.u, 0) = 0
  BY <1>3, <1>4, <1>5
<1>7. Off(S, t + 1, b) = A + h - B
  BY <1>3, <1>4, <1>5
<1>8. Off(S, t + 1, b + 1) = A + h - (B + d)
  BY <1>3, <1>4, <1>5
<1> QED
  BY <1>2, <1>6, <1>7, <1>8

\* More cells off along v, less far.
LEMMA OffOrder ==
  ASSUME NEW S, Proper(S), NEW t \in Int, NEW b \in Nat, NEW c \in Nat, b < c
  PROVE  Off(S, t, c) + S.du <= Off(S, t, b)
<1>1. S.u \in Int /\ S.dv \in Int /\ S.du \in Nat
  BY DEF Proper, Running
<1>2. (b * S.du) + S.du <= c * S.du /\ b * S.du \in Nat /\ c * S.du \in Nat
  BY <1>1, TimesStep
<1>3. (t - S.u) * S.dv \in Int
  BY <1>1
<1> QED
  BY <1>1, <1>2, <1>3 DEF Off

LEMMA OneHeight ==
  ASSUME NEW S, Proper(S), NEW t \in Int, NEW b \in 0 .. S.dv, NEW c \in 0 .. S.dv,
         On(S, t, b), On(S, t, c)
  PROVE  b = c
<1>1. /\ S.du \in Nat /\ b \in Nat /\ c \in Nat
      /\ Off(S, t, b) \in Int /\ Off(S, t, c) \in Int
  BY OffMoves DEF Proper, Running
<1>2. b < c => Off(S, t, c) + S.du <= Off(S, t, b)
  BY <1>1, OffOrder
<1>3. c < b => Off(S, t, b) + S.du <= Off(S, t, c)
  BY <1>1, OffOrder
<1> QED
  BY <1>1, <1>2, <1>3 DEF On

LEMMA TrackGrows ==
  ASSUME NEW S, Proper(S), NEW n \in Int, S.u <= n, NEW b \in 0 .. S.dv, On(S, n, b)
  PROVE  Track(S, n) = Track(S, n - 1) \cup {Pixel(S.kind, n, S.v + (S.step * b))}
<1>0. S.u \in Int /\ S.u .. n = (S.u .. n - 1) \cup {n} /\ n \notin S.u .. n - 1
  BY DEF Proper, Running
<1> DEFINE Q(k) == {p \in (S.u .. k) \X (0 .. S.dv) : On(S, p[1], p[2])}
           px(p) == Pixel(S.kind, p[1], S.v + (S.step * p[2]))
<1>1. Q(n) = Q(n - 1) \cup {<<n, b>>}
  <2>1. ASSUME NEW p \in Q(n) PROVE p \in Q(n - 1) \/ p = <<n, b>>
    <3>1. PICK t \in S.u .. n, c \in 0 .. S.dv : p = <<t, c>> /\ On(S, t, c)
      OBVIOUS
    <3>2. CASE t = n
      BY <3>1, <3>2, OneHeight
    <3>3. CASE t # n
      BY <1>0, <3>1, <3>3
    <3> QED
      BY <3>2, <3>3
  <2>2. <<n, b>> \in Q(n)
    BY <1>0
  <2>3. Q(n - 1) \subseteq Q(n)
    BY <1>0
  <2> QED
    BY <2>1, <2>2, <2>3
<1>2. \A k : Track(S, k) = {px(p) : p \in Q(k)}
  BY DEF Track
<1> HIDE DEF Q
<1>3. {px(p) : p \in Q(n - 1) \cup {<<n, b>>}} = {px(p) : p \in Q(n - 1)} \cup {px(<<n, b>>)}
  OBVIOUS
<1>4. px(<<n, b>>) = Pixel(S.kind, n, S.v + (S.step * b))
  OBVIOUS
<1> QED
  BY <1>1, <1>2, <1>3, <1>4


LEMMA AlongStarts ==
  ASSUME NEW S, Proper(S)
  PROVE  Along(S, S, {})
<1>1. /\ S \in [kind : {S.kind}, u : Int, v : Int, last : {S.last}, du : {S.du}, dv : {S.dv},
                step : {S.step}, D : Int]
      /\ S.u \in Int /\ S.v \in Int /\ S.du \in Nat /\ S.dv \in Nat /\ S.step \in Int
      /\ S.last = S.u + S.du /\ S.D = (2 * S.dv) - S.du
  BY DEF Proper, Running
<1>2. S.u .. S.u - 1 = {} /\ S.u \in S.u .. S.last + 1
  BY <1>1
<1>3. Track(S, S.u - 1) = {}
  BY <1>2 DEF Track
<1>4. Off(S, S.u, 0) = 0 /\ S.step * 0 = 0
  BY <1>1, OffMoves
<1>5. On(S, S.u, 0)
  BY <1>1, <1>4 DEF On
<1>6. S.v = S.v + (S.step * 0) /\ S.D = (2 * (Off(S, S.u, 0) + S.dv)) - S.du
  BY <1>1, <1>4
<1> QED
  BY <1>1, <1>2, <1>3, <1>5, <1>6 DEF Along

\* The end of the line is not passed in v.
LEMMA NotTooFar ==
  ASSUME NEW S, Proper(S), NEW t \in S.u .. S.last, NEW b \in Nat, On(S, t, b)
  PROVE  b \in 0 .. S.dv
<1>1. S.du \in Nat /\ S.dv \in 0 .. S.du /\ t - S.u \in 0 .. S.du /\ S.u \in Int /\ t \in Int
  BY DEF Proper, Running
<1>2. Off(S, t, S.dv) <= 0 /\ Off(S, t, S.dv) \in Int
  <2>1. S.dv * (t - S.u) <= S.dv * S.du
    BY <1>1, TimesMono
  <2>2. (t - S.u) * S.dv = S.dv * (t - S.u) /\ S.dv * (t - S.u) \in Int /\ S.dv * S.du \in Int
    BY <1>1
  <2> QED
    BY <2>1, <2>2 DEF Off
<1>3. S.dv < b => Off(S, t, b) + S.du <= Off(S, t, S.dv)
  BY <1>1, OffOrder
<1>4. Off(S, t, b) \in Int
  BY <1>1, OffMoves
<1> QED
  BY <1>1, <1>2, <1>3, <1>4 DEF On

\* One step along u keeps the distance below half a cell.
LEMMA Rounds ==
  ASSUME NEW S, Proper(S), NEW t \in S.u .. S.last, NEW b \in Nat, On(S, t, b),
         NEW D \in Int, D = (2 * (Off(S, t, b) + S.dv)) - S.du
  PROVE  LET c == IF D > 0 THEN b + 1 ELSE b
         IN  /\ On(S, t + 1, c) /\ c \in Nat
             /\ D + (2 * S.dv) - (IF D > 0 THEN 2 * S.du ELSE 0)
                  = (2 * (Off(S, t + 1, c) + S.dv)) - S.du
<1>1. /\ S.du \in Nat /\ S.dv \in 0 .. S.du /\ t \in Int /\ b \in Int
  BY DEF Proper, Running
<1>2. /\ Off(S, t, b) \in Int
      /\ Off(S, t + 1, b) = Off(S, t, b) + S.dv
      /\ Off(S, t + 1, b + 1) = Off(S, t, b) + S.dv - S.du
  BY <1>1, OffMoves
<1>3. CASE S.du = 0
  <2>1. S.dv = 0 /\ b = 0
    BY <1>1, <1>3 DEF On
  <2>2. Off(S, t, b) = 0
    BY <1>1, <1>3, <2>1 DEF Off, Proper, Running
  <2> QED
    BY <1>1, <1>2, <1>3, <2>1, <2>2 DEF On
<1>4. CASE S.du # 0
  BY <1>1, <1>2, <1>4 DEF On
<1> QED
  BY <1>3, <1>4

LEMMA AlongTurns ==
  ASSUME NEW S, Proper(S), Along(S, line, painted), LineTurn
  PROVE  Along(S, line', painted')
<1> DEFINE t == line.u
           d == S.du
           h == S.dv
<1>1. /\ line \in Running /\ line.kind = S.kind /\ line.last = S.last
      /\ line.du = d /\ line.dv = h /\ line.step = S.step
  BY DEF Along, Proper, Running
<1>2. /\ t <= S.last /\ painted' = painted \cup {Pixel(S.kind, t, line.v)}
      /\ line' = [kind |-> S.kind, u |-> t + 1,
                  v |-> IF line.D > 0 THEN line.v + S.step ELSE line.v,
                  last |-> S.last, du |-> d, dv |-> h, step |-> S.step,
                  D |-> line.D + (2 * h) - (IF line.D > 0 THEN 2 * d ELSE 0)]
  BY <1>1, LineTurns
<1>3. /\ d \in Nat /\ h \in 0 .. d /\ S.u \in Int /\ t \in S.u .. S.last /\ t \in Int
      /\ S.v \in Int /\ S.step \in Int /\ line.D \in Int /\ line.v \in Int /\ S.last \in Int
  BY <1>2 DEF Along, Proper, Running
<1>4. PICK b \in Nat : /\ On(S, t, b) /\ line.v = S.v + (S.step * b)
                       /\ line.D = (2 * (Off(S, t, b) + h)) - d
  BY DEF Along
<1>5. b \in 0 .. h
  BY <1>3, <1>4, NotTooFar
<1>6. painted' = Track(S, t)
  <2>1. painted = Track(S, t - 1)
    BY DEF Along
  <2> QED
    BY <1>2, <1>3, <1>4, <1>5, <2>1, TrackGrows
<1>7. \A i \in S.u .. t : \E c \in 0 .. h : On(S, i, c)
  <2>1. \A i \in S.u .. t - 1 : \E c \in 0 .. h : On(S, i, c)
    BY DEF Along
  <2>2. \A i \in S.u .. t : i \in S.u .. t - 1 \/ i = t
    BY <1>3
  <2> QED
    BY <1>4, <1>5, <2>1, <2>2
<1> DEFINE c == IF line.D > 0 THEN b + 1 ELSE b
<1>10. /\ c \in Nat /\ line'.v = S.v + (S.step * c)
       /\ line'.D = (2 * (Off(S, line'.u, c) + h)) - d
       /\ On(S, line'.u, c)
  <2>1. line'.u = t + 1 /\ line'.D = line.D + (2 * h) - (IF line.D > 0 THEN 2 * d ELSE 0)
    BY <1>2
  <2>2. /\ On(S, t + 1, c) /\ c \in Nat
        /\ line.D + (2 * h) - (IF line.D > 0 THEN 2 * d ELSE 0) = (2 * (Off(S, t + 1, c) + h)) - d
    BY <1>3, <1>4, Rounds
  <2>3. line'.v = S.v + (S.step * c)
    <3>1. b \in Int /\ S.step \in Int
      BY <1>3, <1>4
    <3>2. S.step * (b + 1) = (S.step * b) + S.step /\ S.step * b \in Int
      BY <3>1, Distribute
    <3> QED
      BY <1>2, <1>3, <1>4, <3>1, <3>2
  <2> HIDE DEF c
  <2> QED
    BY <2>1, <2>2, <2>3
<1>11. /\ line' \in [kind : {S.kind}, u : Int, v : Int, last : {S.last}, du : {S.du}, dv : {S.dv},
                      step : {S.step}, D : Int]
       /\ line'.u = t + 1 /\ t + 1 \in S.u .. S.last + 1 /\ t + 1 - 1 = t
  BY <1>2, <1>3
<1> HIDE DEF c
<1> QED
  BY <1>6, <1>7, <1>10, <1>11 DEF Along


-----------------------------------------------------------------------------
(***************************************************************************)
(* The track of a slope is a straight line from its one end to the other.  *)
(***************************************************************************)
Sloping(kind, u0, v0, u1, v1) ==
  /\ kind \in {"low", "high"} /\ u0 \in Int /\ v0 \in Int /\ u1 \in Int /\ v1 \in Int
  /\ iabs(v1 - v0) <= u1 - u0

LEMMA SlopeProper ==
  ASSUME NEW kind, NEW u0, NEW v0, NEW u1, NEW v1, Sloping(kind, u0, v0, u1, v1)
  PROVE  LET S == Slope(kind, u0, v0, u1, v1)
         IN  /\ Proper(S) /\ S.kind = kind /\ S.u = u0 /\ S.v = v0 /\ S.last = u1 /\ S.du = u1 - u0
             /\ \/ S.step = 1 /\ v1 = v0 + S.dv
                \/ S.step = -1 /\ v1 = v0 - S.dv
BY DEF Slope, Proper, Running, Sloping, iabs

LEMMA TrackEnds ==
  ASSUME NEW kind, NEW u0, NEW v0, NEW u1, NEW v1, Sloping(kind, u0, v0, u1, v1)
  PROVE  LET T == Track(Slope(kind, u0, v0, u1, v1), u1)
         IN  Pixel(kind, u0, v0) \in T /\ Pixel(kind, u1, v1) \in T
<1> DEFINE S == Slope(kind, u0, v0, u1, v1)
<1>1. /\ Proper(S) /\ S.kind = kind /\ S.u = u0 /\ S.v = v0 /\ S.last = u1 /\ S.du = u1 - u0
      /\ (S.step = 1 /\ v1 = v0 + S.dv) \/ (S.step = -1 /\ v1 = v0 - S.dv)
  BY SlopeProper
<1> HIDE DEF S
<1>2. /\ S.du \in Nat /\ S.dv \in 0 .. S.du /\ u0 \in u0 .. u1 /\ u1 \in u0 .. u1
      /\ u0 \in Int /\ u1 \in Int /\ v0 \in Int /\ v1 \in Int
  BY <1>1 DEF Proper, Running, Sloping
<1>3. ASSUME NEW t \in u0 .. u1, NEW b \in 0 .. S.dv, On(S, t, b)
      PROVE  Pixel(kind, t, v0 + (S.step * b)) \in Track(S, u1)
  <2>1. <<t, b>> \in {p \in (S.u .. u1) \X (0 .. S.dv) : On(S, p[1], p[2])}
    BY <1>1, <1>3
  <2>2. Pixel(S.kind, <<t, b>>[1], S.v + (S.step * <<t, b>>[2])) \in Track(S, u1)
    BY <2>1, Zenon DEF Track
  <2> QED
    BY <1>1, <2>2
<1>4. On(S, u0, 0) /\ v0 = v0 + (S.step * 0)
  <2>1. Off(S, u0, 0) = 0
    BY <1>1, <1>2, OffMoves
  <2> QED
    BY <1>1, <1>2, <2>1 DEF On
<1>5. On(S, u1, S.dv) /\ v1 = v0 + (S.step * S.dv)
  <2>1. Off(S, u1, S.dv) = 0
    BY <1>1, <1>2 DEF Off
  <2> QED
    BY <1>1, <1>2, <2>1 DEF On
<1>6. Pixel(kind, u0, v0) \in Track(S, u1)
  BY <1>2, <1>3, <1>4
<1>7. Pixel(kind, u1, v1) \in Track(S, u1)
  BY <1>2, <1>3, <1>5
<1> QED
  BY <1>6, <1>7 DEF S

LEMMA TrackNear ==
  ASSUME NEW kind, NEW u0, NEW v0, NEW u1, NEW v1, Sloping(kind, u0, v0, u1, v1),
         NEW c \in Track(Slope(kind, u0, v0, u1, v1), u1)
  PROVE  \E t \in u0 .. u1, v \in Between(v0, v1) :
           /\ c = Pixel(kind, t, v)
           /\ 2 * iabs(((t - u0) * (v1 - v0)) - ((v - v0) * (u1 - u0))) <= u1 - u0
<1> DEFINE S == Slope(kind, u0, v0, u1, v1)
<1>1. /\ Proper(S) /\ S.kind = kind /\ S.u = u0 /\ S.v = v0 /\ S.last = u1 /\ S.du = u1 - u0
      /\ (S.step = 1 /\ v1 = v0 + S.dv) \/ (S.step = -1 /\ v1 = v0 - S.dv)
  BY SlopeProper
<1> HIDE DEF S
<1>2. PICK p \in (S.u .. u1) \X (0 .. S.dv) :
        On(S, p[1], p[2]) /\ c = Pixel(S.kind, p[1], S.v + (S.step * p[2]))
  BY DEF Track, S
<1>3. PICK t \in u0 .. u1, b \in 0 .. S.dv : On(S, t, b) /\ c = Pixel(kind, t, v0 + (S.step * b))
  BY <1>1, <1>2
<1>4. /\ u0 \in Int /\ v0 \in Int /\ u1 \in Int /\ v1 \in Int /\ S.du \in Nat /\ S.dv \in 0 .. S.du
      /\ S.dv \in Int /\ b \in Int /\ t \in Int
  BY <1>1 DEF Proper, Running, Sloping
<1> DEFINE v == v0 + (S.step * b)
           e == Off(S, t, b)
<1>5. e \in Int /\ 2 * e <= S.du /\ -S.du <= 2 * e
  <2>1. e \in Int
    BY <1>1, <1>4, OffMoves
  <2>2. CASE S.du = 0
    <3>1. S.dv = 0 /\ b = 0 /\ t - S.u = 0
      BY <1>1, <1>3, <1>4, <2>2
    <3>2. e = 0
      BY <2>2, <3>1 DEF Off
    <3> QED
      BY <2>2, <3>2
  <2>3. CASE S.du # 0
    <3> HIDE DEF e
    <3> QED BY <1>3, <1>4, <2>1, <2>3 DEF On, e
  <2> QED
    BY <2>2, <2>3
<1>6. e = ((t - u0) * S.dv) - (b * (u1 - u0))
  BY <1>1 DEF Off
<1>7. CASE S.step = 1 /\ v1 = v0 + S.dv
  <2>1. v = v0 + b /\ v \in Between(v0, v1) /\ v - v0 = b /\ v1 - v0 = S.dv
    BY <1>4, <1>7 DEF Between
  <2>2. ((t - u0) * (v1 - v0)) - ((v - v0) * (u1 - u0)) = e
    BY <1>6, <2>1
  <2>3. 2 * iabs(((t - u0) * (v1 - v0)) - ((v - v0) * (u1 - u0))) <= u1 - u0
    <3> HIDE DEF e, v
    <3> QED BY <1>1, <1>4, <1>5, <2>2 DEF iabs
  <2> QED
    BY <1>3, <2>1, <2>3
<1>8. CASE S.step = -1 /\ v1 = v0 - S.dv
  <2>1. v = v0 - b /\ v \in Between(v0, v1) /\ v - v0 = -b /\ v1 - v0 = -S.dv
    BY <1>4, <1>8 DEF Between
  <2>2. ((t - u0) * (v1 - v0)) - ((v - v0) * (u1 - u0)) = -e
    <3>1. (t - u0) * (-S.dv) = -((t - u0) * S.dv) /\ (-b) * (u1 - u0) = -(b * (u1 - u0))
      BY <1>4
    <3>2. (t - u0) * S.dv \in Int /\ b * (u1 - u0) \in Int
      BY <1>4
    <3>3. ((t - u0) * (v1 - v0)) - ((v - v0) * (u1 - u0))
            = ((t - u0) * (-S.dv)) - ((-b) * (u1 - u0))
      BY <2>1
    <3> HIDE DEF e, v
    <3> QED
      BY <1>6, <3>1, <3>2, <3>3
  <2>3. 2 * iabs(((t - u0) * (v1 - v0)) - ((v - v0) * (u1 - u0))) <= u1 - u0
    <3> HIDE DEF e, v
    <3> QED BY <1>1, <1>4, <1>5, <2>2 DEF iabs
  <2> QED
    BY <1>3, <2>1, <2>3
<1> QED
  BY <1>1, <1>7, <1>8


\* Every step along u has a cell of the track, and not two.
LEMMA TrackOne ==
  ASSUME NEW kind, NEW u0, NEW v0, NEW u1, NEW v1, Sloping(kind, u0, v0, u1, v1),
         Gapless(Slope(kind, u0, v0, u1, v1)), NEW t \in u0 .. u1
  PROVE  LET T == Track(Slope(kind, u0, v0, u1, v1), u1)
             axis == IF kind = "low" THEN 1 ELSE 2
         IN  Cardinality({c \in T : c[axis] = t}) = 1
<1> DEFINE S == Slope(kind, u0, v0, u1, v1)
           T == Track(S, u1)
           axis == IF kind = "low" THEN 1 ELSE 2
<1>1. /\ Proper(S) /\ S.kind = kind /\ S.u = u0 /\ S.v = v0 /\ S.last = u1
  BY SlopeProper
<1>2. u0 \in Int /\ u1 \in Int /\ kind \in {"low", "high"}
  BY DEF Sloping
<1> HIDE DEF S
<1>3. PICK b \in 0 .. S.dv : On(S, t, b)
  BY <1>1 DEF Gapless, S
<1> DEFINE e == Pixel(kind, t, v0 + (S.step * b))
<1>4. e \in T /\ e[axis] = t
  <2>1. <<t, b>> \in {p \in (S.u .. u1) \X (0 .. S.dv) : On(S, p[1], p[2])}
    BY <1>1, <1>3
  <2>2. Pixel(S.kind, <<t, b>>[1], S.v + (S.step * <<t, b>>[2])) \in T
    BY <2>1, Zenon DEF Track
  <2>3. e[axis] = t
    BY <1>2 DEF Pixel
  <2> QED
    BY <1>1, <2>2, <2>3
<1>5. ASSUME NEW c \in T, c[axis] = t
      PROVE  c = e
  <2>1. PICK p \in (S.u .. u1) \X (0 .. S.dv) :
          On(S, p[1], p[2]) /\ c = Pixel(S.kind, p[1], S.v + (S.step * p[2]))
    BY DEF Track
  <2>2. p[1] = t
    BY <1>1, <1>2, <1>5, <2>1 DEF Pixel
  <2>3. p[2] = b
    BY <1>1, <1>2, <1>3, <2>1, <2>2, OneHeight
  <2> QED
    BY <1>1, <2>1, <2>2, <2>3
<1>6. {c \in T : c[axis] = t} = {e}
  <2> HIDE DEF T, e, axis
  <2> QED BY <1>4, <1>5
<1>7. Cardinality({e}) = 1
  BY FS_Singleton
<1> HIDE DEF T, e, axis
<1>8. Cardinality({c \in T : c[axis] = t}) = 1
  BY <1>6, <1>7
<1> QED
  BY <1>8 DEF T, axis, S

LEMMA BackAndForth ==
  ASSUME NEW p \in Int \X Int, NEW q \in Int \X Int, NEW cells \in SUBSET (Int \X Int), Straight(p, q, cells)
  PROVE  Straight(q, p, cells)
<1>1. PICK a \in Int, b \in Int, c \in Int, d \in Int : p = <<a, b>> /\ q = <<c, d>>
  OBVIOUS
<1>2. /\ Between(a, c) = Between(c, a) /\ Between(b, d) = Between(d, b)
      /\ iabs(a - c) = iabs(c - a) /\ iabs(b - d) = iabs(d - b)
  BY DEF Between, iabs
<1>3. ASSUME NEW x \in Int, NEW y \in Int
      PROVE  iabs(((x - a) * (d - b)) - ((y - b) * (c - a))) = iabs(((x - c) * (b - d)) - ((y - d) * (a - c)))
  <2>1. ((x - c) * (b - d)) - ((y - d) * (a - c)) = -(((x - a) * (d - b)) - ((y - b) * (c - a)))
    OBVIOUS
  <2>2. ((x - a) * (d - b)) - ((y - b) * (c - a)) \in Int
    OBVIOUS
  <2> DEFINE m == ((x - a) * (d - b)) - ((y - b) * (c - a))
             n == ((x - c) * (b - d)) - ((y - d) * (a - c))
  <2>3. m \in Int /\ n = -m
    BY <2>1, <2>2
  <2> HIDE DEF m, n
  <2>4. iabs(m) = iabs(n)
    BY <2>3 DEF iabs
  <2> QED
    BY <2>4 DEF m, n
<1>4. ASSUME NEW e \in cells, Near(p, q, e)
      PROVE  Near(q, p, e)
  <2>1. PICK x \in Int, y \in Int : e = <<x, y>>
    OBVIOUS
  <2> QED
    BY <1>1, <1>2, <1>3, <1>4, <2>1 DEF Near
<1> QED
  BY <1>1, <1>2, <1>4 DEF Straight


LEMMA SlopeStraight ==
  ASSUME NEW kind, NEW u0, NEW v0, NEW u1, NEW v1, Sloping(kind, u0, v0, u1, v1),
         kind = "low" => iabs(v1 - v0) < u1 - u0,
         Gapless(Slope(kind, u0, v0, u1, v1))
  PROVE  LET T == Track(Slope(kind, u0, v0, u1, v1), u1)
         IN  T \subseteq Int \X Int /\ Straight(Pixel(kind, u0, v0), Pixel(kind, u1, v1), T)
<1> DEFINE T == Track(Slope(kind, u0, v0, u1, v1), u1)
<1>1. /\ u0 \in Int /\ v0 \in Int /\ u1 \in Int /\ v1 \in Int /\ iabs(v1 - v0) <= u1 - u0
      /\ kind \in {"low", "high"}
  BY DEF Sloping
<1>2. Pixel(kind, u0, v0) \in T /\ Pixel(kind, u1, v1) \in T
  BY TrackEnds
<1>3. \A c \in T : \E t \in u0 .. u1, v \in Between(v0, v1) :
        /\ c = Pixel(kind, t, v)
        /\ 2 * iabs(((t - u0) * (v1 - v0)) - ((v - v0) * (u1 - u0))) <= u1 - u0
  BY TrackNear
<1>4. \A t \in u0 .. u1 : Cardinality({c \in T : c[IF kind = "low" THEN 1 ELSE 2] = t}) = 1
  BY TrackOne
<1>5. u0 <= u1 /\ Between(u0, u1) = u0 .. u1 /\ iabs(u1 - u0) = u1 - u0 /\ Between(v0, v1) \subseteq Int
  BY <1>1 DEF iabs, Between
<1> HIDE DEF T
<1>6. T \subseteq Int \X Int
  BY <1>1, <1>3, <1>5 DEF Pixel
<1>7. CASE kind = "low"
  <2>1. ASSUME NEW c \in T
        PROVE  /\ c \in Between(u0, u1) \X Between(v0, v1)
               /\ Near(<<u0, v0>>, <<u1, v1>>, c)
    <3>1. PICK t \in u0 .. u1, v \in Between(v0, v1) :
            /\ c = <<t, v>>
            /\ 2 * iabs(((t - u0) * (v1 - v0)) - ((v - v0) * (u1 - u0))) <= u1 - u0
      BY <1>3, <1>7 DEF Pixel
    <3>2. c[1] = t /\ c[2] = v
      BY <3>1
    <3> QED
      BY <1>5, <1>7, <3>1, <3>2 DEF Near
  <2>2. iabs(u1 - u0) > iabs(v1 - v0)
    BY <1>1, <1>5, <1>7 DEF iabs
  <2>3. Straight(<<u0, v0>>, <<u1, v1>>, T)
    BY <1>2, <1>4, <1>5, <1>7, <2>1, <2>2 DEF Straight, Pixel
  <2> QED
    BY <1>6, <1>7, <2>3 DEF Pixel, T
<1>8. CASE kind = "high"
  <2>1. ASSUME NEW c \in T
        PROVE  /\ c \in Between(v0, v1) \X Between(u0, u1)
               /\ Near(<<v0, u0>>, <<v1, u1>>, c)
    <3>1. PICK t \in u0 .. u1, v \in Between(v0, v1) :
            /\ c = <<v, t>>
            /\ 2 * iabs(((t - u0) * (v1 - v0)) - ((v - v0) * (u1 - u0))) <= u1 - u0
      BY <1>3, <1>8 DEF Pixel
    <3>2. c[1] = v /\ c[2] = t /\ v \in Int /\ t \in Int
      BY <1>1, <1>5, <3>1
    <3> DEFINE m == ((t - u0) * (v1 - v0)) - ((v - v0) * (u1 - u0))
               n == ((v - v0) * (u1 - u0)) - ((t - u0) * (v1 - v0))
    <3>3. m \in Int /\ n = -m
      BY <1>1, <3>2
    <3>4. 2 * iabs(m) <= u1 - u0
      BY <3>1
    <3> HIDE DEF m, n
    <3>5. 2 * iabs(n) <= u1 - u0
      BY <1>1, <3>3, <3>4 DEF iabs
    <3>6. ~(iabs(v1 - v0) > iabs(u1 - u0))
      BY <1>1, <1>5 DEF iabs
    <3>7. Near(<<v0, u0>>, <<v1, u1>>, c)
      BY <1>5, <3>2, <3>5, <3>6 DEF Near, n
    <3> QED
      BY <1>5, <3>1, <3>7
  <2>2. ~(iabs(v1 - v0) > iabs(u1 - u0))
    BY <1>1, <1>5 DEF iabs
  <2>3. Straight(<<v0, u0>>, <<v1, u1>>, T)
    BY <1>2, <1>4, <1>5, <1>8, <2>1, <2>2 DEF Straight, Pixel
  <2> QED
    BY <1>6, <1>8, <2>3 DEF Pixel, T
<1> QED
  BY <1>1, <1>7, <1>8


LEMMA LineStraight ==
  ASSUME NEW x0 \in Int, NEW y0 \in Int, NEW x1 \in Int, NEW y1 \in Int
  PROVE  LET S == Line(<<x0, y0, x1, y1>>)
         IN  Proper(S) /\ (Gapless(S) => Straight(<<x0, y0>>, <<x1, y1>>, Track(S, S.last)))
<1> DEFINE S == Line(<<x0, y0, x1, y1>>)
<1>1. ASSUME NEW kind, NEW u0, NEW v0, NEW u1, NEW v1, Sloping(kind, u0, v0, u1, v1),
             kind = "low" => iabs(v1 - v0) < u1 - u0, S = Slope(kind, u0, v0, u1, v1),
             \/ Pixel(kind, u0, v0) = <<x0, y0>> /\ Pixel(kind, u1, v1) = <<x1, y1>>
             \/ Pixel(kind, u0, v0) = <<x1, y1>> /\ Pixel(kind, u1, v1) = <<x0, y0>>
      PROVE  Proper(S) /\ (Gapless(S) => Straight(<<x0, y0>>, <<x1, y1>>, Track(S, S.last)))
  <2>1. Proper(S) /\ S.last = u1
    BY <1>1, SlopeProper
  <2> HIDE DEF S
  <2>2. ASSUME Gapless(S)
        PROVE  Straight(<<x0, y0>>, <<x1, y1>>, Track(S, S.last))
    <3>1. /\ Track(S, u1) \subseteq Int \X Int
          /\ Straight(Pixel(kind, u0, v0), Pixel(kind, u1, v1), Track(S, u1))
      BY <1>1, <2>2, SlopeStraight
    <3>2. <<x0, y0>> \in Int \X Int /\ <<x1, y1>> \in Int \X Int
      OBVIOUS
    <3> QED
      BY <1>1, <2>1, <3>1, <3>2, BackAndForth
  <2> QED
    BY <2>1, <2>2
<1>2. iabs(y1 - y0) = iabs(y0 - y1) /\ iabs(x1 - x0) = iabs(x0 - x1)
      /\ iabs(y1 - y0) \in Nat /\ iabs(x1 - x0) \in Nat
  BY DEF iabs
<1>3. CASE iabs(y1 - y0) < iabs(x1 - x0) /\ x0 > x1
  <2>1. S = Slope("low", x1, y1, x0, y0)
    BY <1>3 DEF Line
  <2>2. iabs(y0 - y1) < x0 - x1
    BY <1>2, <1>3 DEF iabs
  <2>3. Sloping("low", x1, y1, x0, y0)
    BY <1>2, <2>2 DEF Sloping
  <2> QED
    BY <1>1, <2>1, <2>2, <2>3 DEF Pixel
<1>4. CASE iabs(y1 - y0) < iabs(x1 - x0) /\ ~(x0 > x1)
  <2>1. S = Slope("low", x0, y0, x1, y1)
    BY <1>4 DEF Line
  <2>2. iabs(y1 - y0) < x1 - x0
    BY <1>2, <1>4 DEF iabs
  <2>3. Sloping("low", x0, y0, x1, y1)
    BY <1>2, <2>2 DEF Sloping
  <2> QED
    BY <1>1, <2>1, <2>2, <2>3 DEF Pixel
<1>5. CASE ~(iabs(y1 - y0) < iabs(x1 - x0)) /\ y0 > y1
  <2>1. S = Slope("high", y1, x1, y0, x0)
    BY <1>5 DEF Line
  <2>2. iabs(x0 - x1) <= y0 - y1
    BY <1>2, <1>5 DEF iabs
  <2>3. Sloping("high", y1, x1, y0, x0)
    BY <1>2, <2>2 DEF Sloping
  <2> QED
    BY <1>1, <2>1, <2>3 DEF Pixel
<1>6. CASE ~(iabs(y1 - y0) < iabs(x1 - x0)) /\ ~(y0 > y1)
  <2>1. S = Slope("high", y0, x0, y1, x1)
    BY <1>6 DEF Line
  <2>2. iabs(x1 - x0) <= y1 - y0
    BY <1>2, <1>6 DEF iabs
  <2>3. Sloping("high", y0, x0, y1, x1)
    BY <1>2, <2>2 DEF Sloping
  <2> QED
    BY <1>1, <2>1, <2>3 DEF Pixel
<1> QED
  BY <1>3, <1>4, <1>5, <1>6


LEMMA LiningNext ==
  ASSUME Quiet, Lining, [Next]_vars, call'.op = "drawLine"
  PROVE  Lining'
<1>1. CASE UNCHANGED vars
  <2>1. UNCHANGED <<call, lines, line, painted>>
    BY <1>1 DEF vars, loops, panel
  <2>2. Ends' = Ends
    BY <2>1 DEF Ends
  <2> QED
    BY <2>1, <2>2 DEF Lining
<1>2. CASE drawLine
  <2>1. lines' = <<Ends'>> /\ painted' = {} /\ line' = line
    BY <1>2 DEF drawLine, Ends
  <2>2. line = None
    BY <1>2 DEF drawLine, Begins, Quiet, Drawn
  <2> QED
    BY <2>1, <2>2 DEF Lining
<1>3. ASSUME call.op = "drawLine", NextLine \/ LineTurn \/ LineEnds
      PROVE  Lining'
  <2> DEFINE S == Line(Ends)
  <2>1. call' = call /\ S' = S /\ Ends' = Ends
    BY <1>3 DEF NextLine, LineTurn, LineEnds, Ends
  <2>2. Proper(S)
    <3>1. call.x0 \in Int /\ call.y0 \in Int /\ call.x1 \in Int /\ call.y1 \in Int
      BY <1>3, CallFacts DEF Quiet, Served
    <3> QED
      BY <3>1, LineStraight, Zenon DEF Ends
  <2>3. ASSUME NextLine
        PROVE  lines' = <<>> /\ line' = S /\ painted = {} /\ painted' = painted
    <3>1. line = None /\ lines # <<>> /\ line' = Line(Head(lines)) /\ lines' = Tail(lines)
          /\ painted' = painted
      BY <2>3 DEF NextLine, panel
    <3>2. lines = <<Ends>> /\ painted = {}
      BY <1>3, <3>1 DEF Lining
    <3>3. Head(<<Ends>>) = Ends /\ Tail(<<Ends>>) = <<>>
      OBVIOUS
    <3> QED
      BY <3>1, <3>2, <3>3, Zenon
  <2>4. ASSUME LineTurn
        PROVE  lines = <<>> /\ lines' = lines /\ Along(S, line, painted)
    BY <1>3, <2>4 DEF Lining, LineTurn
  <2>5. ASSUME LineEnds
        PROVE  /\ lines = <<>> /\ lines' = lines /\ Along(S, line, painted) /\ line.u > S.last
               /\ line' = None /\ painted' = painted
    <3>1. lines = <<>> /\ Along(S, line, painted)
      BY <1>3, <2>5 DEF Lining, LineEnds
    <3>2. line.last = S.last
      BY <3>1 DEF Along
    <3> QED
      BY <2>5, <3>1, <3>2 DEF LineEnds, panel
  <2> HIDE DEF S
  <2>6. CASE NextLine
    <3>1. Along(S, line', painted') /\ lines' = <<>>
      BY <2>2, <2>3, <2>6, AlongStarts
    <3>2. line' # None
      BY <2>2, <2>3, <2>6 DEF Proper, Running, None
    <3> QED
      BY <2>1, <3>1, <3>2 DEF Lining, S
  <2>7. CASE LineTurn
    <3>1. Along(S, line', painted') /\ lines' = <<>>
      BY <2>2, <2>4, <2>7, AlongTurns
    <3>2. line'.kind = S.kind /\ S.kind \in {"low", "high"}
      BY <2>2, <3>1 DEF Along, Proper, Running
    <3>3. line' # None
      BY <3>2 DEF None
    <3> QED
      BY <2>1, <3>1, <3>3 DEF Lining, S
  <2>8. CASE LineEnds
    <3>0. S.last \in Int /\ S.u \in Int
      BY <2>2 DEF Proper, Running
    <3>1. line.u \in S.u .. S.last + 1 /\ line.u > S.last /\ painted = Track(S, line.u - 1)
          /\ \A t \in S.u .. line.u - 1 : \E b \in 0 .. S.dv : On(S, t, b)
      BY <2>5, <2>8 DEF Along
    <3>2. line.u - 1 = S.last
      BY <3>0, <3>1
    <3>3. painted' = Track(S, S.last) /\ Gapless(S)
      BY <2>5, <2>8, <3>1, <3>2 DEF Gapless
    <3> QED
      BY <2>1, <2>5, <2>8, <3>3 DEF Lining, S
  <2> QED
    BY <1>3, <2>6, <2>7, <2>8
<1> QED
  BY ActionsOf, <1>1, <1>2, <1>3
-----------------------------------------------------------------------------
(***************************************************************************)
(* Lines along an axis, as the sides of a rectangle and the rows of a disc *)
(* are: what is painted and what is still to come are together the whole.  *)
(***************************************************************************)
Cells(l) == (l[1] .. l[3]) \X (l[2] .. l[4])

Axial(l) ==
  /\ l = <<l[1], l[2], l[3], l[4]>> /\ l[1] \in Int /\ l[2] \in Int /\ l[3] \in Int /\ l[4] \in Int
  /\ l[1] <= l[3] /\ l[2] <= l[4] /\ (l[1] = l[3] \/ l[2] = l[4])

Level == [kind : {"low", "high"}, u : Int, v : Int, last : Int, du : Int, dv : {0}, step : {-1, 1}, D : Int]

Rest(L) == {Pixel(L.kind, t, L.v) : t \in L.u .. L.last}

Queued(ls) == UNION {Cells(ls[k]) : k \in DOMAIN ls}

Unpainted == (IF line = None THEN {} ELSE Rest(line)) \cup Queued(lines)

LevelLines ==
  /\ line = None \/ (line \in Level /\ line.D <= 0)
  /\ lines \in Seq(Int \X Int \X Int \X Int) /\ \A k \in DOMAIN lines : Axial(lines[k])

Outline ==
  ((call.x .. call.x + call.w) \X {call.y, call.y + call.h})
    \cup ({call.x, call.x + call.w} \X (call.y .. call.y + call.h))

Siding ==
  call.op = "drawRectangle" => LevelLines /\ painted \cup Unpainted = Outline


LEMMA LevelStarts ==
  ASSUME NEW l, Axial(l)
  PROVE  Line(l) \in Level /\ Line(l).D <= 0 /\ Rest(Line(l)) = Cells(l)
<1>1. PICK a \in Int, b \in Int, c \in Int, d \in Int :
        l = <<a, b, c, d>> /\ a <= c /\ b <= d /\ (a = c \/ b = d)
  BY DEF Axial
<1> DEFINE L == Line(l)
<1>2. CASE d - b < c - a
  <2>1. b = d /\ a < c
    BY <1>1, <1>2
  <2>2. L = Slope("low", a, b, c, d)
    BY <1>1, <1>2, <2>1 DEF Line, iabs
  <2>3. L = [kind |-> "low", u |-> a, v |-> b, last |-> c, du |-> c - a, dv |-> 0, step |-> 1,
             D |-> 0 - (c - a)]
    BY <2>1, <2>2 DEF Slope, iabs
  <2> HIDE DEF L
  <2>4. Rest(L) = {<<t, b>> : t \in a .. c}
    BY <2>3 DEF Rest, Pixel
  <2>5. Cells(l) = (a .. c) \X {b}
    BY <1>1, <2>1 DEF Cells
  <2>6. Rest(L) = Cells(l)
    BY <2>4, <2>5
  <2> QED
    BY <2>1, <2>3, <2>6 DEF Level, L
<1>3. CASE ~(d - b < c - a)
  <2>1. a = c /\ b <= d
    BY <1>1, <1>3
  <2>2. L = Slope("high", b, a, d, c)
    BY <1>1, <1>3, <2>1 DEF Line, iabs
  <2>3. L = [kind |-> "high", u |-> b, v |-> a, last |-> d, du |-> d - b, dv |-> 0, step |-> 1,
             D |-> 0 - (d - b)]
    BY <2>1, <2>2 DEF Slope, iabs
  <2> HIDE DEF L
  <2>4. Rest(L) = {<<a, t>> : t \in b .. d}
    BY <2>3 DEF Rest, Pixel
  <2>5. Cells(l) = {a} \X (b .. d)
    BY <1>1, <2>1 DEF Cells
  <2>6. Rest(L) = Cells(l)
    BY <2>4, <2>5
  <2> QED
    BY <2>1, <2>3, <2>6 DEF Level, L
<1> QED
  BY <1>2, <1>3

LEMMA LevelTurns ==
  ASSUME line \in Level, line.D <= 0, LineTurn
  PROVE  /\ line' \in Level /\ line'.D <= 0 /\ line' # None
         /\ painted' \cup Rest(line') = painted \cup Rest(line) /\ painted \subseteq painted'
<1>1. line \in Running /\ line.dv = 0 /\ ~(line.D > 0)
  BY DEF Level, Running
<1>2. /\ line.u <= line.last
      /\ painted' = painted \cup {Pixel(line.kind, line.u, line.v)}
      /\ line' = [kind |-> line.kind, u |-> line.u + 1, v |-> line.v,
                  last |-> line.last, du |-> line.du, dv |-> line.dv, step |-> line.step,
                  D |-> line.D + (2 * line.dv) - 0]
  BY <1>1, LineTurns
<1>3. line' \in Level /\ line'.D <= 0
  BY <1>1, <1>2 DEF Level
<1>4. line' # None
  BY <1>3 DEF Level, None
<1>5. line.u .. line.last = {line.u} \cup (line.u + 1 .. line.last)
  BY <1>2 DEF Level
<1>6. Rest(line') = {Pixel(line.kind, t, line.v) : t \in line.u + 1 .. line.last}
  BY <1>2 DEF Rest
<1>7. Rest(line) = {Pixel(line.kind, line.u, line.v)} \cup Rest(line')
  BY <1>5, <1>6 DEF Rest
<1> QED
  BY <1>2, <1>3, <1>4, <1>7

LEMMA QueueHead ==
  ASSUME NEW ls, ls \in Seq(Int \X Int \X Int \X Int), ls # <<>>
  PROVE  Queued(ls) = Cells(Head(ls)) \cup Queued(Tail(ls))
<1>1. /\ Len(ls) \in Nat \ {0} /\ DOMAIN ls = 1 .. Len(ls)
      /\ DOMAIN Tail(ls) = 1 .. Len(ls) - 1 /\ Head(ls) = ls[1]
      /\ \A k \in 1 .. Len(ls) - 1 : Tail(ls)[k] = ls[k + 1]
  OBVIOUS
<1>2. ASSUME NEW c \in Queued(ls) PROVE c \in Cells(Head(ls)) \/ c \in Queued(Tail(ls))
  <2>1. PICK k \in 1 .. Len(ls) : c \in Cells(ls[k])
    BY <1>1 DEF Queued
  <2>2. CASE k = 1
    BY <1>1, <2>1, <2>2
  <2>3. CASE k # 1
    <3>1. k - 1 \in 1 .. Len(ls) - 1 /\ k - 1 + 1 = k
      BY <1>1, <2>3
    <3>2. Tail(ls)[k - 1] = ls[k]
      BY <1>1, <3>1
    <3> QED
      BY <1>1, <2>1, <3>1, <3>2 DEF Queued
  <2> QED
    BY <2>2, <2>3
<1>3. ASSUME NEW c \in Cells(Head(ls)) PROVE c \in Queued(ls)
  <2>1. 1 \in DOMAIN ls
    BY <1>1
  <2> QED
    BY <1>1, <2>1 DEF Queued
<1>4. ASSUME NEW c \in Queued(Tail(ls)) PROVE c \in Queued(ls)
  <2>1. PICK k \in 1 .. Len(ls) - 1 : c \in Cells(Tail(ls)[k])
    BY <1>1 DEF Queued
  <2>2. k + 1 \in DOMAIN ls /\ c \in Cells(ls[k + 1])
    BY <1>1, <2>1
  <2> QED
    BY <2>2 DEF Queued
<1> QED
  BY <1>2, <1>3, <1>4


LEMMA LevelNext ==
  ASSUME LevelLines, NextLine \/ LineTurn \/ LineEnds
  PROVE  /\ LevelLines' /\ (painted \cup Unpainted)' = painted \cup Unpainted
         /\ painted \subseteq painted' /\ UNCHANGED <<call, circle>>
<1>0. UNCHANGED <<call, circle>>
  BY DEF NextLine, LineTurn, LineEnds
<1>1. CASE NextLine
  <2>1. /\ line = None /\ lines # <<>> /\ line' = Line(Head(lines)) /\ lines' = Tail(lines)
        /\ painted' = painted
    BY <1>1 DEF NextLine, panel
  <2>2. Axial(Head(lines)) /\ lines' \in Seq(Int \X Int \X Int \X Int) /\ \A k \in DOMAIN lines' : Axial(lines'[k])
    <3>1. lines \in Seq(Int \X Int \X Int \X Int) /\ \A k \in DOMAIN lines : Axial(lines[k])
      BY DEF LevelLines
    <3>2. /\ Head(lines) = lines[1] /\ 1 \in DOMAIN lines /\ lines' \in Seq(Int \X Int \X Int \X Int)
          /\ \A k \in DOMAIN lines' : k + 1 \in DOMAIN lines /\ lines'[k] = lines[k + 1]
      BY <2>1, <3>1
    <3> QED
      BY <3>1, <3>2
  <2>3. line' \in Level /\ line'.D <= 0 /\ Rest(line') = Cells(Head(lines)) /\ line' # None
    BY <2>1, <2>2, LevelStarts, SMTT(30) DEF Level, None
  <2>4. Queued(lines) = Cells(Head(lines)) \cup Queued(lines')
    BY <2>1, QueueHead DEF LevelLines
  <2>5. LevelLines'
    BY <2>2, <2>3 DEF LevelLines
  <2>6. Unpainted' = Unpainted
    BY <2>1, <2>3, <2>4 DEF Unpainted
  <2> QED
    BY <1>0, <2>1, <2>5, <2>6
<1>2. CASE LineTurn
  <2>1. line # None /\ lines' = lines
    BY <1>2 DEF LineTurn
  <2>2. /\ line' \in Level /\ line'.D <= 0 /\ line' # None
        /\ painted' \cup Rest(line') = painted \cup Rest(line) /\ painted \subseteq painted'
    BY <1>2, <2>1, LevelTurns DEF LevelLines
  <2>3. LevelLines'
    BY <2>1, <2>2 DEF LevelLines
  <2>4. (painted \cup Unpainted)' = painted \cup Unpainted
    BY <2>1, <2>2 DEF Unpainted
  <2> QED
    BY <1>0, <2>2, <2>3, <2>4
<1>3. CASE LineEnds
  <2>1. line # None /\ line.u > line.last /\ line' = None /\ lines' = lines /\ painted' = painted
    BY <1>3 DEF LineEnds, panel
  <2>2. Rest(line) = {}
    BY <2>1 DEF Rest, LevelLines, Level
  <2>3. LevelLines'
    BY <2>1 DEF LevelLines
  <2>4. Unpainted' = Unpainted
    BY <2>1, <2>2 DEF Unpainted
  <2> QED
    BY <1>0, <2>1, <2>3, <2>4
<1> QED
  BY <1>1, <1>2, <1>3

LEMMA SidingNext ==
  ASSUME Quiet, Siding, [Next]_vars, call'.op = "drawRectangle"
  PROVE  Siding'
<1>1. CASE UNCHANGED vars
  <2>1. UNCHANGED <<call, lines, line, painted>>
    BY <1>1 DEF vars, loops, panel
  <2>2. Outline' = Outline /\ Unpainted' = Unpainted
    BY <2>1 DEF Outline, Unpainted
  <2> QED
    BY <2>1, <2>2 DEF Siding, LevelLines
<1>2. CASE drawRectangle
  <2> DEFINE x == call'.x  y == call'.y
             x1 == Coordinate(x + call'.w)  y1 == Coordinate(y + call'.h)
             l1 == <<x, y, x1, y>>
             l2 == <<x, y, x, y1>>
             l3 == <<x1, y, x1, y1>>
             l4 == <<x, y1, x1, y1>>
  <2>1. lines' = <<l1, l2, l3, l4>> /\ painted' = {} /\ line' = line
    BY <1>2 DEF drawRectangle
  <2>2. line = None
    BY <1>2 DEF drawRectangle, Begins, Quiet, Drawn
  <2>3. /\ x \in Nat /\ y \in Nat /\ x1 \in Nat /\ y1 \in Nat /\ x <= x1 /\ y <= y1
        /\ x1 = call'.x + call'.w /\ y1 = call'.y + call'.h
    <3>1. /\ call'.x \in Nat /\ call'.y \in Nat /\ call'.w \in Nat /\ call'.h \in Nat
          /\ call'.x + call'.w < CoordinateSize /\ call'.y + call'.h < CoordinateSize
      BY <1>2, CallFacts DEF drawRectangle, Begins
    <3>2. call'.x + call'.w \in Nat /\ call'.y + call'.h \in Nat
      BY <3>1
    <3>3. x1 = call'.x + call'.w /\ y1 = call'.y + call'.h
      BY <3>1, <3>2, ModSmall, DisplayAssumption DEF Coordinate
    <3> QED
      BY <3>1, <3>3
  <2>4. /\ DOMAIN lines' = {1, 2, 3, 4} /\ lines' \in Seq(Int \X Int \X Int \X Int)
        /\ lines'[1] = l1 /\ lines'[2] = l2 /\ lines'[3] = l3 /\ lines'[4] = l4
    BY <2>1, <2>3
  <2>5. Axial(l1) /\ Axial(l2) /\ Axial(l3) /\ Axial(l4)
    BY <2>3 DEF Axial
  <2>6. LevelLines'
    <3>1. \A k \in DOMAIN lines' : Axial(lines'[k])
      BY <2>4, <2>5
    <3> QED
      BY <2>1, <2>2, <2>4, <3>1 DEF LevelLines
  <2>7. Queued(lines') = Cells(l1) \cup Cells(l2) \cup Cells(l3) \cup Cells(l4)
    <3> HIDE DEF l1, l2, l3, l4
    <3> QED BY <2>4 DEF Queued
  <2>8. /\ Cells(l1) = (x .. x1) \X {y} /\ Cells(l2) = {x} \X (y .. y1)
        /\ Cells(l3) = {x1} \X (y .. y1) /\ Cells(l4) = (x .. x1) \X {y1}
    BY <2>3 DEF Cells
  <2>9. Outline' = ((x .. x1) \X {y, y1}) \cup ({x, x1} \X (y .. y1))
    BY <2>3 DEF Outline
  <2>10. (painted \cup Unpainted)' = Queued(lines')
    BY <2>1, <2>2 DEF Unpainted
  <2> HIDE DEF l1, l2, l3, l4, x, y, x1, y1
  <2>11. Queued(lines') = Outline'
    BY <2>7, <2>8, <2>9
  <2> QED
    BY <2>6, <2>10, <2>11 DEF Siding
<1>3. CASE call.op = "drawRectangle" /\ (NextLine \/ LineTurn \/ LineEnds)
  <2>1. LevelLines /\ painted \cup Unpainted = Outline
    BY <1>3 DEF Siding
  <2>2. LevelLines' /\ (painted \cup Unpainted)' = painted \cup Unpainted /\ call' = call
    BY <1>3, <2>1, LevelNext
  <2>3. Outline' = Outline
    BY <2>2 DEF Outline
  <2> QED
    BY <2>1, <2>2, <2>3 DEF Siding
<1> QED
  BY ActionsOf, <1>1, <1>2, <1>3


-----------------------------------------------------------------------------
(***************************************************************************)
(* drawCircle and fillCircle.  The loop keeps err the distance by which    *)
(* <<x, y>> is outside of the circle, never above 0 while it turns and     *)
(* never further inside than one cell.  y counts upwards from the middle   *)
(* and x downwards from the rim, so when they meet no row is left out.     *)
(***************************************************************************)
Rounding ==
  LET r == call.radius
  IN  /\ ~OffScreen(call)
      /\ circle.y >= 0 /\ circle.x <= r - 1
      /\ circle.dy = (2 * circle.y) + 1 /\ circle.dx = (2 * (r - circle.x)) - 1
      /\ circle.err = Square(circle.x) + Square(circle.y) - Square(r)
      /\ circle.x >= circle.y => circle.err <= 0
      /\ circle.err >= 1 - (2 * r)

\* Rows and columns, counted from the centre, that were passed.
Passed ==
  IF circle = None THEN IF OffScreen(call) THEN {} ELSE 0 .. call.radius - 1
                   ELSE (0 .. circle.y - 1) \cup (circle.x + 1 .. call.radius - 1)

Crossed(k) ==
  /\ \E c \in painted : c[1] = call.x0 + k
  /\ \E c \in painted : c[1] = call.x0 - k
  /\ \E c \in painted : c[2] = call.y0 + k
  /\ \E c \in painted : c[2] = call.y0 - k

Ringing ==
  call.op = "drawCircle" =>
    /\ circle # None => Rounding
    /\ \A c \in painted :
         /\ c \in Screen /\ Distance2(c) <= Square(call.radius)
         /\ Distance2(c) >= Square(call.radius - 1)
    /\ \A k \in Passed : Crossed(k)

\* The cells within r - 1 of the centre, in the rows k above and below it.
Chords(k) ==
  {c \in Screen : c[2] \in {call.y0 + k, call.y0 - k} /\ Distance2(c) <= Square(call.radius - 1)}

Discing ==
  call.op = "fillCircle" =>
    /\ circle # None => Rounding
    /\ LevelLines
    /\ \A c \in painted \cup Unpainted : c \in Screen /\ Distance2(c) <= Square(call.radius)
    /\ \A k \in Passed : Chords(k) \subseteq painted \cup Unpainted


LEMMA Squares ==
  ASSUME NEW a \in Int
  PROVE  /\ Square(a) \in Nat /\ Square(-a) = Square(a)
         /\ Square(a + 1) = Square(a) + (2 * a) + 1
         /\ Square(a - 1) = Square(a) - (2 * a) + 1
<1>1. a * a \in Nat /\ (-a) * (-a) = a * a
  OBVIOUS
<1>2. (a + 1) * (a + 1) = (a * a) + (2 * a) + 1
  OBVIOUS
<1>3. (a - 1) * (a - 1) = (a * a) - (2 * a) + 1
  OBVIOUS
<1> QED
  BY <1>1, <1>2, <1>3 DEF Square

LEMMA SquareGrows ==
  ASSUME NEW a \in Nat, NEW b \in Nat, a <= b
  PROVE  Square(a) <= Square(b)
<1>1. a * a <= a * b /\ b * a <= b * b /\ a * b = b * a
  BY TimesMono
<1>2. a * a \in Nat /\ b * a \in Nat /\ b * b \in Nat
  OBVIOUS
<1> QED
  BY <1>1, <1>2 DEF Square

\* What is smaller squared is smaller.
LEMMA RootGrows ==
  ASSUME NEW a \in Int, NEW b \in Nat, Square(a) <= Square(b)
  PROVE  a \in -b .. b
<1>1. Square(b + 1) = Square(b) + (2 * b) + 1 /\ Square(a) \in Nat /\ Square(b) \in Nat /\ Square(-a) = Square(a)
  BY Squares
<1>2. ASSUME a > b PROVE FALSE
  <2>1. Square(b + 1) <= Square(a)
    BY <1>2, SquareGrows
  <2> QED
    BY <1>1, <2>1
<1>3. ASSUME a < -b PROVE FALSE
  <2>1. Square(b + 1) <= Square(-a)
    BY <1>3, SquareGrows
  <2> QED
    BY <1>1, <2>1
<1> QED
  BY <1>2, <1>3

LEMMA RoundingStarts ==
  ASSUME NEW op, call'.radius \in Nat, ~OffScreen(call)',
         circle' = [kind |-> op, x |-> call'.radius - 1, y |-> 0, dx |-> 1, dy |-> 1,
                    err |-> 1 - (2 * call'.radius)]
  PROVE  Rounding'
<1> DEFINE r == call'.radius
<1>1. Square(r - 1) = Square(r) - (2 * r) + 1 /\ Square(r) \in Nat /\ Square(r - 1) \in Nat
  <2>1. r \in Int /\ r - 1 \in Int
    OBVIOUS
  <2> HIDE DEF r
  <2>2. Square(r - 1) = Square(r) - (2 * r) + 1 /\ Square(r) \in Nat
    BY <2>1, Squares, Zenon
  <2>3. Square(r - 1) \in Nat
    BY <2>1, Squares, Zenon
  <2> QED
    BY <2>2, <2>3
<1>2. Square(0) = 0
  BY DEF Square
<1>3. circle'.err = Square(circle'.x) + Square(circle'.y) - Square(r)
  BY <1>1, <1>2
<1> QED
  BY <1>3 DEF Rounding

LEMMA RoundingTurns ==
  ASSUME NEW op \in {"drawCircle", "fillCircle"}, circle \in Circle(op), Rounding, circle.x >= circle.y,
         call.radius \in Nat, circle' = Turned(circle), call' = call
  PROVE  /\ Rounding' /\ circle' # None
         /\ circle'.y = circle.y + 1 /\ circle'.x \in {circle.x, circle.x - 1}
<1> DEFINE c == circle
           r == call.radius
           up == Grown(c)
<1>1. /\ c.x \in Int /\ c.y \in Int /\ c.dx \in Int /\ c.dy \in Int /\ c.err \in Int /\ c.kind = op
      /\ c.y >= 0 /\ c.x <= r - 1 /\ c.dy = (2 * c.y) + 1 /\ c.dx = (2 * (r - c.x)) - 1
      /\ c.err = Square(c.x) + Square(c.y) - Square(r) /\ c.err <= 0 /\ c.err >= 1 - (2 * r)
  BY DEF Rounding, Circle
<1>2. circle' = IF up.err > 0 THEN Shrunk(up) ELSE up
  BY <1>1, TurnedCases
<1>3. /\ up = [kind |-> op, x |-> c.x, y |-> c.y + 1, dx |-> c.dx, dy |-> c.dy + 2, err |-> c.err + c.dy]
      /\ Shrunk(up) = [kind |-> op, x |-> c.x - 1, y |-> c.y + 1, dx |-> c.dx + 2, dy |-> c.dy + 2,
                       err |-> c.err + c.dy + c.dx + 2 - (2 * r)]
  BY <1>1 DEF Grown, Shrunk
<1>4. /\ Square(c.y + 1) = Square(c.y) + (2 * c.y) + 1
      /\ Square(c.x - 1) = Square(c.x) - (2 * c.x) + 1
      /\ Square(c.x) \in Nat /\ Square(c.y) \in Nat /\ Square(r) \in Nat
  <2>1. r \in Int
    OBVIOUS
  <2>2. Square(c.y + 1) = Square(c.y) + (2 * c.y) + 1 /\ Square(c.y) \in Nat
    BY <1>1, Squares, Zenon
  <2>3. Square(c.x - 1) = Square(c.x) - (2 * c.x) + 1 /\ Square(c.x) \in Nat
    BY <1>1, Squares, Zenon
  <2>4. Square(r) \in Nat
    BY <2>1, Squares, Zenon
  <2> QED
    BY <2>2, <2>3, <2>4
<1>5. ~OffScreen(call)'
  BY DEF Rounding, OffScreen
<1>6. CASE up.err > 0
  <2>1. /\ circle'.kind = op /\ circle'.x = c.x - 1 /\ circle'.y = c.y + 1 /\ circle'.dx = c.dx + 2
        /\ circle'.dy = c.dy + 2 /\ circle'.err = c.err + c.dy + c.dx + 2 - (2 * r)
        /\ c.err + c.dy > 0
    BY <1>2, <1>3, <1>6
  <2>2. circle'.err = Square(circle'.x) + Square(circle'.y) - Square(r)
    BY <1>1, <1>4, <2>1
  <2> QED
    BY <1>1, <1>5, <2>1, <2>2 DEF Rounding, None
<1>7. CASE ~(up.err > 0)
  <2>1. /\ circle'.kind = op /\ circle'.x = c.x /\ circle'.y = c.y + 1 /\ circle'.dx = c.dx
        /\ circle'.dy = c.dy + 2 /\ circle'.err = c.err + c.dy
        /\ c.err + c.dy <= 0
    BY <1>1, <1>2, <1>3, <1>7
  <2>2. circle'.err = Square(circle'.x) + Square(circle'.y) - Square(r)
    BY <1>1, <1>4, <2>1
  <2> QED
    BY <1>1, <1>5, <2>1, <2>2 DEF Rounding, None
<1> QED
  BY <1>6, <1>7


Eight(x0, y0, x, y) ==
  {<<x0 + x, y0 + y>>, <<x0 + y, y0 + x>>, <<x0 - y, y0 + x>>, <<x0 - x, y0 + y>>,
   <<x0 - x, y0 - y>>, <<x0 - y, y0 - x>>, <<x0 + y, y0 - x>>, <<x0 + x, y0 - y>>}

LEMMA EightCells ==
  ASSUME NEW x0 \in Int, NEW y0 \in Int, NEW x \in Int, NEW y \in Int
  PROVE  /\ \A k \in DOMAIN Octants(x0, y0, x, y) : Octants(x0, y0, x, y)[k] \in Int \X Int
         /\ {Octants(x0, y0, x, y)[k] : k \in DOMAIN Octants(x0, y0, x, y)} = Eight(x0, y0, x, y)
<1> DEFINE o == Octants(x0, y0, x, y)
<1>1. DOMAIN o = {1, 2, 3, 4, 5, 6, 7, 8}
  BY DEF Octants
<1>2. /\ o[1] = <<x0 + x, y0 + y>> /\ o[2] = <<x0 + y, y0 + x>>
      /\ o[3] = <<x0 - y, y0 + x>> /\ o[4] = <<x0 - x, y0 + y>>
      /\ o[5] = <<x0 - x, y0 - y>> /\ o[6] = <<x0 - y, y0 - x>>
      /\ o[7] = <<x0 + y, y0 - x>> /\ o[8] = <<x0 + x, y0 - y>>
  BY DEF Octants
<1> HIDE DEF o
<1>3. \A k \in DOMAIN o : o[k] \in Int \X Int
  BY <1>1, <1>2
<1>4. {o[k] : k \in DOMAIN o} = {o[1], o[2], o[3], o[4], o[5], o[6], o[7], o[8]}
  BY <1>1
<1> QED
  BY <1>2, <1>3, <1>4 DEF o, Eight

\* What lies between a circle that is drawn and its centre is on the screen.
LEMMA InsideIsOnScreen ==
  ASSUME call.x0 \in Nat, call.y0 \in Nat, call.radius \in Nat, ~OffScreen(call),
         NEW a \in Int, NEW b \in Int,
         -call.radius < a, a < call.radius, -call.radius < b, b < call.radius
  PROVE  /\ <<call.x0 + a, call.y0 + b>> \in Screen
         /\ Distance2(<<call.x0 + a, call.y0 + b>>) = Square(a) + Square(b)
<1>1. call.x0 + a \in 0 .. SCREEN_WIDTH - 1 /\ call.y0 + b \in 0 .. SCREEN_HEIGHT - 1
  <2>1. SCREEN_WIDTH \in Nat /\ SCREEN_HEIGHT \in Nat
    BY DisplayAssumption
  <2>2. ~(call.radius > call.x0) /\ ~(call.radius > call.y0)
    BY DEF OffScreen
  <2>3. ~(call.x0 + call.radius > SCREEN_WIDTH) /\ ~(call.y0 + call.radius > SCREEN_HEIGHT)
    BY DEF OffScreen
  <2>4. call.x0 + a \in 0 .. SCREEN_WIDTH - 1
    BY <2>1, <2>2, <2>3
  <2>5. call.y0 + b \in 0 .. SCREEN_HEIGHT - 1
    BY <2>1, <2>2, <2>3
  <2> QED
    BY <2>4, <2>5
<1>2. call.x0 + a - call.x0 = a /\ call.y0 + b - call.y0 = b
  OBVIOUS
<1> QED
  BY <1>1, <1>2 DEF Screen, Distance2

LEMMA Signs ==
  ASSUME NEW a \in Int, NEW b \in Int
  PROVE  a - b = a + (-b)
OBVIOUS

LEMMA RingingTurns ==
  ASSUME NEW x0 \in Nat, NEW y0 \in Nat, NEW r \in Nat, NEW x, NEW y,
         x0 = call.x0, y0 = call.y0, r = call.radius, x = circle.x, y = circle.y,
         circle \in Circle("drawCircle"), Ringing, call.op = "drawCircle", RingTurn
  PROVE  Ringing'
<1> DEFINE eight == Eight(x0, y0, x, y)
<1>1. circle # None /\ x >= y /\ circle' = Turned(circle) /\ call' = call
  BY DEF RingTurn, None
<1>2. Rounding
  BY <1>1 DEF Ringing
<1>3. /\ Rounding' /\ circle' # None /\ circle'.y = y + 1 /\ circle'.x \in {x, x - 1}
  BY <1>1, <1>2, RoundingTurns
<1>4. /\ x \in Nat /\ y \in Nat /\ y <= x /\ x < r /\ ~OffScreen(call)
      /\ x0 \in Int /\ y0 \in Int /\ r \in Nat
      /\ circle.err <= 0 /\ circle.err >= 1 - (2 * r) /\ circle.err = Square(x) + Square(y) - Square(r)
  BY <1>1, <1>2 DEF Rounding, Circle
<1>5. painted' = painted \cup eight
  <2> DEFINE o == Octants(x0, y0, x, y)
  <2>1. PutPixels(o)
    BY DEF RingTurn
  <2>2. /\ \A k \in DOMAIN o : o[k] \in Int \X Int
        /\ {o[k] : k \in DOMAIN o} = eight
    <3>1. x0 \in Int /\ y0 \in Int /\ x \in Int /\ y \in Int
      BY <1>4
    <3> QED
      <4>1. \A k \in DOMAIN Octants(x0, y0, x, y) : Octants(x0, y0, x, y)[k] \in Int \X Int
        BY ONLY <3>1, EightCells
      <4>2. {Octants(x0, y0, x, y)[k] : k \in DOMAIN Octants(x0, y0, x, y)} = Eight(x0, y0, x, y)
        BY ONLY <3>1, EightCells
      <4> QED
        BY <4>1, <4>2
  <2> HIDE DEF o, eight
  <2>3. painted' = painted \cup {o[k] : k \in DOMAIN o}
    BY <2>1, <2>2, PutCells
  <2> QED
    BY <2>2, <2>3
<1>6. ASSUME NEW c \in eight
      PROVE  c \in Screen /\ Distance2(c) = Square(x) + Square(y)
  <2>1. PICK a \in {x, -x, y, -y}, b \in {x, -x, y, -y} :
          /\ c = <<x0 + a, y0 + b>>
          /\ (a \in {x, -x} /\ b \in {y, -y}) \/ (a \in {y, -y} /\ b \in {x, -x})
    BY <1>4, Signs DEF Eight
  <2>2. /\ a \in Int /\ b \in Int /\ -r < a /\ a < r /\ -r < b /\ b < r
        /\ Square(-x) = Square(x) /\ Square(-y) = Square(y) /\ Square(x) \in Nat /\ Square(y) \in Nat
    <3>1. x \in Int /\ y \in Int
      BY <1>4
    <3>2. /\ Square(-x) = Square(x) /\ Square(-y) = Square(y) /\ Square(x) \in Nat /\ Square(y) \in Nat
      BY <3>1, Squares, Zenon
    <3> QED
      BY <1>4, <3>2
  <2>3. c \in Screen /\ Distance2(c) = Square(a) + Square(b)
    BY <1>4, <2>1, <2>2, InsideIsOnScreen
  <2> QED
    BY <2>1, <2>2, <2>3
<1>7. Square(x) + Square(y) <= Square(r) /\ Square(x) + Square(y) >= Square(r - 1)
  <2>0. r \in Int /\ x \in Int /\ y \in Int
    BY <1>4
  <2>1. Square(r - 1) = Square(r) - (2 * r) + 1 /\ Square(r) \in Nat
    BY <2>0, Squares, Zenon
  <2>2. Square(x) \in Nat /\ Square(y) \in Nat
    BY <2>0, Squares
  <2> QED
    BY <1>4, <2>1, <2>2
<1>8. \A k \in Passed' : Crossed(k)'
  <2>1. ASSUME NEW k \in Passed' PROVE k \in Passed \/ k = x \/ k = y
    BY <1>1, <1>3, <1>4 DEF Passed
  <2>2. ASSUME NEW k \in Passed PROVE Crossed(k)'
    <3>1. Crossed(k)
      BY DEF Ringing
    <3> QED
      BY <1>1, <1>5, <3>1 DEF Crossed
  <2>3. Crossed(x)' /\ Crossed(y)'
    <3>1. /\ <<x0 + x, y0 + y>> \in painted' /\ <<x0 + y, y0 + x>> \in painted'
          /\ <<x0 - x, y0 - y>> \in painted' /\ <<x0 - y, y0 - x>> \in painted'
      BY <1>5 DEF Eight
    <3> QED
      BY <1>1, <3>1 DEF Crossed
  <2> QED
    BY <2>1, <2>2, <2>3
<1>9. ASSUME NEW c \in painted'
      PROVE  (c \in Screen /\ Distance2(c) <= Square(call.radius) /\ Distance2(c) >= Square(call.radius - 1))'
  <2>1. Screen' = Screen /\ Distance2(c)' = Distance2(c)
    BY <1>1 DEF Screen, Distance2
  <2>2. c \in painted => c \in Screen /\ Distance2(c) <= Square(r) /\ Distance2(c) >= Square(r - 1)
    BY DEF Ringing
  <2>3. c \in eight => c \in Screen /\ Distance2(c) <= Square(r) /\ Distance2(c) >= Square(r - 1)
    BY <1>6, <1>7
  <2> QED
    BY <1>1, <1>5, <2>1, <2>2, <2>3
<1> QED
  BY <1>3, <1>8, <1>9 DEF Ringing


LEMMA CircleStarts ==
  ASSUME NEW op \in {"drawCircle", "fillCircle"}, StartCircle(op)
  PROVE  /\ circle' # None => Rounding'
         /\ Passed' = {} /\ painted' = {}
<1>1. call'.radius \in Nat /\ painted' = {}
  BY CallFacts DEF StartCircle, Begins
<1>2. CASE OffScreen(call')
  BY <1>1, <1>2 DEF StartCircle, Passed, OffScreen
<1>3. CASE ~OffScreen(call')
  <2>1. circle' = [kind |-> op, x |-> call'.radius - 1, y |-> 0, dx |-> 1, dy |-> 1,
                   err |-> 1 - (2 * call'.radius)]
    BY <1>3 DEF StartCircle
  <2>2. ~OffScreen(call)'
    BY <1>3 DEF OffScreen
  <2>3. Rounding'
    BY <1>1, <2>1, <2>2, RoundingStarts
  <2>4. circle' # None
    BY <2>1 DEF None
  <2>5. Passed' = {}
    BY <1>1, <2>1, <2>4 DEF Passed
  <2> QED
    BY <1>1, <2>3, <2>5
<1> QED
  BY <1>2, <1>3

LEMMA CircleStops ==
  ASSUME NEW op, circle \in Circle(op), Rounding, call.radius \in Nat, CircleEnds
  PROVE  Passed' \subseteq Passed /\ circle' = None
<1>1. circle # None /\ circle' = None /\ call' = call /\ circle.x < circle.y
  BY DEF CircleEnds
<1>2. circle.x \in Int /\ circle.y \in Nat /\ ~OffScreen(call)
  BY DEF Circle, Rounding
<1>3. Passed' = 0 .. call.radius - 1
  BY <1>1, <1>2 DEF Passed, OffScreen
<1> QED
  BY <1>1, <1>2, <1>3 DEF Passed

LEMMA RingingNext ==
  ASSUME Quiet, Ringing, [Next]_vars, call'.op = "drawCircle"
  PROVE  Ringing'
<1>1. CASE UNCHANGED vars
  <2>1. UNCHANGED <<call, circle, painted>>
    BY <1>1 DEF vars, loops, panel
  <2>2. Passed' = Passed /\ \A k : Crossed(k)' = Crossed(k)
    BY <2>1 DEF Passed, Crossed, OffScreen
  <2>3. Screen' = Screen /\ \A c : Distance2(c)' = Distance2(c)
    BY <2>1 DEF Screen, Distance2
  <2>4. Rounding' = Rounding
    BY <2>1 DEF Rounding, OffScreen
  <2> QED
    BY <2>1, <2>2, <2>3, <2>4 DEF Ringing
<1>2. CASE StartCircle("drawCircle")
  BY <1>2, CircleStarts DEF Ringing
<1>3. CASE call.op = "drawCircle" /\ RingTurn
  <2>1. circle \in Circle("drawCircle") /\ circle # None
    BY <1>3 DEF Quiet, RingTurn, None
  <2>2. call.x0 \in Nat /\ call.y0 \in Nat /\ call.radius \in Nat
    BY <1>3, CallFacts DEF Quiet, Served
  <2> QED
    BY <1>3, <2>1, <2>2, RingingTurns
<1>4. CASE call.op = "drawCircle" /\ CircleEnds
  <2>1. circle \in Circle("drawCircle") /\ circle # None /\ Rounding
    BY <1>4 DEF Quiet, CircleEnds, Ringing
  <2>2. call.radius \in Nat
    BY <1>4, CallFacts DEF Quiet, Served
  <2>3. Passed' \subseteq Passed /\ circle' = None
    BY <1>4, <2>1, <2>2, CircleStops
  <2>4. UNCHANGED <<call, painted>>
    BY <1>4 DEF CircleEnds, panel
  <2>5. Screen' = Screen /\ \A c : Distance2(c)' = Distance2(c)
    BY <2>4 DEF Screen, Distance2
  <2>6. \A k : Crossed(k)' = Crossed(k)
    BY <2>4 DEF Crossed
  <2> QED
    BY <2>3, <2>4, <2>5, <2>6 DEF Ringing
<1> QED
  BY ActionsOf, <1>1, <1>2, <1>3, <1>4


\* The row of a disc k below its centre, w cells to each side.
Stripe(w, k) == (call.x0 - w .. call.x0 + w) \X {call.y0 + k}

LEMMA StripeFits ==
  ASSUME call.x0 \in Nat, call.y0 \in Nat, call.radius \in Nat, ~OffScreen(call),
         NEW w \in Nat, NEW k \in Int, w < call.radius, -call.radius < k, k < call.radius,
         Square(w) + Square(k) <= Square(call.radius), Square(w) + Square(k) >= Square(call.radius - 1)
  PROVE  /\ \A c \in Stripe(w, k) : c \in Screen /\ Distance2(c) <= Square(call.radius)
         /\ \A c \in Screen :
              c[2] = call.y0 + k /\ Distance2(c) <= Square(call.radius - 1) => c \in Stripe(w, k)
<1>0. Square(w) \in Nat /\ Square(k) \in Nat /\ Square(call.radius) \in Nat /\ Square(call.radius - 1) \in Nat
  <2>1. w \in Int /\ call.radius \in Int /\ call.radius - 1 \in Int
    OBVIOUS
  <2> QED
    BY <2>1, Squares, Zenon
<1>1. ASSUME NEW c \in Stripe(w, k)
      PROVE  c \in Screen /\ Distance2(c) <= Square(call.radius)
  <2> DEFINE a == c[1] - call.x0
  <2>1. c = <<call.x0 + a, call.y0 + k>> /\ a \in Int /\ a \in -w .. w
    BY DEF Stripe
  <2> HIDE DEF a
  <2>2. c \in Screen /\ Distance2(c) = Square(a) + Square(k)
    <3>1. -call.radius < a /\ a < call.radius
      BY <2>1
    <3>2. /\ <<call.x0 + a, call.y0 + k>> \in Screen
          /\ Distance2(<<call.x0 + a, call.y0 + k>>) = Square(a) + Square(k)
      BY <2>1, <3>1, InsideIsOnScreen
    <3> QED
      BY <2>1, <3>2
  <2>3. Square(a) <= Square(w) /\ Square(a) \in Nat
    <3>1. Square(-a) = Square(a) /\ Square(a) \in Nat
      BY <2>1, Squares
    <3>2. CASE a >= 0
      BY <2>1, <3>1, <3>2, SquareGrows
    <3>3. CASE a < 0
      <4>1. -a \in Nat /\ -a <= w
        BY <2>1, <3>3
      <4> QED
        BY <3>1, <4>1, SquareGrows
    <3> QED
      BY <2>1, <3>2, <3>3
  <2> QED
    BY <1>0, <2>2, <2>3
<1>2. ASSUME NEW c \in Screen, c[2] = call.y0 + k, Distance2(c) <= Square(call.radius - 1)
      PROVE  c \in Stripe(w, k)
  <2> DEFINE a == c[1] - call.x0
  <2>1. /\ c = <<call.x0 + a, call.y0 + k>> /\ a \in Int /\ call.y0 + k - call.y0 = k
        /\ call.x0 + a - call.x0 = a
    BY <1>2 DEF Screen
  <2>2. Distance2(c) = Square(a) + Square(k)
    BY <1>2, <2>1 DEF Distance2
  <2> HIDE DEF a
  <2>3. Square(a) \in Nat
    BY <2>1, Squares
  <2>4. Square(a) <= Square(w)
    BY <1>0, <1>2, <2>2, <2>3
  <2>5. a \in -w .. w
    BY <2>1, <2>4, RootGrows
  <2>6. call.x0 + a \in call.x0 - w .. call.x0 + w
    BY <2>5
  <2> QED
    BY <2>1, <2>6 DEF Stripe
<1> QED
  BY <1>1, <1>2


Stripes(x, y) == Stripe(x, y) \cup Stripe(y, x) \cup Stripe(x, -y) \cup Stripe(y, -x)

\* The lines of a turn.
Rows(x0, y0, x, y) ==
  <<<<x0 - x, y0 + y, x0 + x, y0 + y>>, <<x0 - y, y0 + x, x0 + y, y0 + x>>,
    <<x0 - x, y0 - y, x0 + x, y0 - y>>, <<x0 - y, y0 - x, x0 + y, y0 - x>>>>

LEMMA StripesQueued ==
  ASSUME call.x0 \in Nat, call.y0 \in Nat, NEW x \in Nat, NEW y \in Nat,
         NEW ls, ls = Rows(call.x0, call.y0, x, y)
  PROVE  /\ ls \in Seq(Int \X Int \X Int \X Int) /\ \A k \in DOMAIN ls : Axial(ls[k])
         /\ Queued(ls) = Stripes(x, y)
<1> DEFINE x0 == call.x0
           y0 == call.y0
           l1 == <<x0 - x, y0 + y, x0 + x, y0 + y>>
           l2 == <<x0 - y, y0 + x, x0 + y, y0 + x>>
           l3 == <<x0 - x, y0 - y, x0 + x, y0 - y>>
           l4 == <<x0 - y, y0 - x, x0 + y, y0 - x>>
<1>1. /\ DOMAIN ls = {1, 2, 3, 4} /\ ls \in Seq(Int \X Int \X Int \X Int)
      /\ ls[1] = l1 /\ ls[2] = l2 /\ ls[3] = l3 /\ ls[4] = l4
  BY DEF Rows
<1>2. Axial(l1) /\ Axial(l2) /\ Axial(l3) /\ Axial(l4)
  BY DEF Axial
<1>3. \A k \in DOMAIN ls : Axial(ls[k])
  BY <1>1, <1>2
<1>4. Queued(ls) = Cells(l1) \cup Cells(l2) \cup Cells(l3) \cup Cells(l4)
  <2>1. Queued(ls) = Cells(ls[1]) \cup Cells(ls[2]) \cup Cells(ls[3]) \cup Cells(ls[4])
    <3>1. DOMAIN ls = {1, 2, 3, 4}
      BY <1>1
    <3> QED
      BY <3>1, Zenon DEF Queued
  <2> QED
    BY <1>1, <2>1
<1>5. /\ Cells(l1) = (x0 - x .. x0 + x) \X {y0 + y} /\ Cells(l2) = (x0 - y .. x0 + y) \X {y0 + x}
      /\ Cells(l3) = (x0 - x .. x0 + x) \X {y0 - y} /\ Cells(l4) = (x0 - y .. x0 + y) \X {y0 - x}
  BY DEF Cells
<1>6. /\ Stripe(x, y) = (x0 - x .. x0 + x) \X {y0 + y} /\ Stripe(y, x) = (x0 - y .. x0 + y) \X {y0 + x}
      /\ Stripe(x, -y) = (x0 - x .. x0 + x) \X {y0 + (-y)}
      /\ Stripe(y, -x) = (x0 - y .. x0 + y) \X {y0 + (-x)}
  BY DEF Stripe
<1>7. y0 + (-y) = y0 - y /\ y0 + (-x) = y0 - x
  OBVIOUS
<1> HIDE DEF l1, l2, l3, l4
<1> QED
  BY <1>1, <1>3, <1>4, <1>5, <1>6, <1>7 DEF Stripes

LEMMA DiscingTurns ==
  ASSUME NEW x0 \in Nat, NEW y0 \in Nat, NEW r \in Nat, NEW x, NEW y,
         x0 = call.x0, y0 = call.y0, r = call.radius, x = circle.x, y = circle.y,
         circle \in Circle("fillCircle"), Discing, call.op = "fillCircle", DiscTurn
  PROVE  Discing'
<1>1. /\ circle # None /\ x >= y /\ circle' = Turned(circle) /\ call' = call
      /\ line = None /\ lines = <<>> /\ line' = line /\ painted' = painted
  BY DEF DiscTurn, None, panel
<1>2. Rounding
  BY <1>1 DEF Discing
<1>3. /\ Rounding' /\ circle' # None /\ circle'.y = y + 1 /\ circle'.x \in {x, x - 1}
  BY <1>1, <1>2, RoundingTurns
<1>4. /\ x \in Nat /\ y \in Nat /\ y <= x /\ x < r /\ ~OffScreen(call)
      /\ circle.err <= 0 /\ circle.err >= 1 - (2 * r) /\ circle.err = Square(x) + Square(y) - Square(r)
  <2>1. x \in Int /\ y \in Int
    BY DEF Circle
  <2>2. /\ y >= 0 /\ x <= r - 1 /\ ~OffScreen(call) /\ circle.err <= 0 /\ circle.err >= 1 - (2 * r)
        /\ circle.err = Square(x) + Square(y) - Square(r)
    BY <1>1, <1>2 DEF Rounding
  <2> QED
    BY <1>1, <2>1, <2>2
<1>5. /\ lines' \in Seq(Int \X Int \X Int \X Int) /\ \A k \in DOMAIN lines' : Axial(lines'[k])
      /\ Queued(lines') = Stripes(x, y)
  <2>1. lines' = Rows(call.x0, call.y0, x, y)
    BY DEF DiscTurn, Rows
  <2>2. x \in Nat /\ y \in Nat /\ call.x0 \in Nat /\ call.y0 \in Nat
    BY <1>4
  <2> QED
    BY <2>1, <2>2, StripesQueued, Zenon
<1>6. Unpainted = {} /\ Unpainted' = Stripes(x, y)
  <2>1. DOMAIN lines = {} /\ Queued(lines) = {}
    BY <1>1 DEF Queued
  <2> QED
    BY <1>1, <1>5, <2>1 DEF Unpainted
<1>7. LevelLines'
  BY <1>1, <1>5 DEF LevelLines
<1>8. /\ Square(x) + Square(y) <= Square(r) /\ Square(x) + Square(y) >= Square(r - 1)
      /\ Square(-x) = Square(x) /\ Square(-y) = Square(y) /\ Square(x) \in Nat /\ Square(y) \in Nat
  <2>0. r \in Int /\ x \in Int /\ y \in Int
    BY <1>4
  <2>1. Square(r - 1) = Square(r) - (2 * r) + 1 /\ Square(r) \in Nat
    BY <2>0, Squares, Zenon
  <2>2. Square(x) \in Nat /\ Square(y) \in Nat /\ Square(-x) = Square(x) /\ Square(-y) = Square(y)
    BY <2>0, Squares
  <2> QED
    BY <1>4, <2>1, <2>2
<1>9. ASSUME NEW w \in Nat, NEW k \in Int,
             (w = x /\ k \in {y, -y}) \/ (w = y /\ k \in {x, -x})
      PROVE  /\ \A c \in Stripe(w, k) : c \in Screen /\ Distance2(c) <= Square(r)
             /\ \A c \in Screen : c[2] = y0 + k /\ Distance2(c) <= Square(r - 1) => c \in Stripe(w, k)
  <2>1. /\ w < call.radius /\ -call.radius < k /\ k < call.radius
        /\ Square(w) + Square(k) <= Square(call.radius) /\ Square(w) + Square(k) >= Square(call.radius - 1)
    BY <1>4, <1>8, <1>9
  <2>2. call.x0 \in Nat /\ call.y0 \in Nat /\ call.radius \in Nat
    OBVIOUS
  <2> QED
    BY <1>4, <2>1, <2>2, StripeFits
<1>10. /\ -x \in Int /\ -y \in Int /\ x \in Int /\ y \in Int
       /\ y0 - x = y0 + (-x) /\ y0 - y = y0 + (-y)
  BY <1>4
<1>11. ASSUME NEW c \in Stripes(x, y) PROVE c \in Screen /\ Distance2(c) <= Square(r)
  BY <1>4, <1>9, <1>10 DEF Stripes
<1>12. ASSUME NEW c \in (painted \cup Unpainted)'
       PROVE  (c \in Screen /\ Distance2(c) <= Square(call.radius))'
  <2>1. Screen' = Screen /\ Distance2(c)' = Distance2(c)
    BY <1>1 DEF Screen, Distance2
  <2>2. c \in painted => c \in Screen /\ Distance2(c) <= Square(r)
    BY DEF Discing
  <2> QED
    BY <1>1, <1>6, <1>11, <2>1, <2>2
<1>13. Chords(x) \subseteq Stripes(x, y) /\ Chords(y) \subseteq Stripes(x, y)
  <2>1. ASSUME NEW c \in Chords(x) PROVE c \in Stripe(y, x) \/ c \in Stripe(y, -x)
    <3>1. c \in Screen /\ Distance2(c) <= Square(r - 1) /\ (c[2] = y0 + x \/ c[2] = y0 + (-x))
      BY <1>10 DEF Chords
    <3> QED
      BY <1>4, <1>9, <1>10, <3>1
  <2>2. ASSUME NEW c \in Chords(y) PROVE c \in Stripe(x, y) \/ c \in Stripe(x, -y)
    <3>1. c \in Screen /\ Distance2(c) <= Square(r - 1) /\ (c[2] = y0 + y \/ c[2] = y0 + (-y))
      BY <1>10 DEF Chords
    <3> QED
      BY <1>4, <1>9, <1>10, <3>1
  <2> QED
    BY <2>1, <2>2 DEF Stripes
<1>14. ASSUME NEW k \in Passed' PROVE Chords(k)' \subseteq (painted \cup Unpainted)'
  <2>1. k \in Passed \/ k = x \/ k = y
    <3>1. Passed = (0 .. y - 1) \cup (x + 1 .. r - 1)
      BY <1>1 DEF Passed
    <3>2. Passed' = (0 .. circle'.y - 1) \cup (circle'.x + 1 .. r - 1)
      BY <1>1, <1>3 DEF Passed
    <3> QED
      BY <1>3, <1>4, <3>1, <3>2
  <2>2. Chords(k)' = Chords(k)
    BY <1>1 DEF Chords, Screen, Distance2
  <2>3. k \in Passed => Chords(k) \subseteq painted
    BY <1>6 DEF Discing
  <2> QED
    BY <1>1, <1>6, <1>13, <2>1, <2>2, <2>3
<1> QED
  BY <1>3, <1>7, <1>12, <1>14 DEF Discing


LEMMA DiscingNext ==
  ASSUME Quiet, Discing, [Next]_vars, call'.op = "fillCircle"
  PROVE  Discing'
<1>1. ASSUME call.op = "fillCircle", UNCHANGED <<call, circle>>, LevelLines',
             (painted \cup Unpainted)' = painted \cup Unpainted
      PROVE  Discing'
  <2>1. Passed' = Passed /\ Rounding' = Rounding
    BY <1>1 DEF Passed, OffScreen, Rounding
  <2>2. Screen' = Screen /\ \A c : Distance2(c)' = Distance2(c)
    BY <1>1 DEF Screen, Distance2
  <2>3. \A k : Chords(k)' = Chords(k)
    BY <1>1, <2>2 DEF Chords
  <2> QED
    BY <1>1, <2>1, <2>2, <2>3 DEF Discing
<1>2. CASE UNCHANGED vars
  <2>1. UNCHANGED <<call, circle, painted, line, lines>>
    BY <1>2 DEF vars, loops, panel
  <2>2. LevelLines' = LevelLines /\ Unpainted' = Unpainted
    BY <2>1 DEF LevelLines, Unpainted
  <2>3. call.op = "fillCircle" /\ LevelLines
    BY <2>1 DEF Discing
  <2> QED
    BY <1>1, <2>1, <2>2, <2>3
<1>3. CASE StartCircle("fillCircle")
  <2>1. (circle' # None => Rounding') /\ Passed' = {} /\ painted' = {}
    BY <1>3, CircleStarts
  <2>2. line' = None /\ lines' = <<>>
    BY <1>3 DEF StartCircle, Begins, Quiet, Drawn
  <2>3. DOMAIN lines' = {} /\ lines' \in Seq(Int \X Int \X Int \X Int)
    BY <2>2
  <2>4. LevelLines' /\ Unpainted' = {}
    BY <2>2, <2>3 DEF LevelLines, Unpainted, Queued
  <2> QED
    BY <2>1, <2>4 DEF Discing
<1>4. CASE call.op = "fillCircle" /\ (NextLine \/ LineTurn \/ LineEnds)
  <2>1. LevelLines
    BY <1>4 DEF Discing
  <2>2. LevelLines' /\ (painted \cup Unpainted)' = painted \cup Unpainted /\ UNCHANGED <<call, circle>>
    BY <1>4, <2>1, LevelNext
  <2> QED
    BY <1>1, <1>4, <2>2
<1>5. CASE call.op = "fillCircle" /\ DiscTurn
  <2>1. circle \in Circle("fillCircle")
    BY <1>5 DEF Quiet, DiscTurn, None
  <2>2. call.x0 \in Nat /\ call.y0 \in Nat /\ call.radius \in Nat
    BY <1>5, CallFacts DEF Quiet, Served
  <2> QED
    BY <1>5, <2>1, <2>2, DiscingTurns
<1>6. CASE call.op = "fillCircle" /\ CircleEnds
  <2>1. circle \in Circle("fillCircle") /\ circle # None /\ Rounding
    BY <1>6 DEF Quiet, CircleEnds, Discing
  <2>2. call.radius \in Nat
    BY <1>6, CallFacts DEF Quiet, Served
  <2>3. Passed' \subseteq Passed /\ circle' = None
    BY <1>6, <2>1, <2>2, CircleStops
  <2>4. UNCHANGED <<call, painted, line, lines>>
    BY <1>6 DEF CircleEnds, panel
  <2>5. Screen' = Screen /\ \A c : Distance2(c)' = Distance2(c)
    BY <2>4 DEF Screen, Distance2
  <2>6. \A k : Chords(k)' = Chords(k)
    BY <2>4, <2>5 DEF Chords
  <2>7. LevelLines' = LevelLines /\ Unpainted' = Unpainted
    BY <2>4 DEF LevelLines, Unpainted
  <2> QED
    BY <1>6, <2>3, <2>4, <2>5, <2>6, <2>7 DEF Discing
<1> QED
  BY ActionsOf, <1>2, <1>3, <1>4, <1>5, <1>6
-----------------------------------------------------------------------------
(***************************************************************************)
(* All of it together, and what it means when the loops have ended.        *)
(***************************************************************************)
DisplayInv ==
  Quiet /\ Filling /\ Imaged /\ Printing /\ Lining /\ Siding /\ Ringing /\ Discing

LEMMA DisplayInvInit == Init => DisplayInv
<1> SUFFICES ASSUME Init PROVE DisplayInv
  OBVIOUS
<1>1. call.op = "none"
  BY DEF Init, Nothing
<1> QED
  BY <1>1, QuietInit DEF DisplayInv, Filling, Imaged, Printing, Lining, Siding, Ringing, Discing

LEMMA DisplayInvNext == DisplayInv /\ [Next]_vars => DisplayInv'
<1> SUFFICES ASSUME DisplayInv, [Next]_vars PROVE DisplayInv'
  OBVIOUS
<1> USE DEF DisplayInv
<1>1. Quiet'
  BY QuietNext
<1>2. Filling'
  <2>1. CASE call'.op = "fillRectangle"
    BY <1>1, <2>1, FillingNext
  <2> QED BY <2>1 DEF Filling
<1>3. Imaged'
  <2>1. CASE call'.op = "putImage"
    BY <2>1, ImagedNext
  <2> QED BY <2>1 DEF Imaged
<1>4. Printing'
  <2>1. CASE call'.op = "print"
    BY <2>1, PrintingNext
  <2> QED BY <2>1 DEF Printing
<1>5. Lining'
  <2>1. CASE call'.op = "drawLine"
    BY <2>1, LiningNext
  <2> QED BY <2>1 DEF Lining
<1>6. Siding'
  <2>1. CASE call'.op = "drawRectangle"
    BY <2>1, SidingNext
  <2> QED BY <2>1 DEF Siding
<1>7. Ringing'
  <2>1. CASE call'.op = "drawCircle"
    BY <2>1, RingingNext
  <2> QED BY <2>1 DEF Ringing
<1>8. Discing'
  <2>1. CASE call'.op = "fillCircle"
    BY <2>1, DiscingNext
  <2> QED BY <2>1 DEF Discing
<1> QED
  BY <1>1, <1>2, <1>3, <1>4, <1>5, <1>6, <1>7, <1>8

LEMMA DisplayInvHolds == Spec => []DisplayInv
BY DisplayInvInit, DisplayInvNext, PTL DEF Spec

LEMMA FillingEnds ==
  ASSUME DisplayInv
  PROVE  RectangleFilled
<1> SUFFICES ASSUME Complete("fillRectangle") \/ Complete("putImage")
             PROVE  /\ painted = (call.x .. call.x + call.width - 1) \X (call.y .. call.y + call.height - 1)
                    /\ sent = Cardinality(painted)
  BY DEF RectangleFilled
<1> DEFINE x == call.x
           y == call.y
           w == call.width
           h == call.height
<1>1. /\ x \in Nat /\ y \in Nat /\ w \in Nat /\ h \in Nat
      /\ x + w <= CoordinateSize /\ y + h <= CoordinateSize
  BY CallFacts DEF Complete, DisplayInv, Quiet, Served
<1>2. sent = w * h /\ painted = Sweep(Window(call), w * h)
  <2>1. CASE Complete("fillRectangle")
    <3>1. fill = NoFill /\ call.op = "fillRectangle"
      BY <2>1 DEF Complete, Drawn
    <3>2. /\ sent \in Nat /\ sent + (PIXEL_CACHE_SIZE * fill.blocks) + fill.pixels = w * h
          /\ painted = Sweep(Window(call), sent)
      BY <3>1 DEF DisplayInv, Filling
    <3>3. PIXEL_CACHE_SIZE * fill.blocks = 0 /\ fill.pixels = 0
      BY <3>1, DisplayAssumption DEF NoFill
    <3> QED
      BY <3>2, <3>3
  <2>2. CASE Complete("putImage")
    BY <2>2 DEF Complete, DisplayInv, Imaged
  <2> QED
    BY <2>1, <2>2
<1>3. w # 0 /\ h # 0 => Window(call) = Frame(x, y, w, h)
  <2> SUFFICES ASSUME w # 0, h # 0 PROVE Window(call) = Frame(x, y, w, h)
    OBVIOUS
  <2>1. x + w - 1 \in Nat /\ y + h - 1 \in Nat
    BY <1>1
  <2>2. x + w - 1 < CoordinateSize /\ y + h - 1 < CoordinateSize
    BY <1>1, DisplayAssumption
  <2>3. Coordinate(x + w - 1) = x + w - 1 /\ Coordinate(y + h - 1) = y + h - 1
    BY <2>1, <2>2, ModSmall, DisplayAssumption DEF Coordinate
  <2> QED
    BY <2>3 DEF Window, Frame
<1> DEFINE window == Window(call)
<1> HIDE DEF x, y, w, h, window
<1>4. painted = Rectangle(x, y, w, h)
  <2>1. CASE w = 0 \/ h = 0
    <3>1. w * h = 0
      BY <1>1, <2>1
    <3>2. painted = {}
      BY <1>2, <3>1 DEF Sweep
    <3>3. Rectangle(x, y, w, h) = {}
      BY <1>1, <2>1 DEF Rectangle
    <3> QED
      BY <3>2, <3>3
  <2>2. CASE w # 0 /\ h # 0
    BY <1>1, <1>2, <1>3, <2>2, WindowSwept
  <2> QED
    BY <2>1, <2>2
<1>5. Cardinality(painted) = w * h
  BY <1>1, <1>4, RectangleSize
<1> QED
  BY <1>2, <1>4, <1>5 DEF Rectangle, x, y, w, h

(***************************************************************************)
(* A filled rectangle, and an image, is its window with every cell painted *)
(* once, whatever the size of the block the pixels are sent in: the loops  *)
(* over full blocks and over the remainder lose and repeat none.           *)
(***************************************************************************)
THEOREM RectanglesFilled == Spec => []RectangleFilled
BY DisplayInvHolds, FillingEnds, PTL

LEMMA PrintingEnds ==
  ASSUME DisplayInv
  PROVE  TextPrinted
<1> SUFFICES ASSUME Complete("print") PROVE TextPrinted
  BY DEF TextPrinted
<1>1. call.op = "print" /\ text = None
  BY DEF Complete, Drawn
<1>2. DOMAIN call.text = 1 .. Len(call.text)
  <2>1. call.text \in Seq(DOMAIN Font)
    BY <1>1, CallFacts DEF DisplayInv, Quiet, Served
  <2> QED
    BY <2>1
<1>3. /\ painted = Boxes(Len(call.text)) /\ ink = Dots(Len(call.text))
      /\ Len(call.text) < IndexSize
  BY <1>1 DEF DisplayInv, Printing
<1> QED
  BY <1>2, <1>3 DEF TextPrinted, Boxes, Dots

(***************************************************************************)
(* When print returns, the boxes of its characters are painted and the     *)
(* dots of the font, upright, are in ink, for every font, every text and   *)
(* every place; and its text was one that the index can count.             *)
(***************************************************************************)
THEOREM TextsPrinted == Spec => []TextPrinted
BY DisplayInvHolds, PrintingEnds, PTL

LEMMA LinesEnd ==
  ASSUME DisplayInv
  PROVE  LinesStraight
<1>1. ASSUME Complete("drawLine")
      PROVE  Straight(<<call.x0, call.y0>>, <<call.x1, call.y1>>, painted)
  <2>1. call.op = "drawLine" /\ lines = <<>> /\ line = None
    BY <1>1 DEF Complete, Drawn
  <2>2. call.x0 \in Int /\ call.y0 \in Int /\ call.x1 \in Int /\ call.y1 \in Int
    BY <2>1, CallFacts DEF DisplayInv, Quiet, Served
  <2>3. lines # <<Ends>>
    BY <2>1
  <2>4. painted = Track(Line(Ends), Line(Ends).last) /\ Gapless(Line(Ends))
    BY <2>1, <2>3 DEF DisplayInv, Lining
  <2>5. Gapless(Line(Ends)) =>
          Straight(<<call.x0, call.y0>>, <<call.x1, call.y1>>, Track(Line(Ends), Line(Ends).last))
    BY <2>2, LineStraight DEF Ends
  <2> QED
    BY <2>4, <2>5
<1>2. ASSUME Complete("drawRectangle") PROVE painted = Outline
  <2>1. call.op = "drawRectangle" /\ lines = <<>> /\ line = None
    BY <1>2 DEF Complete, Drawn
  <2>2. DOMAIN lines = {}
    BY <2>1
  <2>3. Unpainted = {}
    BY <2>1, <2>2 DEF Unpainted, Queued
  <2> QED
    BY <2>1, <2>3 DEF DisplayInv, Siding
<1> QED
  BY <1>1, <1>2 DEF LinesStraight, Outline

(***************************************************************************)
(* Every line, in all eight directions and of every length, has its ends,  *)
(* one cell for each step along its longer axis, and none more than half a *)
(* cell off the ideal line; a rectangle is its four sides.                 *)
(***************************************************************************)
THEOREM LinesDrawn == Spec => []LinesStraight
BY DisplayInvHolds, LinesEnd, PTL


\* All rows and columns were passed when the loop has ended.
LEMMA AllPassed ==
  ASSUME DisplayInv, Drawn, ~OffScreen(call), call.op \in {"drawCircle", "fillCircle"},
         call.radius \in Nat
  PROVE  Passed = 0 .. call.radius - 1 /\ Unpainted = {}
<1>1. circle = None /\ line = None /\ DOMAIN lines = {}
  BY DEF Drawn
<1> QED
  BY <1>1 DEF Passed, Unpainted, Queued

LEMMA RingWhole ==
  ASSUME DisplayInv, Drawn, ~OffScreen(call), call.op = "drawCircle",
         NEW r \in Nat, NEW x0 \in Nat, NEW y0 \in Nat,
         r = call.radius, x0 = call.x0, y0 = call.y0, NEW d \in -(r - 1) .. r - 1
  PROVE  /\ \E c \in painted : c[1] = x0 + d
         /\ \E c \in painted : c[2] = y0 + d
<1>1. Passed = 0 .. r - 1
  BY AllPassed
<1>2. \A k \in 0 .. r - 1 : Crossed(k)
  BY <1>1 DEF DisplayInv, Ringing
<1>3. CASE d >= 0
  <2>1. Crossed(d)
    BY <1>2, <1>3
  <2> QED
    BY <2>1 DEF Crossed
<1>4. CASE d < 0
  <2>1. -d \in 0 .. r - 1 /\ x0 - (-d) = x0 + d /\ y0 - (-d) = y0 + d
    BY <1>4
  <2>2. Crossed(-d)
    BY <1>2, <2>1
  <2>3. (\E c \in painted : c[1] = x0 - (-d)) /\ (\E c \in painted : c[2] = y0 - (-d))
    BY <2>2 DEF Crossed
  <2> QED
    BY <2>1, <2>3
<1> QED
  BY <1>3, <1>4

LEMMA DiscWhole ==
  ASSUME DisplayInv, Drawn, ~OffScreen(call), call.op = "fillCircle",
         NEW r \in Nat \ {0}, NEW x0 \in Nat, NEW y0 \in Nat,
         r = call.radius, x0 = call.x0, y0 = call.y0,
         NEW c \in Screen, Distance2(c) <= Square(r - 1)
  PROVE  c \in painted
<1> DEFINE a == c[1] - x0
           b == c[2] - y0
<1>1. /\ a \in Int /\ b \in Int /\ Distance2(c) = Square(a) + Square(b)
      /\ c[2] \in Int /\ c[2] = y0 + b
  BY DEF Distance2, Screen
<1> HIDE DEF a, b
<1>2. Square(a) \in Nat /\ Square(b) \in Nat /\ Square(r - 1) \in Nat
  <2>1. r - 1 \in Int
    OBVIOUS
  <2>2. Square(a) \in Nat /\ Square(b) \in Nat
    BY <1>1, Squares
  <2>3. Square(r - 1) \in Nat
    BY <2>1, Squares, Zenon
  <2> QED
    BY <2>2, <2>3
<1>3. b \in -(r - 1) .. r - 1
  <2>1. r - 1 \in Nat
    OBVIOUS
  <2>2. Square(a) + Square(b) <= Square(r - 1)
    BY <1>1
  <2>3. Square(b) <= Square(r - 1)
    BY <1>2, <2>2
  <2> QED
    BY <1>1, <2>1, <2>3, RootGrows
<1>4. PICK k \in 0 .. r - 1 : b = k \/ b = -k
  <2>1. CASE b >= 0
    BY <1>3, <2>1
  <2>2. CASE b < 0
    <3>1. -b \in 0 .. r - 1 /\ b = -(-b)
      BY <1>3, <2>2
    <3> QED BY <3>1
  <2> QED
    BY <1>3, <2>1, <2>2
<1>5. c[2] = y0 + k \/ c[2] = y0 - k
  BY <1>1, <1>4
<1>6. c \in Chords(k)
  BY <1>5 DEF Chords
<1>7. k \in Passed /\ Unpainted = {}
  BY AllPassed
<1> QED
  BY <1>6, <1>7 DEF DisplayInv, Discing

LEMMA DiscSpans ==
  ASSUME DisplayInv, Drawn, ~OffScreen(call), call.op = "fillCircle",
         NEW r \in Nat \ {0}, NEW x0 \in Nat, NEW y0 \in Nat,
         r = call.radius, x0 = call.x0, y0 = call.y0, NEW d \in -(r - 1) .. r - 1
  PROVE  /\ \E c \in painted : c[1] = x0 + d
         /\ \E c \in painted : c[2] = y0 + d
<1>1. Square(d) \in Nat /\ Square(d) <= Square(r - 1)
  <2>1. Square(-d) = Square(d) /\ Square(d) \in Nat
    BY Squares
  <2>2. CASE d >= 0
    <3>1. d \in Nat /\ r - 1 \in Nat /\ d <= r - 1
      BY <2>2
    <3> QED
      BY <2>1, <3>1, SquareGrows
  <2>3. CASE d < 0
    <3>1. -d \in Nat /\ r - 1 \in Nat /\ -d <= r - 1
      BY <2>3
    <3>2. Square(-d) <= Square(r - 1)
      BY <3>1, SquareGrows
    <3> QED
      BY <2>1, <3>2
  <2> QED
    BY <2>2, <2>3
<1>2. Square(0) = 0
  BY DEF Square
<1>3. /\ -call.radius < d /\ d < call.radius /\ -call.radius < 0 /\ 0 < call.radius
      /\ call.x0 \in Nat /\ call.y0 \in Nat /\ call.radius \in Nat
  OBVIOUS
<1>4. <<call.x0 + d, call.y0 + 0>> \in Screen /\ Distance2(<<call.x0 + d, call.y0 + 0>>) = Square(d) + Square(0)
  BY <1>3, InsideIsOnScreen
<1>5. <<call.x0 + 0, call.y0 + d>> \in Screen /\ Distance2(<<call.x0 + 0, call.y0 + d>>) = Square(0) + Square(d)
  BY <1>3, InsideIsOnScreen
<1>6. <<call.x0 + d, call.y0 + 0>> \in painted
  <2>1. Distance2(<<call.x0 + d, call.y0 + 0>>) <= Square(r - 1)
    BY <1>1, <1>2, <1>4
  <2> QED
    BY <1>4, <2>1, DiscWhole
<1>7. <<call.x0 + 0, call.y0 + d>> \in painted
  <2>1. Distance2(<<call.x0 + 0, call.y0 + d>>) <= Square(r - 1)
    BY <1>1, <1>2, <1>5
  <2> QED
    BY <1>5, <2>1, DiscWhole
<1> QED
  BY <1>6, <1>7

LEMMA CirclesEnd ==
  ASSUME DisplayInv
  PROVE  CirclesRound
<1> SUFFICES ASSUME call.op \in {"drawCircle", "fillCircle"} PROVE CirclesRound
  BY DEF CirclesRound
<1>1. /\ painted \subseteq Screen /\ \A c \in painted : Distance2(c) <= Square(call.radius)
      /\ call.op = "drawCircle" => \A c \in painted : Distance2(c) >= Square(call.radius - 1)
  <2>1. CASE call.op = "drawCircle"
    BY <2>1 DEF DisplayInv, Ringing
  <2>2. CASE call.op = "fillCircle"
    BY <2>2 DEF DisplayInv, Discing
  <2> QED
    BY <2>1, <2>2
<1>2. call.x0 \in Nat /\ call.y0 \in Nat /\ call.radius \in Nat
  BY CallFacts DEF DisplayInv, Quiet, Served
<1>3. ASSUME Drawn, ~OffScreen(call), call.radius > 0
      PROVE  /\ \A d \in -(call.radius - 1) .. call.radius - 1 :
                  /\ \E c \in painted : c[1] = call.x0 + d
                  /\ \E c \in painted : c[2] = call.y0 + d
             /\ call.op = "fillCircle" =>
                  {c \in Screen : Distance2(c) <= Square(call.radius - 1)} \subseteq painted
  <2>1. call.radius \in Nat \ {0}
    BY <1>2, <1>3
  <2>2. CASE call.op = "drawCircle"
    <3>1. ASSUME NEW d \in -(call.radius - 1) .. call.radius - 1
          PROVE  /\ \E c \in painted : c[1] = call.x0 + d
                 /\ \E c \in painted : c[2] = call.y0 + d
      BY <1>2, <1>3, <2>2, <3>1, RingWhole, ZenonT(40)
    <3>2. call.op # "fillCircle"
      BY <2>2
    <3> QED
      BY <3>1, <3>2
  <2>3. CASE call.op = "fillCircle"
    <3>1. ASSUME NEW d \in -(call.radius - 1) .. call.radius - 1
          PROVE  /\ \E c \in painted : c[1] = call.x0 + d
                 /\ \E c \in painted : c[2] = call.y0 + d
      BY <1>2, <1>3, <2>1, <2>3, <3>1, DiscSpans
    <3>2. ASSUME NEW c \in Screen, Distance2(c) <= Square(call.radius - 1) PROVE c \in painted
      BY <1>2, <1>3, <2>1, <2>3, <3>2, DiscWhole
    <3> QED
      BY <3>1, <3>2
  <2> QED
    BY <2>2, <2>3
<1> QED
  BY <1>1, <1>3 DEF CirclesRound

(***************************************************************************)
(* Every circle that is drawn at all, of whatever radius and wherever it   *)
(* is, stays on the screen and between its radius and one less, has a cell *)
(* in each row and column, and a filled one has no hole.                   *)
(***************************************************************************)
THEOREM CirclesDrawn == Spec => []CirclesRound
BY DisplayInvHolds, CirclesEnd, PTL


-----------------------------------------------------------------------------
(***************************************************************************)
(* No loop turns for ever: what remains of a call is five naturals, and    *)
(* every step lessens them in the order of a dictionary.                   *)
(***************************************************************************)
LEMMA Lessens ==
  ASSUME NEW a1, NEW a2, NEW a3, NEW a4, NEW a5,
         NEW b1, NEW b2, NEW b3, NEW b4, NEW b5,
         \/ a1 < b1
         \/ a1 = b1 /\ a2 < b2
         \/ a1 = b1 /\ a2 = b2 /\ a3 < b3
         \/ a1 = b1 /\ a2 = b2 /\ a3 = b3 /\ a4 < b4
         \/ a1 = b1 /\ a2 = b2 /\ a3 = b3 /\ a4 = b4 /\ a5 < b5
  PROVE  Before(<<a1, a2, a3, a4, a5>>, <<b1, b2, b3, b4, b5>>)
<1> DEFINE r == <<a1, a2, a3, a4, a5>>
           s == <<b1, b2, b3, b4, b5>>
           Here(i) == r[i] < s[i] /\ \A j \in 1 .. i - 1 : r[j] = s[j]
<1>0. /\ r[1] = a1 /\ r[2] = a2 /\ r[3] = a3 /\ r[4] = a4 /\ r[5] = a5
      /\ s[1] = b1 /\ s[2] = b2 /\ s[3] = b3 /\ s[4] = b4 /\ s[5] = b5
      /\ DOMAIN s = 1 .. 5
  OBVIOUS
<1> HIDE DEF r, s
<1>1. CASE a1 < b1
  <2>1. Here(1)
    BY <1>0, <1>1
  <2> QED
    BY <1>0, <2>1 DEF Before
<1>2. CASE a1 = b1 /\ a2 < b2
  <2>1. Here(2)
    BY <1>0, <1>2
  <2> QED
    BY <1>0, <2>1 DEF Before
<1>3. CASE a1 = b1 /\ a2 = b2 /\ a3 < b3
  <2>1. Here(3)
    BY <1>0, <1>3
  <2> QED
    BY <1>0, <2>1 DEF Before
<1>4. CASE a1 = b1 /\ a2 = b2 /\ a3 = b3 /\ a4 < b4
  <2>1. Here(4)
    BY <1>0, <1>4
  <2> QED
    BY <1>0, <2>1 DEF Before
<1>5. CASE a1 = b1 /\ a2 = b2 /\ a3 = b3 /\ a4 = b4 /\ a5 < b5
  <2>1. Here(5)
    BY <1>0, <1>5
  <2> QED
    BY <1>0, <2>1 DEF Before
<1> QED
  BY <1>1, <1>2, <1>3, <1>4, <1>5

\* The running line, whichever call it belongs to.
LEMMA LineType ==
  ASSUME DisplayInv
  PROVE  (line = None \/ line \in Running) /\ Len(lines) \in Nat /\ lines \in Seq(Int \X Int \X Int \X Int)
<1> DEFINE Q == Int \X Int \X Int \X Int
<1>0. <<>> \in Seq(Q) /\ \A l \in Q : <<l>> \in Seq(Q)
  OBVIOUS
<1>1. CASE call.op \notin {"drawLine", "drawRectangle", "fillCircle"}
  <2>1. lines = <<>> /\ line = None
    BY <1>1 DEF DisplayInv, Quiet
  <2> QED
    BY <1>0, <2>1
<1>2. CASE call.op = "drawLine"
  <2>1. call.x0 \in Int /\ call.y0 \in Int /\ call.x1 \in Int /\ call.y1 \in Int
    BY <1>2, CallFacts DEF DisplayInv, Quiet, Served
  <2>2. Proper(Line(Ends))
    BY <2>1, LineStraight, Zenon DEF Ends
  <2>0. Ends \in Q
    BY <2>1 DEF Ends
  <2>3. line = None \/ Along(Line(Ends), line, painted)
    BY <1>2 DEF DisplayInv, Lining
  <2>4. lines = <<Ends>> \/ lines = <<>>
    BY <1>2 DEF DisplayInv, Lining
  <2>5. lines \in Seq(Q)
    BY <1>0, <2>0, <2>4, Zenon
  <2>6. line = None \/ line \in Running
    BY <2>2, <2>3 DEF Along, Proper, Running
  <2>7. Len(lines) \in Nat
    BY <2>5
  <2> QED
    BY <2>5, <2>6, <2>7
<1>3. CASE call.op \in {"drawRectangle", "fillCircle"}
  <2>1. LevelLines
    BY <1>3 DEF DisplayInv, Siding, Discing
  <2> QED
    BY <2>1 DEF LevelLines, Level, Running
<1> QED
  BY <1>1, <1>2, <1>3

LEMMA RemainingType ==
  ASSUME DisplayInv
  PROVE  \A i \in DOMAIN Remaining : Remaining[i] \in Nat
<1>1. CharactersLeft \in Nat
  <2>1. CASE text = None
    BY <2>1 DEF CharactersLeft
  <2>2. CASE text # None
    <3>1. call.op = "print" /\ Len(call.text) \in Nat
      BY <2>2, CallFacts DEF DisplayInv, Quiet, Served
    <3>2. text.index \in 0 .. Len(call.text)
      BY <2>2, <3>1 DEF DisplayInv, Printing
    <3> QED
      BY <2>2, <3>1, <3>2 DEF CharactersLeft
  <2> QED
    BY <2>1, <2>2
<1>2. TurnsLeft \in Nat
  BY DEF TurnsLeft, DisplayInv, Quiet, Circle
<1>3. Len(lines) \in Nat /\ CellsLeft \in Nat
  BY LineType DEF CellsLeft, Running
<1>4. fill.blocks + fill.pixels \in Nat
  BY DEF DisplayInv, Quiet, Filling, NoFill
<1> QED
  BY <1>1, <1>2, <1>3, <1>4 DEF Remaining

\* Of a circle one turn less is left after each.
LEMMA TurnsLess ==
  ASSUME DisplayInv, call' = call, circle # None, circle.x >= circle.y, circle' = Turned(circle)
  PROVE  TurnsLeft' < TurnsLeft
<1>1. PICK op \in {"drawCircle", "fillCircle"} : call.op = op /\ circle \in Circle(op)
  BY DEF DisplayInv, Quiet
<1>2. call.radius \in Nat
  BY <1>1, CallFacts DEF DisplayInv, Quiet, Served
<1>3. Rounding
  BY <1>1 DEF DisplayInv, Ringing, Discing
<1>4. circle' # None /\ circle'.y = circle.y + 1 /\ circle'.x \in {circle.x, circle.x - 1}
  BY <1>1, <1>2, <1>3, RoundingTurns
<1> QED
  BY <1>1, <1>4 DEF TurnsLeft, Circle

\* Every step of a call, by the loop it belongs to.
LEMMA StepsLessen ==
  ASSUME DisplayInv, DisplayInv', [Next]_vars, vars' # vars,
         call # Nothing, call' = call, ~Endless
  PROVE  Before(Remaining', Remaining)
<1>0. Quiet /\ Quiet'
  BY DEF DisplayInv
<1>1. CASE call.op = "fillRectangle" /\ (SendBlock \/ SendRest)
  <2>1. fill \in [blocks : Nat, pixels : Nat]
    BY <1>1 DEF DisplayInv, Filling
  <2>2. fill'.blocks + fill'.pixels < fill.blocks + fill.pixels
    BY <1>1, <2>1 DEF SendBlock, SendRest
  <2>3. text = None /\ text' = None /\ UNCHANGED <<lines, line, circle>>
    BY <1>0, <1>1 DEF Quiet, SendBlock, SendRest
  <2>4. CharactersLeft' = CharactersLeft /\ TurnsLeft' = TurnsLeft /\ CellsLeft' = CellsLeft
        /\ Len(lines)' = Len(lines)
    BY <2>3 DEF CharactersLeft, TurnsLeft, CellsLeft
  <2> QED
    BY <2>2, <2>4, Lessens DEF Remaining
<1>2. CASE call.op \in {"drawLine", "drawRectangle", "fillCircle"} /\ (NextLine \/ LineTurn \/ LineEnds)
  <2>1. text = None /\ text' = None /\ UNCHANGED <<fill, circle>>
    BY <1>0, <1>2 DEF Quiet, NextLine, LineTurn, LineEnds
  <2>2. CharactersLeft' = CharactersLeft /\ TurnsLeft' = TurnsLeft
    BY <2>1 DEF CharactersLeft, TurnsLeft
  <2>3. CASE NextLine
    <3>1. Len(lines') < Len(lines)
      BY <2>3, LineType DEF NextLine
    <3> QED
      BY <2>2, <3>1, Lessens DEF Remaining
  <2>4. CASE LineTurn
    <3>1. line # None /\ line \in Running
      BY <2>4, LineType DEF LineTurn
    <3>2. /\ line.u <= line.last /\ lines' = lines
          /\ line'.kind = line.kind /\ line'.u = line.u + 1 /\ line'.last = line.last
      BY <2>4, <3>1, LineTurns
    <3>3. line' # None
      BY <3>1, <3>2 DEF Running, None
    <3>4. CellsLeft' < CellsLeft
      BY <3>1, <3>2, <3>3 DEF CellsLeft, Running
    <3> QED
      BY <2>2, <3>2, <3>4, Lessens DEF Remaining
  <2>5. CASE LineEnds
    <3>1. CellsLeft' < CellsLeft /\ lines' = lines
      BY <2>5 DEF LineEnds, CellsLeft
    <3> QED
      BY <2>2, <3>1, Lessens DEF Remaining
  <2> QED
    BY <1>2, <2>3, <2>4, <2>5
<1>3. CASE call.op \in {"drawCircle", "fillCircle"} /\ (RingTurn \/ DiscTurn \/ CircleEnds)
  <2>1. text = None /\ text' = None
    BY <1>0, <1>3 DEF Quiet
  <2>2. TurnsLeft' < TurnsLeft
    <3>1. CASE RingTurn \/ DiscTurn
      <4>1. circle # None /\ circle.x >= circle.y /\ circle' = Turned(circle)
        BY <3>1 DEF RingTurn, DiscTurn, None
      <4> QED
        BY <4>1, TurnsLess
    <3>2. CASE CircleEnds
      BY <3>2 DEF CircleEnds, TurnsLeft
    <3> QED
      BY <1>3, <3>1, <3>2
  <2>3. CharactersLeft' = CharactersLeft
    BY <2>1 DEF CharactersLeft
  <2> QED
    BY <2>2, <2>3, Lessens DEF Remaining
<1>4. CASE call.op = "print" /\ (PrintTurn \/ PrintEnds)
  <2>1. /\ text # None /\ Len(call.text) \in Nat /\ Len(call.text) < IndexSize
    <3>1. call.text \in Seq(DOMAIN Font)
      BY <1>0, <1>4, CallFacts DEF Quiet, Served
    <3>2. Len(call.text) \in Nat
      BY <3>1
    <3> QED
      BY <1>4, <3>2, DisplayAssumption DEF PrintTurn, PrintEnds, Endless
  <2>2. text \in [kind : {"text"}, index : 0 .. Len(call.text), x : Nat]
    BY <1>4, <2>1 DEF DisplayInv, Printing
  <2>3. CASE PrintTurn
    <3>1. text.index < Len(call.text)
      BY <2>3 DEF PrintTurn
    <3>2. (text.index + 1) % IndexSize = text.index + 1
      BY <2>1, <2>2, <3>1, DisplayAssumption, ModSmall
    <3>3. text'.index = text.index + 1 /\ text'.kind = "text"
      BY <2>2, <2>3, <3>2 DEF PrintTurn
    <3>4. text' # None
      BY <3>3 DEF None
    <3>5. CharactersLeft' < CharactersLeft
      BY <2>1, <2>2, <3>3, <3>4 DEF CharactersLeft
    <3> QED
      BY <3>5, Lessens DEF Remaining
  <2>4. CASE PrintEnds
    <3>1. CharactersLeft' < CharactersLeft
      BY <2>1, <2>2, <2>4 DEF PrintEnds, CharactersLeft
    <3> QED
      BY <3>1, Lessens DEF Remaining
  <2> QED
    BY <1>4, <2>3, <2>4
<1>5. ~(fillRectangle \/ putImage \/ drawLine \/ drawRectangle \/ StartCircle("drawCircle")
         \/ StartCircle("fillCircle") \/ display_print)
  BY DEF fillRectangle, putImage, drawLine, drawRectangle, StartCircle, display_print, Begins
<1>6. ~display_begin
  BY <1>0 DEF display_begin, Quiet
<1>7. ~UNCHANGED vars
  OBVIOUS
<1> QED
  BY <1>0, <1>1, <1>2, <1>3, <1>4, <1>5, <1>6, <1>7, WhoActs

(***************************************************************************)
(* Every call of the driver comes to its end, whatever it draws: with each *)
(* of its steps less remains to be done.  Only print of a text that the    *)
(* index cannot count does not.                                            *)
(***************************************************************************)
THEOREM DrawingEnds == Spec => CallsEnd
<1>1. ASSUME DisplayInv, DisplayInv', [Next]_vars
      PROVE  [call # Nothing /\ call' = call /\ ~Endless =>
                /\ \A i \in DOMAIN Remaining : Remaining[i] \in Nat
                /\ Before(Remaining', Remaining)]_vars
  BY <1>1, RemainingType, StepsLessen
<1> QED
  BY <1>1, DisplayInvHolds, PTL DEF Spec, CallsEnd
=============================================================================
