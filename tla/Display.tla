------------------------------ MODULE Display -------------------------------
(***************************************************************************)
(* st7789_display/src/display.c: drawing on the colour display over SPI.   *)
(* The loops of the drawing functions, one action per turn, and the panel  *)
(* as the driver uses it: a window is opened and pixels fill it row by     *)
(* row.  Of colours only that of print's characters is kept: a cell is     *)
(* painted or not, and painted in ink or not.                              *)
(***************************************************************************)
EXTENDS Integers, Sequences, FiniteSets

CONSTANTS
  SCREEN_WIDTH, SCREEN_HEIGHT,
  PIXEL_CACHE_SIZE,             \* pixels sent in one block
  FONT_WIDTH, FONT_HEIGHT,
  Font,                         \* Font5x7: per character, bits set in each column
  IndexSize,                    \* values of print's Index; 2^8 in the code
  CoordinateSize,               \* values of a coordinate; 2^16 in the code
  Requests                      \* drawing calls explored

ASSUME DisplayAssumption ==
  /\ SCREEN_WIDTH \in Nat /\ SCREEN_HEIGHT \in Nat
  /\ PIXEL_CACHE_SIZE \in Nat \ {0}
  /\ FONT_WIDTH \in Nat \ {0} /\ FONT_HEIGHT \in Nat \ {0}
  /\ \A c \in DOMAIN Font : Font[c] \in [0 .. FONT_WIDTH - 1 -> SUBSET (0 .. FONT_HEIGHT - 1)]
  /\ IndexSize \in Nat \ {0} /\ CoordinateSize \in Nat \ {0}
  /\ SCREEN_WIDTH <= CoordinateSize /\ SCREEN_HEIGHT <= CoordinateSize

\* Coordinates and sizes are unsigned; a rectangle, and a text that the index
\* can count, ends before the coordinates wrap.
ASSUME RequestsAssumption ==
  \A c \in Requests :
    /\ c.op \in {"fillRectangle", "putImage"} =>
         /\ {c.x, c.y, c.width, c.height} \subseteq Nat
         /\ c.x + c.width <= CoordinateSize /\ c.y + c.height <= CoordinateSize
    /\ c.op = "drawLine" => {c.x0, c.y0, c.x1, c.y1} \subseteq Nat
    /\ c.op = "drawRectangle" =>
         /\ {c.x, c.y, c.w, c.h} \subseteq Nat
         /\ c.x + c.w < CoordinateSize /\ c.y + c.h < CoordinateSize
    /\ c.op \in {"drawCircle", "fillCircle"} => {c.x0, c.y0, c.radius} \subseteq Nat
    /\ c.op = "print" =>
         /\ {c.x, c.y} \subseteq Nat /\ c.text \in Seq(DOMAIN Font)
         /\ Len(c.text) < IndexSize => c.x + (Len(c.text) * (FONT_WIDTH + 2)) < CoordinateSize

VARIABLES
  display,   \* "off" until display_begin, then "ready" or "failed"
  call,      \* the drawing call in progress; Nothing between calls
  fill,      \* fillRectangle's blockcount and pixelcount
  lines,     \* calls of drawLine still to come, in this turn of the caller
  line,      \* variables of the running line loop, or None
  circle,    \* variables of the running circle loop, or None
  text,      \* variables of the running print loop, or None
  \* the panel
  aperture,  \* the open window
  sent,      \* pixels sent since it was opened
  painted,   \* cells the call has painted
  ink        \* cells the call has painted in print's ForeColour

loops == <<fill, lines, line, circle>>
panel == <<aperture, sent, painted>>
vars == <<display, call, loops, text, panel, ink>>

Nothing == [op |-> "none"]
None == [kind |-> "none"]
NoFill == [blocks |-> 0, pixels |-> 0]

Init ==
  /\ display = "off" /\ call = Nothing
  /\ fill = NoFill /\ lines = <<>> /\ line = None /\ circle = None
  /\ text = None
  /\ aperture = <<0, 0, 0, 0>> /\ sent = 0 /\ painted = {} /\ ink = {}

(***************************************************************************)
(* The panel                                                               *)
(***************************************************************************)
\* The cell that the k-th pixel after the opening of a window goes to.
Cell(window, k) ==
  LET width == window[3] - window[1] + 1
      height == window[4] - window[2] + 1
  IN  <<window[1] + (k % width), window[2] + ((k \div width) % height)>>

SendPixels(n) ==
  /\ sent' = sent + n
  /\ painted' = painted \cup {Cell(aperture, k) : k \in sent .. sent + n - 1}
  /\ UNCHANGED aperture

\* display_putPixel opens two by two cells and sends one pixel; the window
\* that stays open is that of the last of the pixels.
PutPixels(ps) ==
  LET window(p) == <<p[1], p[2], p[1] + 1, p[2] + 1>>
  IN  /\ aperture' = window(ps[Len(ps)])
      /\ sent' = 1
      /\ painted' = painted \cup {Cell(window(ps[k]), 0) : k \in DOMAIN ps}

(***************************************************************************)
(* fillRectangle and putImage                                              *)
(***************************************************************************)
Begins(op) ==
  /\ display = "ready" /\ call = Nothing
  /\ call' \in {c \in Requests : c.op = op}

Coordinate(n) == n % CoordinateSize

Window(c) == <<c.x, c.y, Coordinate(c.x + c.width - 1), Coordinate(c.y + c.height - 1)>>

\* Mutant: the pixels after the last full block are forgotten.
FillForgetsRest(c) ==
  /\ aperture' = Window(c) /\ sent' = 0 /\ painted' = {}
  /\ fill' = [blocks |-> (c.height * c.width) \div PIXEL_CACHE_SIZE, pixels |-> 0]
  /\ UNCHANGED <<lines, line, circle>>

\* fillRectangle up to its loops.
StartFill(c) ==
  /\ aperture' = Window(c) /\ sent' = 0 /\ painted' = {}
  /\ LET pixelcount == c.height * c.width
     IN  fill' = [blocks |-> pixelcount \div PIXEL_CACHE_SIZE,
                  pixels |-> pixelcount % PIXEL_CACHE_SIZE]
  /\ UNCHANGED <<lines, line, circle>>

fillRectangle == Begins("fillRectangle") /\ StartFill(call')

SendBlock ==
  /\ fill.blocks > 0
  /\ fill' = [fill EXCEPT !.blocks = @ - 1]
  /\ SendPixels(PIXEL_CACHE_SIZE)
  /\ UNCHANGED <<call, lines, line, circle>>

SendRest ==
  /\ fill.blocks = 0 /\ fill.pixels > 0
  /\ fill' = [fill EXCEPT !.pixels = @ - 1]
  /\ SendPixels(1)
  /\ UNCHANGED <<call, lines, line, circle>>

\* display_putImage: the whole image is sent at once.
SendImage(window, pixels) ==
  /\ aperture' = window /\ sent' = pixels
  /\ painted' = painted \cup {Cell(window, k) : k \in 0 .. pixels - 1}

putImage ==
  /\ Begins("putImage")
  /\ SendImage(Window(call'), call'.width * call'.height)
  /\ UNCHANGED loops

(***************************************************************************)
(* Lines.  The loops for low and high slopes are the same with the axes    *)
(* exchanged: u is the axis walked along, v the other one.                 *)
(***************************************************************************)
iabs(n) == IF n < 0 THEN -n ELSE n

\* display_drawLineLowSlope, display_drawLineHighSlope up to their loops.
Slope(kind, u0, v0, u1, v1) ==
  [kind |-> kind, u |-> u0, v |-> v0, last |-> u1,
   du |-> u1 - u0, dv |-> iabs(v1 - v0), step |-> IF v1 < v0 THEN -1 ELSE 1,
   D |-> (2 * iabs(v1 - v0)) - (u1 - u0)]

\* display_drawLine of <<x0, y0, x1, y1>>.
Line(l) ==
  IF iabs(l[4] - l[2]) < iabs(l[3] - l[1])
  THEN IF l[1] > l[3] THEN Slope("low", l[3], l[4], l[1], l[2])
                      ELSE Slope("low", l[1], l[2], l[3], l[4])
  ELSE IF l[2] > l[4] THEN Slope("high", l[4], l[3], l[2], l[1])
                      ELSE Slope("high", l[2], l[1], l[4], l[3])

drawLine ==
  /\ Begins("drawLine")
  /\ lines' = <<<<call'.x0, call'.y0, call'.x1, call'.y1>>>>
  /\ painted' = {}
  /\ UNCHANGED <<fill, line, circle, aperture, sent>>

drawRectangle ==
  /\ Begins("drawRectangle")
  /\ LET x == call'.x  y == call'.y
         x1 == Coordinate(x + call'.w)  y1 == Coordinate(y + call'.h)
     IN  lines' = <<<<x, y, x1, y>>, <<x, y, x, y1>>, <<x1, y, x1, y1>>, <<x, y1, x1, y1>>>>
  /\ painted' = {}
  /\ UNCHANGED <<fill, line, circle, aperture, sent>>

NextLine ==
  /\ line = None /\ lines # <<>>
  /\ line' = Line(Head(lines)) /\ lines' = Tail(lines)
  /\ UNCHANGED <<call, fill, circle, panel>>

\* Mutant: D is corrected by the difference of the wrong axis.
LineTurnSwapped ==
  /\ line # None /\ line.u <= line.last
  /\ PutPixels(<<IF line.kind = "low" THEN <<line.u, line.v>> ELSE <<line.v, line.u>>>>)
  /\ line' = [line EXCEPT
                !.u = @ + 1,
                !.v = IF line.D > 0 THEN @ + line.step ELSE @,
                !.D = @ + (2 * line.dv) - (IF line.D > 0 THEN 2 * line.dv ELSE 0)]
  /\ UNCHANGED <<call, fill, lines, circle>>

LineTurn ==
  /\ line # None /\ line.u <= line.last
  /\ PutPixels(<<IF line.kind = "low" THEN <<line.u, line.v>> ELSE <<line.v, line.u>>>>)
  /\ line' = [line EXCEPT
                !.u = @ + 1,
                !.v = IF line.D > 0 THEN @ + line.step ELSE @,
                !.D = @ + (2 * line.dv) - (IF line.D > 0 THEN 2 * line.du ELSE 0)]
  /\ UNCHANGED <<call, fill, lines, circle>>

LineEnds ==
  /\ line # None /\ line.u > line.last
  /\ line' = None
  /\ UNCHANGED <<call, fill, lines, circle, panel>>

(***************************************************************************)
(* Circles                                                                 *)
(***************************************************************************)
\* Mutant: the lower edge is not tested.
OffScreenExceptBelow(c) ==
  \/ c.radius > c.x0 \/ c.radius > c.y0
  \/ c.x0 + c.radius > SCREEN_WIDTH

\* "don't draw even parially off-screen circles"
OffScreen(c) ==
  \/ c.radius > c.x0 \/ c.radius > c.y0
  \/ c.x0 + c.radius > SCREEN_WIDTH \/ c.y0 + c.radius > SCREEN_HEIGHT

StartCircle(op) ==
  /\ Begins(op)
  /\ circle' = IF OffScreen(call') THEN None
               ELSE [kind |-> op, x |-> call'.radius - 1, y |-> 0, dx |-> 1, dy |-> 1,
                     err |-> 1 - (2 * call'.radius)]
  /\ painted' = {}
  /\ UNCHANGED <<fill, lines, line, aperture, sent>>

drawCircle == StartCircle("drawCircle")
fillCircle == StartCircle("fillCircle")

\* Mutant: err < 0 for err <= 0.
TurnedSticks(c) ==
  LET up == IF c.err < 0
            THEN [c EXCEPT !.y = @ + 1, !.err = @ + c.dy, !.dy = @ + 2] ELSE c
  IN  IF up.err > 0
      THEN [up EXCEPT !.x = @ - 1, !.dx = @ + 2,
                      !.err = @ + up.dx + 2 - (2 * call.radius)]
      ELSE up

\* The end of a turn: y grows, then x shrinks, each if the error says so.
Turned(c) ==
  LET up == IF c.err <= 0
            THEN [c EXCEPT !.y = @ + 1, !.err = @ + c.dy, !.dy = @ + 2] ELSE c
  IN  IF up.err > 0
      THEN [up EXCEPT !.x = @ - 1, !.dx = @ + 2,
                      !.err = @ + up.dx + 2 - (2 * call.radius)]
      ELSE up

\* The eight pixels of a turn, in the order they are put.
Octants(x0, y0, x, y) ==
  <<<<x0 + x, y0 + y>>, <<x0 + y, y0 + x>>, <<x0 - y, y0 + x>>, <<x0 - x, y0 + y>>,
    <<x0 - x, y0 - y>>, <<x0 - y, y0 - x>>, <<x0 + y, y0 - x>>, <<x0 + x, y0 - y>>>>

RingTurn ==
  /\ circle.kind = "drawCircle" /\ circle.x >= circle.y
  /\ PutPixels(Octants(call.x0, call.y0, circle.x, circle.y))
  /\ circle' = Turned(circle)
  /\ UNCHANGED <<call, fill, lines, line>>

DiscTurn ==
  /\ circle.kind = "fillCircle" /\ circle.x >= circle.y
  /\ line = None /\ lines = <<>>
  /\ LET x0 == call.x0  y0 == call.y0  x == circle.x  y == circle.y
     IN  lines' = <<<<x0 - x, y0 + y, x0 + x, y0 + y>>, <<x0 - y, y0 + x, x0 + y, y0 + x>>,
                    <<x0 - x, y0 - y, x0 + x, y0 - y>>, <<x0 - y, y0 - x, x0 + y, y0 - x>>>>
  /\ circle' = Turned(circle)
  /\ UNCHANGED <<call, fill, line, panel>>

CircleEnds ==
  /\ circle # None /\ circle.x < circle.y
  /\ line = None /\ lines = <<>>
  /\ circle' = None
  /\ UNCHANGED <<call, fill, lines, line, panel>>

(***************************************************************************)
(* Text                                                                    *)
(***************************************************************************)
display_print ==
  /\ Begins("print")
  /\ text' = [kind |-> "text", index |-> 0, x |-> call'.x]
  /\ UNCHANGED <<loops, panel, ink>>

\* Mutant: the image is laid out column by column.
TextBoxByColumns(character) ==
  {k \in 0 .. (FONT_WIDTH * FONT_HEIGHT) - 1 :
     (k % FONT_HEIGHT) \in Font[character][k \div FONT_HEIGHT]}

\* The places in TextBox that get ForeColour: the font holds columns, and a
\* set bit is a dot in the row of its number.
TextBox(character) ==
  {k \in 0 .. (FONT_WIDTH * FONT_HEIGHT) - 1 :
     (k \div FONT_WIDTH) \in Font[character][k % FONT_WIDTH]}

\* A turn draws one character and moves on; Index and x wrap.
PrintTurn ==
  /\ text # None /\ text.index < Len(call.text)
  /\ LET window == <<text.x, call.y, text.x + FONT_WIDTH - 1, call.y + FONT_HEIGHT - 1>>
     IN  /\ SendImage(window, FONT_WIDTH * FONT_HEIGHT)
         /\ ink' = ink \cup {Cell(window, k) : k \in TextBox(call.text[text.index + 1])}
  /\ text' = [text EXCEPT !.index = (@ + 1) % IndexSize,
                          !.x = Coordinate(@ + FONT_WIDTH + 2)]
  /\ UNCHANGED <<call, loops>>

PrintEnds ==
  /\ text # None /\ text.index >= Len(call.text)
  /\ text' = None
  /\ UNCHANGED <<call, loops, panel, ink>>

(***************************************************************************)
(* The specification                                                       *)
(***************************************************************************)
Blackout ==
  [op |-> "fillRectangle", x |-> 0, y |-> 0, width |-> SCREEN_WIDTH, height |-> SCREEN_HEIGHT]

\* After its fixed sequence of commands it paints the screen black; each
\* device it needs may be missing.
display_begin ==
  /\ display = "off"
  /\ \/ /\ display' = "ready" /\ call' = Blackout /\ StartFill(Blackout)
     \/ /\ display' = "failed"
        /\ UNCHANGED <<call, loops, panel>>
  /\ UNCHANGED <<text, ink>>

\* main stops in an empty loop.
Hang == display = "failed" /\ UNCHANGED vars

Drawn == fill = NoFill /\ lines = <<>> /\ line = None /\ circle = None /\ text = None

\* The window that stays open on the panel is forgotten: every call opens its
\* own before it sends a pixel.
Return ==
  /\ call # Nothing /\ Drawn
  /\ call' = Nothing
  /\ aperture' = <<0, 0, 0, 0>> /\ sent' = 0 /\ painted' = {} /\ ink' = {}
  /\ UNCHANGED <<display, loops, text>>

Shapes ==
  \/ fillRectangle \/ putImage \/ drawLine \/ drawRectangle \/ drawCircle \/ fillCircle
  \/ SendBlock \/ SendRest \/ NextLine \/ LineTurn \/ LineEnds
  \/ RingTurn \/ DiscTurn \/ CircleEnds

Next ==
  \/ Shapes /\ UNCHANGED <<display, text, ink>>
  \/ (display_print \/ PrintTurn \/ PrintEnds) /\ UNCHANGED display
  \/ display_begin \/ Hang \/ Return

Spec == Init /\ [][Next]_vars

(***************************************************************************)
(* Properties                                                              *)
(***************************************************************************)
Complete(op) == call.op = op /\ Drawn

(***************************************************************************)
(* Blocks and remainder together (lines 179-212) are as many pixels as the *)
(* window has cells: each cell is painted once and none is left out.       *)
(***************************************************************************)
RectangleFilled ==
  Complete("fillRectangle") \/ Complete("putImage") =>
    /\ painted = (call.x .. call.x + call.width - 1) \X (call.y .. call.y + call.height - 1)
    /\ sent = Cardinality(painted)

\* Cells at most half a cell away from the ideal line from p to q, measured
\* along the axis the line is shorter in.
Near(p, q, c) ==
  LET dx == q[1] - p[1]  dy == q[2] - p[2]
      off == iabs(((c[1] - p[1]) * dy) - ((c[2] - p[2]) * dx))
  IN  2 * off <= (IF iabs(dx) > iabs(dy) THEN iabs(dx) ELSE iabs(dy))

Between(a, b) == (IF a < b THEN a ELSE b) .. (IF a < b THEN b ELSE a)

\* One cell for each step along the longer axis, near the ideal line.
Straight(p, q, cells) ==
  /\ p \in cells /\ q \in cells
  /\ \A c \in cells : c \in Between(p[1], q[1]) \X Between(p[2], q[2]) /\ Near(p, q, c)
  /\ IF iabs(q[1] - p[1]) > iabs(q[2] - p[2])
     THEN \A x \in Between(p[1], q[1]) : Cardinality({c \in cells : c[1] = x}) = 1
     ELSE \A y \in Between(p[2], q[2]) : Cardinality({c \in cells : c[2] = y}) = 1

(***************************************************************************)
(* In all eight directions and whichever end comes first (lines 239-318),  *)
(* a line has both its ends, no gap, and only cells next to the ideal      *)
(* line; a rectangle is its four sides.                                    *)
(***************************************************************************)
LinesStraight ==
  /\ Complete("drawLine") => Straight(<<call.x0, call.y0>>, <<call.x1, call.y1>>, painted)
  /\ Complete("drawRectangle") =>
       painted = ((call.x .. call.x + call.w) \X {call.y, call.y + call.h})
                   \cup ({call.x, call.x + call.w} \X (call.y .. call.y + call.h))

Square(n) == n * n
Distance2(c) == Square(c[1] - call.x0) + Square(c[2] - call.y0)
Screen == (0 .. SCREEN_WIDTH - 1) \X (0 .. SCREEN_HEIGHT - 1)

(***************************************************************************)
(* A circle that is drawn at all (lines 326-409) never leaves the screen,  *)
(* stays between its radius and one less, has a cell in every row and      *)
(* column it crosses, and a filled one has no hole.                        *)
(***************************************************************************)
CirclesRound ==
  call.op \in {"drawCircle", "fillCircle"} =>
    /\ painted \subseteq Screen
    /\ \A c \in painted : Distance2(c) <= Square(call.radius)
    /\ call.op = "drawCircle" => \A c \in painted : Distance2(c) >= Square(call.radius - 1)
    /\ Drawn /\ ~OffScreen(call) /\ call.radius > 0 =>
         /\ \A d \in -(call.radius - 1) .. call.radius - 1 :
              /\ \E c \in painted : c[1] = call.x0 + d
              /\ \E c \in painted : c[2] = call.y0 + d
         /\ call.op = "fillCircle" =>
              {c \in Screen : Distance2(c) <= Square(call.radius - 1)} \subseteq painted

\* The left edge of the k-th character.
Left(k) == call.x + ((k - 1) * (FONT_WIDTH + 2))

(***************************************************************************)
(* When print returns (lines 410-443), every character stands upright in   *)
(* its own box, in the order of the text; and it returns only from texts   *)
(* shorter than the range of its eight-bit Index: from any other it never  *)
(* comes back.                                                             *)
(***************************************************************************)
TextPrinted ==
  Complete("print") =>
    LET characters == DOMAIN call.text
        boxes == {<<Left(k) + col, call.y + row>> :
                    k \in characters, col \in 0 .. FONT_WIDTH - 1, row \in 0 .. FONT_HEIGHT - 1}
    IN  /\ painted = boxes
        /\ ink = {b \in boxes :
                    \E k \in characters, col \in 0 .. FONT_WIDTH - 1 :
                      b[1] = Left(k) + col /\ (b[2] - call.y) \in Font[call.text[k]][col]}
        /\ Len(call.text) < IndexSize

(***************************************************************************)
(* How far a call has still to go: characters, turns of a circle's loop,   *)
(* lines to be drawn in this turn, turns of the running line's loop, and   *)
(* blocks and pixels of a rectangle.                                       *)
(***************************************************************************)
CharactersLeft == IF text = None THEN 0 ELSE Len(call.text) - text.index + 1
TurnsLeft == IF circle = None THEN 0 ELSE IF circle.x < circle.y THEN 1 ELSE circle.x - circle.y + 2
CellsLeft == IF line = None THEN 0 ELSE IF line.u > line.last THEN 1 ELSE line.last - line.u + 2

Remaining == <<CharactersLeft, TurnsLeft, Len(lines), CellsLeft, fill.blocks + fill.pixels>>

\* The order of a dictionary: naturals in it cannot descend for ever.
Before(r, s) == \E i \in DOMAIN s : r[i] < s[i] /\ \A j \in 1 .. i - 1 : r[j] = s[j]

\* The texts that print never returns from.
Endless == call.op = "print" /\ Len(call.text) >= IndexSize

(***************************************************************************)
(* No loop of the driver (lines 179-443) can turn for ever: with every     *)
(* step of a call less remains to be done, though one turn of fillCircle   *)
(* brings four new lines.  Only a text that the index cannot count is      *)
(* excepted.                                                               *)
(***************************************************************************)
CallsEnd ==
  [][call # Nothing /\ call' = call /\ ~Endless =>
       /\ \A i \in DOMAIN Remaining : Remaining[i] \in Nat
       /\ Before(Remaining', Remaining)]_vars
=============================================================================
