----------------------------- MODULE MCDisplay ------------------------------
(***************************************************************************)
(* Constants for checking Display: lines in every direction within a 6 x 6 *)
(* square, rectangles with and without a remainder, the empty one too, and *)
(* circles of every centre and radius on a small screen; texts of two      *)
(* characters, up to and beyond the range of the index.                    *)
(***************************************************************************)
EXTENDS Display, TLC

CONSTANTS Side, Largest

Square0 == 0 .. Side

\* Two characters, two dots wide and three high.
MCFont ==
  [L |-> (0 :> {0, 1, 2} @@ 1 :> {2}), T |-> (0 :> {0} @@ 1 :> {0, 1, 2})]

Texts == UNION {[1 .. n -> DOMAIN MCFont] : n \in 0 .. IndexSize}

MCRequests ==
  [op : {"drawLine"}, x0 : Square0, y0 : Square0, x1 : Square0, y1 : Square0]
  \cup [op : {"fillRectangle", "putImage"}, x : {0, 3}, y : {1}, width : 0 .. Side, height : 0 .. Side]
  \cup [op : {"drawRectangle"}, x : {2}, y : {1}, w : Square0, h : Square0]
  \cup [op : {"drawCircle", "fillCircle"}, x0 : 0 .. SCREEN_WIDTH, y0 : 0 .. SCREEN_HEIGHT,
        radius : 0 .. Largest]
  \cup [op : {"print"}, x : {0, 3}, y : {2}, text : Texts]
=============================================================================
