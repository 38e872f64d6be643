SPECIFICATION Spec
CONSTANTS
  SCREEN_WIDTH = 16
  SCREEN_HEIGHT = 15
  PIXEL_CACHE_SIZE = 4
  FONT_WIDTH = 2
  FONT_HEIGHT = 3
  Font <- MCFont
  IndexSize = 4
  CoordinateSize = 64
  Requests <- MCRequests
  Side = 5
  Largest = 8
INVARIANTS
  RectangleFilled
  LinesStraight
  CirclesRound
  TextPrinted
PROPERTY CallsEnd
