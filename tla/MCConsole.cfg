CONSTANTS
  VIEW_WIDTH = 3
  VIEW_HEIGHT = 2
  Glyph = {a, b}
  NUL = NUL
  Color = {gray, red}
SPECIFICATION Spec
INVARIANTS TailBlank CursorShown
PROPERTY IsTextScreen
