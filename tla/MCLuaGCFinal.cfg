CONSTANTS
  Objects = {main, t, a, b, c}
  Main = main
  Table = t
  Width = 1
  Depth = 3
SPECIFICATION FinalSpec
PROPERTY OnlyDeadAreFinalized
