SPECIFICATION Spec
CONSTANTS
  MaxSide = 3
  MaxLogical = 4
  Bytes <- SomeBytes
  MaxText = 4
  MaxTile = 7
  PaletteMax = 2
  RunMax = 3
  TileSide = 2
  Rows <- SomeRows
  FrameTransforms = {"normal", "180"}
  Positions = {0, 3}
  LogicalWidths = {0, 2}
  MaxDisplays = 2
  MaxAdded = 2
  MaxCalls = 5
INVARIANTS
  ColoursPreserved
  DamageShown
  TextPreserved
  NoStalePixel
CHECK_DEADLOCK FALSE
