CONSTANTS
  GT_MAXWIDTH = 3
  GT_MAXHEIGHT = 3
  Sizes <- Narrow
  Chars = {"x"}
  Colors = {"wb"}
  DefaultColor = "wb"
  Renditions = {"BOLD"}
  Params = {0, 1, 2, 21, 22, 221, 222}
  Ops <- AllOps
  MaxRun = 2
  MaxPending = 2
  InitModes = {"DEFERUPDATE"}
  MAXPARAM = 2
  Reads <- Pieces
  CharOf <- X
  ColorOf <- White
  MaxReads = 4
SPECIFICATION MCSpec
INVARIANTS LinesDistinct
PROPERTY ImplementsScreen
CHECK_DEADLOCK FALSE
