CONSTANTS
  GT_MAXWIDTH = 3
  GT_MAXHEIGHT = 3
  TXT_QUEUE = 4
  Sizes <- OneSize
  Chars = {"x"}
  Colors = {"wb"}
  DefaultColor = "wb"
  Renditions = {}
  Params = {0}
  Ops <- WholeScreenOps
  MaxRun = 1
  MaxPending = 4
  MaxHost = 5
  InitModes = {"DEFERUPDATE", "NOEOLWRAP"}
SPECIFICATION MCSpec
PROPERTY ImplementsDisplay
