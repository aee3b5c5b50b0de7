CONSTANTS
  GT_MAXWIDTH = 3
  GT_MAXHEIGHT = 2
  Sizes <- TwoByTwo
  Chars = {"x"}
  Colors = {"wb"}
  DefaultColor = "wb"
  Renditions = {}
  Params = {0, 2}
  Ops = {"normal_input", "lf", "index_up", "set_margins"}
  MaxRun = 1
  MaxPending = 2
  InitModes = {"DEFERUPDATE", "NOEOLWRAP"}
SPECIFICATION LiveSpec
PROPERTY CatchesUp
