CONSTANTS
  GT_MAXWIDTH = 4
  GT_MAXHEIGHT = 4
  Sizes <- TwoSizes
  Chars = {"x"}
  Colors = {"wb"}
  DefaultColor = "wb"
  Renditions = {"BOLD"}
  Params = {0, 2, 3, 5}
  Ops <- ScreenOps
  MaxRun = 2
  MaxHost = 3
  MaxPending = 2
  InitModes = {"DESTRUCTBS"}
SPECIFICATION MCSpec
INVARIANTS TypeOK IndicesInStore NoUninitShown DisplayTracks WrappedRunsAreOneByOne
PROPERTY ShownAfterInput
CHECK_DEADLOCK FALSE
