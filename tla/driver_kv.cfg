CONSTANTS
  NumLayers = 3
  StageCounts = {0, 1, 2, 3, 4, 5, 6}
  MaxPass = 3
  MaxFed = 5
SPECIFICATION DriverSpec
INVARIANT DriverIsTheModel
CHECK_DEADLOCK FALSE
