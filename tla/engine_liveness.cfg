CONSTANTS
  a = a
  b = b
  c = c
  Ids = {a, b, c}
  Budget = 100
  HighPct = 90
  ShedPct = 95
  Estimates = {}
  NoLane = NoLane
  PolicyOn = TRUE
  LaneChunk <- MCLaneChunk
  PrefillChunkSize = 2
  BatchAbove = 4
  LowThreshold = 0
  HighThreshold = 2
  PromptLen <- MCPromptLenShort
  MaxNew <- MCMaxNewShort
  LaneArg <- MCLaneArgTwo
  UseSvd <- MCUseSvdOne
  BytesPerToken = 12
  MaxBatch = 2
  Distributed = FALSE
  PrefixLen = 2
  Forks <- MCForkOne
  MayRaise = FALSE
  MaxContext = 0
  Reuse = TRUE
SPECIFICATION FairSpec
PROPERTIES
  UrgentServed
  AcceptedFinish
  StreamsEnd
