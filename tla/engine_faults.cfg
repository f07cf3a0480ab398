CONSTANTS
  a = a
  b = b
  c = c
  Ids = {a, b, c}
  Budget = 6
  HighPct = 90
  ShedPct = 95
  Estimates = {}
  NoLane = NoLane
  PolicyOn = TRUE
  LaneChunk <- MCLaneChunk
  PrefillChunkSize = 2
  BatchAbove = 4
  LowThreshold = 0
  HighThreshold = 2
  PromptLen <- MCPromptLenEmpty
  MaxNew <- MCMaxNewZero
  LaneArg <- MCLaneArgTwo
  UseSvd <- MCUseSvdOne
  BytesPerToken = 1
  MaxBatch = 2
  Distributed = FALSE
  PrefixLen = 2
  Forks = {}
  MayRaise = TRUE
  MaxContext = 5
  Reuse = FALSE
SPECIFICATION Spec
INVARIANTS
  StreamExact
  OnePlace
  ChargedAreLive
