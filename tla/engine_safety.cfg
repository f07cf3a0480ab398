CONSTANTS
  a = a
  b = b
  c = c
  Ids = {a, b, c}
  Budget = 12
  HighPct = 90
  ShedPct = 95
  Estimates = {}
  NoLane = NoLane
  PolicyOn = TRUE
  LaneChunk <- MCLaneChunk
  PrefillChunkSize = 2
  BatchAbove = 4
  LowThreshold = 0
  HighThreshold = 2
  PromptLen <- MCPromptLen
  MaxNew <- MCMaxNew
  LaneArg <- MCLaneArg
  UseSvd <- MCUseSvd
  BytesPerToken = 1
  MaxBatch = 2
  Distributed = FALSE
  PrefixLen = 2
  Forks <- MCForks
  MayRaise = FALSE
  MaxContext = 0
  Reuse = FALSE
SPECIFICATION Spec
INVARIANTS
  ContextExact
  FirstTokensInOrder
PROPERTIES
  SeatsInLaneOrder
  PrefillNeverStallsDecode
  StreamsSpec
