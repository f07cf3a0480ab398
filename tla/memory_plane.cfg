CONSTANTS
  Experts = {k1, k2, k3, k4}
  NumSlots = 3
  Policy = "lru"
  MaxHeat = 1
  NoSlot = NoSlot
  NoExpert = NoExpert
  Requests = {r1, r2}
  MaxPages = 3
  SlotBytes = 3
  PageBytes = 2
  MinSlots = 1
  MaxSlots = 3
  MinPages = 1
  MaxKVPages = 3
  ReleaseStep = 2
  MaxNeeded = 2
SPECIFICATION PlaneSpec
SYMMETRY ExpertsAndRequests
INVARIANTS
  HitServesItsWeights
  RoomIsUsable
  PagesAccounted
PROPERTIES
  PinnedStay
  BytesAreTraded
