CONSTANTS
  Experts = {k1, k2, k3}
  NumSlots = 2
  Policy = "lru"
  MaxHeat = 1
  NoSlot = NoSlot
  NoExpert = NoExpert
  LfruKeys = {k1, k2, k3}
  LfruSlots = 2
  CandidateHeats = {1}
  MaxLfruHeat = 4
  NoKey = NoKey
SPECIFICATION BackendSpec
PROPERTY FetchedAreServed
