CONSTANTS
  Experts = {k1, k2, k3}
  NumSlots = 2
  Policy = "lfru"
  MaxHeat = 8
  NoSlot = NoSlot
  NoExpert = NoExpert
SPECIFICATION CacheSpec
INVARIANT HitServesItsWeights
