SPECIFICATION ContainersSpec
CONSTANTS
  k1 = k1
  k2 = k2
  k3 = k3
  v1 = v1
  v2 = v2
  v3 = v3
  Key <- MCKey
  Hash <- MCHash
  Val = {a, b}
  InitialBuckets = 2
  Growth = 4
  MaxBuckets = 8
  None = None
  Value <- MCValue
  SetHash <- MCSetHash
  SetBuckets = 4
  SetGrowth = 2
  MaxSetBuckets = 8
  Null = Null
CONSTRAINT FewSlots
INVARIANT AddSucceeds
