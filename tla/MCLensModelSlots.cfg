SPECIFICATION LensFairSpec
CONSTANTS
  Lenses = {l1, l2, l3, l4}
  Models = {m1, m2}
  l1 = l1
  m1 = m1
  m2 = m2
  modelOf <- OneElsewhere
  HostKey = HostKey
  HOST_CAP = 2
  MODEL_CAP = 1
INVARIANTS RunningHoldsItsSlots
PROPERTIES PoolsKeepTheirPromise EveryLensFinishes
