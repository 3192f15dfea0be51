CONSTANTS
  t1 = t1  t2 = t2  t3 = t3
  Tx = {t1, t2}
  NoTx = NoTx
  d1 = d1
  Days = {d1}
  noon = noon
  Times = {noon}
  LateTimes = {noon}
  NoTime = NoTime
  v1 = v1  v2 = v2
  Variants = {v1}
  Baskets <- SessionBasket
  NoItems = NoItems
  k1 = k1
  Keys = {}
  NoKey = NoKey
  MaxParty = 1
  SlotCapacity = 2
  ActivityCap = 2
  SessionCap = 1
  MaxUses = 0
  RefMaxTries = 0
  Ops = {"create"}
SPECIFICATION Spec
INVARIANT NoSessionOverbooked
CHECK_DEADLOCK FALSE
