CONSTANTS
  t1 = t1  t2 = t2  t3 = t3
  Tx = {t1, t2, t3}
  NoTx = NoTx
  d1 = d1
  Days = {d1}
  noon = noon
  Times = {noon}
  LateTimes = {noon}
  NoTime = NoTime
  v1 = v1  v2 = v2
  Variants = {v1}
  Baskets <- NoBasket
  NoItems = NoItems
  k1 = k1
  Keys = {}
  NoKey = NoKey
  MaxParty = 1
  SlotCapacity = 2
  ActivityCap = 3
  SessionCap = 3
  MaxUses = 1
  RefMaxTries = 0
  Ops = {"create", "hold", "edit", "coupon"}
SPECIFICATION FairSpec
INVARIANT CouponWithinMax
PROPERTY EveryRequestEnds
CHECK_DEADLOCK FALSE
