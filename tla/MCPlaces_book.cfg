CONSTANTS
  t1 = t1  t2 = t2  t3 = t3
  Tx = {t1, t2, t3}
  NoTx = NoTx
  d1 = d1
  Days = {d1}
  noon = noon
  Times = {noon}
  LateTimes = {noon}
  NoTime = NoTime
  v1 = v1  v2 = v2
  Variants = {v1}
  Baskets <- SmallBaskets
  NoItems = NoItems
  k1 = k1
  Keys = {k1}
  NoKey = NoKey
  MaxParty = 1
  SlotCapacity = 2
  ActivityCap = 1
  SessionCap = 1
  MaxUses = 0
  RefMaxTries = 1
  Ops = {"create", "hold", "edit", "calendar", "checkIn", "postpone"}
SPECIFICATION Spec
INVARIANTS
  TypeOK SlotWithinCapacity HoldHonoured CapsKept OneBookingPerKey
PROPERTY ImplementsLedger
SYMMETRY Symmetry
CHECK_DEADLOCK FALSE
