CONSTANTS
  p1 = p1  p2 = p2  p3 = p3  x1 = x1  x2 = x2  g1 = g1
  Requests = {p1, p2, p3}
  NoRequest = NoRequest
  People = {x1, x2}
  NoPerson = NoPerson
  MaxParty = 2
  MaxDay = 1
  Options <- MCOptions
  Offer <- MCOffer
  EntryPrice <- MCEntry
  Coupon <- MCCoupon
  Parties <- MCParties
  Baskets <- MCBaskets
  Counts <- MCCounts
  Adjustments <- MCAdjustments
  Seasons = 2
  MaxEdits = 2
  Sweeps = {x1, x2}
  Guests = {g1}
  LastDay = 2
  Operators = {x1, x2}
  Activities = {"zip", "quad"}
  Notes = {0, 1}
  Visitors = {x1, x2}
  usd = usd  eur = eur  gbp = gbp
  Currencies = {usd, eur, gbp}
  Usd = usd
  Eur = eur
  Retry = 1
  Refresh = 2
  MaxDate = 2
  MaxClock = 4
  Readers = {x1, x2}
  CacheAge = 2
  MaxWait = 1
  MaxTick = 6
  Rides <- MCRides
  Items <- MCItems
  lineActivities <- MCActivities
  Limits <- MCLimits
  NeedWaiver = {"zip", "buggy"}
  GateParties <- MCGateParties
  Participants <- MCParticipants
  MaxLines = 2
SPECIFICATION DaySpec
SYMMETRY Symmetry
INVARIANT CouponWins
CHECK_DEADLOCK FALSE
