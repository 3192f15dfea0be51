CONSTANTS
  b1 = b1
  Bookings = {b1}
  p1 = p1  p2 = p2
  Payments = {p1}
  w1 = w1  w2 = w2
  Requests = {w1}
  Sweeper = Sweeper
  NoWorker = NoWorker
  NoPayment = NoPayment
  Total = 1
  MaxTakings = 0
  MaxFaults = 0
  Ops = {}
SPECIFICATION NoticeFairSpec
PROPERTY CaptureCredited
CHECK_DEADLOCK FALSE
