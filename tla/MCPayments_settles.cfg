CONSTANTS
  b1 = b1
  Bookings = {b1}
  p1 = p1  p2 = p2
  Payments = {p1, p2}
  w1 = w1  w2 = w2
  Requests = {w1}
  Sweeper = Sweeper
  NoWorker = NoWorker
  NoPayment = NoPayment
  Total = 1
  MaxTakings = 1
  MaxFaults = 1
  Ops = {"decline", "cancel", "refund", "gate"}
SPECIFICATION FairSpec
PROPERTIES PendingSettles TicketArrives
CHECK_DEADLOCK FALSE
