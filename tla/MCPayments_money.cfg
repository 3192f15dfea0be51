CONSTANTS
  b1 = b1
  Bookings = {b1}
  p1 = p1  p2 = p2
  Payments = {p1, p2}
  w1 = w1  w2 = w2
  Requests = {w1, w2}
  Sweeper = Sweeper
  NoWorker = NoWorker
  NoPayment = NoPayment
  Total = 2
  MaxTakings = 1
  MaxFaults = 1
  Ops = {"decline", "refund"}
SPECIFICATION Spec
INVARIANTS TypeOK PaidIsLedger CreditBacked
PROPERTY ImplementsAccounts
SYMMETRY Symmetry
CHECK_DEADLOCK FALSE
