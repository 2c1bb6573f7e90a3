\* The gateway redirects the customer back twice at the same time.
CONSTANTS
  u1 = u1
  p1 = p1
  p2 = p2
  Users = {u1}
  Sessions = {s1, s2}
  Preloading = {}
  Amounts = {1}
  MaxRows = 3
  NotLoaded = NotLoaded
  Unlocked = Unlocked
  Payments = {p1}
  CardPayments = {}
  Owner <- OwnerIsU1
  Amount <- EachIsOne
  Flows = {"pay_return"}
SPECIFICATION FairSpec
PROPERTY NeverRecredited
CHECK_DEADLOCK FALSE
