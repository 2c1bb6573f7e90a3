\* A card payment and its refunds through entry points that read nothing first.
CONSTANTS
  u1 = u1
  p1 = p1
  p2 = p2
  Users = {u1}
  Sessions = {s1, s2, s3}
  Preloading = {}
  Amounts = {1}
  MaxRows = 3
  NotLoaded = NotLoaded
  Unlocked = Unlocked
  Payments = {p1}
  CardPayments = {p1}
  Owner <- OwnerIsU1
  Amount <- EachIsOne
  Flows = {"bot_approve", "bot_reject", "panel_refund", "spend"}
SPECIFICATION FairSpec
INVARIANT BooksMatchStatus
PROPERTIES ImplementsAccounts EveryRequestEnds
CHECK_DEADLOCK FALSE
