\* Every entry point at once on a card payment and a gateway order.
CONSTANTS
  u1 = u1
  p1 = p1
  p2 = p2
  Users = {u1}
  Sessions = {s1, s2}
  Preloading = {s1}
  Amounts = {1}
  MaxRows = 3
  NotLoaded = NotLoaded
  Unlocked = Unlocked
  Payments = {p1, p2}
  CardPayments = {p1}
  Owner <- OwnerIsU1
  Amount <- EachIsOne
  Flows = {"bot_approve", "bot_reject", "panel_approve", "panel_reject", "api_approve", "pay_return", "bot_check", "panel_recheck", "panel_reconcile", "panel_refund", "spend"}
SPECIFICATION FairSpec
INVARIANTS RefundsAreBacked RecreditNeedsOverlap OnlyPaidOrdersAreCredited ReceiptsAreBacked
CHECK_DEADLOCK FALSE
