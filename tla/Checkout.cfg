\* Nobody has to order, pay or refund: the shop may rest.
SPECIFICATION CheckoutSpec
CONSTANTS
  Orders = {o}
  Charges = {c}
  Tasks = {t1, t2}
  MaxTasks = 3
  MaxTrouble = 1
INVARIANTS
  OneDepositPerCharge
  DepositsAreKept
  RefundSticks
PROPERTY
  EveryCheckoutEnds
CHECK_DEADLOCK FALSE
