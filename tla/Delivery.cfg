\* Two updates deliver and sell one file with one free slot while it is edited.
CONSTANTS
  s1 = s1
  s2 = s2
  u1 = u1
  u2 = u2
  m1 = m1
  Users = {u1, u2}
  Customers = {u1}
  Sessions = {s1, s2}
  Preloading = {s1, s2}
  Amounts = {1, 2}
  MaxRows = 2
  NotLoaded = NotLoaded
  Unlocked = Unlocked
  Files = {m1}
  FileOwner <- OwnerIsU2
  Nobody = Nobody
  Prices = {0, 1}
  Limits = {1, 2}
  NoLimit = NoLimit
  RedisDown = TRUE
  FreeUsers = {u1}
  Admins = {}
  Quota = 1
  MaxEdits = 1
  MaxBlind = 1
SPECIFICATION UserSpec
INVARIANTS NewestRowIsBalance FreshRowsChain ChargedOnce SlotsConserved NoOverDelivery QuotaOvershootBounded
CHECK_DEADLOCK FALSE
