\* Purchases, deposits, the expiry sweep and the panel at once.
CONSTANTS
  Users = {u1}
  Sessions = {s1, s2}
  Preloading = {s1}
  Amounts = {1}
  MaxRows = 2
  NotLoaded = NotLoaded
  Unlocked = Unlocked
  Plans = {"plus", "max"}
  Price <- PriceIsOne
  Days <- DayAndLife
  Never = Never
  MaxDay = 2
  MaxSubs = 2
  Parts = {"topup", "sweep", "panel", "slow", "redis_down"}
SPECIFICATION FairSpec
PROPERTIES PlansStayBacked ExpiredIsDowngraded
CHECK_DEADLOCK FALSE
