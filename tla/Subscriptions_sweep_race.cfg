\* A renewal commits while the sweep is under way.
CONSTANTS
  Users = {u1}
  Sessions = {s1, s2}
  Preloading = {s1}
  Amounts = {1}
  MaxRows = 4
  NotLoaded = NotLoaded
  Unlocked = Unlocked
  Plans = {"plus"}
  Price <- PriceIsOne
  Days <- DayAndLife
  Never = Never
  MaxDay = 2
  MaxSubs = 2
  Parts = {"topup", "sweep"}
SPECIFICATION FairSpec
PROPERTY SweepSparesUnexpired
CHECK_DEADLOCK FALSE
