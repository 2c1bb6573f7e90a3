\* Double taps and renewals of one plan while the Redis lock does its job.
CONSTANTS
  Users = {u1}
  Sessions = {s1, s2, s3}
  Preloading = {s1, s2}
  Amounts = {1}
  MaxRows = 4
  NotLoaded = NotLoaded
  Unlocked = Unlocked
  Plans = {"plus"}
  Price <- PriceIsOne
  Days <- TwoDays
  Never = Never
  MaxDay = 2
  MaxSubs = 3
  Parts = {"topup"}
SPECIFICATION FairSpec
INVARIANTS NoTwinPurchases
PROPERTIES RenewalExtends EveryPurchaseEnds
CHECK_DEADLOCK FALSE
