\* Two tenants' bots, whose cache of texts has no tenant.
CONSTANTS
  Shops = {a, b}
  Platform = a
  MenuTasks = {t1, t2}
  MaxEdits = 1
  MaxShows = 2
  MaxTicks = 3
SPECIFICATION BotMenuSpec
INVARIANT EditsGoLive
CHECK_DEADLOCK FALSE
