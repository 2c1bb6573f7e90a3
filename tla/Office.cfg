\* Every scene has a bound on what arrives, and rests when it is spent.
CONSTANTS
  MaxBackups = 2
  MaxKeep = 2
  DefaultKeep = 1
  MaxBackupTrouble = 1
  Bots = {b}
  Buyers = {u, v}
  Owners = {o}
  MaxRequests = 1
  MaxTenantTrouble = 1
  Sources = {s1, s2, s3}
  Recorders = {r1, r2, r3}
  Files = {1, 2, 3, 4}
  UpTasks = {w1, w2}
  AlbumTask = aw
  MaxFiles = 1
  MaxUploads = 4
  Media = {m1}
  Folders = {d1}
  Handlers = {h1, h2}
  MaxUpdates = 4
  FormGroups <- FormsInPairs
  Tickets = {k1, k2}
  DeskTasks = {t1, t2}
  MaxDesk = 5
  Fans = {x, y}
  Taps = {p, q}
  MaxTaps = 4
  Installs = {i1, i2}
  LiCalls = {c1, c2}
  GraceDays = 1
  MaxDays = 2
  MaxLiCalls = 3
  AuTasks = {a1, a2}
  Sids = {e1, e2}
  MaxFailures = 2
  MaxRequestsAu = 5
  Shops = {z}
  Platform = z
  MenuTasks = {n1, n2}
  MaxEdits = 1
  MaxShows = 2
  MaxTicks = 2
  AdIds = {1, 2}
  AdTasks = {j1, j2}
  AdsPerEvent = 2
  MaxAdLimit = 1
  MaxAdCalls = 4
  LogGroups = {g1, g2}
  LogTasks = {l1, l2}
  MaxLogCalls = 4
  Orders = {g}
  Merchants = {m}
  EnvKey = env
  MaxSaves = 2
SPECIFICATION OfficeSpec
INVARIANTS BackupsAddUp OneChargePerBot NumbersAreDense QuotaHolds OneEditPerPress
  LastWordDecides CountersMatchRows GraceIsKept EndedSessionsStayEnded EditsGoLive
  ImpressionsBounded LogsStayInTopic PaidOrdersSettle
CHECK_DEADLOCK FALSE
