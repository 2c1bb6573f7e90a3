\* The worker rests when there is nothing to do.
CONSTANTS
  Chats = {a, b}
  MaxJobs = 2
  PageSize = 1
  MaxMishaps = 1
  MaxRetries = 1
  s = s
  t = t
  g = g
  h = h
  Tenants = {s, t}
  Deletions <- DeletionsOfTwo
  MaxDeletionTrouble = 1
  Groups = {g, h}
  Parts <- PartsOfTwo
  MaxAlbumTrouble = 1
SPECIFICATION WorkerSpec
INVARIANTS NoUnexplainedRepeats NobodyForgotten
PROPERTIES EveryJobEnds DeletionsAreTried EveryPartIsUsedOnce
CHECK_DEADLOCK FALSE
