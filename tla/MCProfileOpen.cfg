CONSTANTS
  Retirers = {q1}
  Updaters = {}
  Users = {q4}
  Names = {n, r1, r2, k}
  RetiredOf <- MCRetiredOf
  InUse = {n, k}
  Paths = {d, e, f}
  NewPaths = {e, f}
  Stores = {a1, a2, a3}
  Settings = {t1}
  Keepers = {z1}
  Offered <- NoneOffered
  Starts <- Declared
  StartDirs <- MaybeAStore
  MaxMishaps = 0
  NoFile = NoFile
  NoPath = NoPath
  NoStore = NoStore
  NoProc = NoProc
  n = n
  r1 = r1
  r2 = r2
  k = k
  d = d
  e = e
  f = f
  a1 = a1
  t1 = t1
  z1 = z1

SPECIFICATION FilesSpec

PROPERTY OpenStoreStays

\* The only name may be retired for good, and nothing is left to run.
CHECK_DEADLOCK FALSE
