CONSTANTS
  Cores = {c1}
  Sessions = {q1, q2}
  Updates = {u1}
  Profiles = {f1, f2}
  Loose = {f2}
  Plugins = {x1, x2}
  Core = Core

  Heals = {q1, q2}
  Path <- MCPath
  Below = {"home", "below"}
  Objects = {"m1", "m2", "g", "r"}
  Link = "link"
  Owner <- MCOwner
  Sticky = {"r"}
  Foreign = {"g"}
  Places <- MCPlaces
  Modes <- MCModes
  MaxHost = 1
  MaxFaults = 1

  Retirers = {q1, q2}
  Updaters = {q1, q2}
  Users = {q1, q2}
  Names = {n, r1, r2, k}
  RetiredOf <- MCRetiredOf
  InUse = {n, k}
  Paths = {d, e, f}
  NewPaths = {e, f}
  Stores = {a1, a2, a3}
  Settings = {t1}
  Keepers = {z1}
  Offered <- MCOffered
  Starts <- Declared
  StartDirs <- AStore
  MaxMishaps = 1
  NoFile = NoFile
  NoPath = NoPath
  NoStore = NoStore
  NoProc = NoProc
  n = n
  r1 = r1
  r2 = r2
  k = k
  d = d
  e = e
  f = f
  a1 = a1
  t1 = t1
  z1 = z1

SPECIFICATION SpecOfOne
SYMMETRY AllSymmetry

INVARIANTS
  PluginWritesItsOwn
  HealsWhatItCan
  NamedUnlessRemade

PROPERTIES
  MarkStands
  NoDisguise
  OnlyTightens
