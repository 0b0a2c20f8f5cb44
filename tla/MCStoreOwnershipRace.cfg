CONSTANTS
  Cores = {c1}
  Sessions = {s1, s2}
  Updates = {u1}
  Profiles = {f1, f2}
  Loose = {f2}
  Plugins = {x1, x2}
  Core = Core

SPECIFICATION Spec
SYMMETRY Symmetry

INVARIANT MarkedStoreRefusesCore
