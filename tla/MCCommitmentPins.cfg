CONSTANTS
  s = s
  t = t
  g = g
  a = a
  b = b
  h = h
  Procs = {p1, p2}
  Streams = {s, t}
  Checkpoints = {g, a, b, h}
  Contains <- MCContains
  NoPin = NoPin
  Commitments <- MCCommitments
  MaxWait = 1

SPECIFICATION FairSpec

INVARIANTS
  OneHistory

PROPERTIES
  RunEnds
