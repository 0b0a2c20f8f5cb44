CONSTANTS
  a = a
  b = b
  c = c
  k1 = k1
  k2 = k2
  k3 = k3
  Procs = {p1, p2}
  Profiles = {a, b, c}
  Signers = {k1, k2, k3}
  SignerOf <- MCSignerOf
  TrustedBy <- MCTrustedBy
  NoSigner = NoSigner
  Batch = 2
  MaxBatches = 2
  MaxLag = 4
  MaxFaults = 2

SPECIFICATION FairSpec

INVARIANTS
  AnswerCoversStart

PROPERTIES
  BacklogDrains
