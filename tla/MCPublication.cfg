CONSTANTS
  Procs = {p1, p2}
  Requests = {c1, c2}
  Whole = {c1}
  Disclosures = {d1}
  Namespaces = {n1, n2}
  NoNamespace = NoNamespace
  MaxFaults = 1

SPECIFICATION FairSpec

INVARIANTS
  EntryHasRecord
  AckedIsThere

PROPERTIES
  Refines
  RetryEndsAcked
