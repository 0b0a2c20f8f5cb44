CONSTANTS
  c1 = c1
  c2 = c2
  Procs = {p1}
  Requests = {c1, c2}
  Whole = {c1, c2}
  Disclosures = {}
  Namespaces = {n1}
  NoNamespace = NoNamespace
  MaxFaults = 1
  PageSize = 1
  Parent <- MCParent
  Auditor = n1

SPECIFICATION AuditSpec

INVARIANTS
  NoFalseMissing
  AuditAnswersForStart
