CONSTANTS
  Managers = {m1, m2}
  Roots <- MCRoots
  User = "user"
  Names = {"a"}
  Reserved = {}
  Builds <- MCBuilds
  Release = "v1"
  Development = "dev"
  HostFiles <- MCHostFiles
  Absent = Absent
  AtFirst <- MCAtFirst
  Unchecked = {"shared"}
  MaxTrouble = 1

SPECIFICATION Spec
SYMMETRY Symmetry

CONSTRAINT TwoAtOnce
INVARIANTS
  AckedIsDurable
  NoLitter
  ReportHolds
  

PROPERTIES
  RunsTrusted
