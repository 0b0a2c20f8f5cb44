CONSTANTS
  Keys = {"k1", "k2"}
  NoKey = "nokey"
  Logs = {"l1", "l2"}
  Streams = {"s1", "s2"}
  NoStream = "nostream"
  Contents <- MCContents
  Requests = {"r1", "r2"}
  MaxChanges = 2
  Nothing = Nothing

  Commitments <- MCCommitments
  Events <- MCEvents
  Relays = {"a", "b"}
  RelayHolds <- MCRelayHolds
  References <- MCReferences
  Askers <- MCAskers
  Replies <- MCReplies
  WitnessedAnchors <- MCWitnessed
  Now = 2
  MaxPointers = 2
  MaxRelayEvents = 2

  HolderKeys = {"k1", "k2"}
  PickedDeals = {"d1", "d2"}
  MaxHarm = 2
  MaxExchanges = 3
  NoFile = NoFile

  Parties = {"p1", "p2"}
  Reports = {"r1", "r2"}
  MaxDamage = 3
  NoPart = NoPart

  Threads = {t1, t2}
  MaxSteps = 2
  MaxLog = 6
  MaxEdits = 2
  NoSale = NoSale

  Deals = {"d1", "d2"}
  Depth = 2
  MaxTicks = 2
  MaxSize = 2
  MaxTampers = 1
  NoChain = NoChain

  Commands = {c1, c2}
  Services = {"s1"}
  ProducerKey = "p"
  MaxEditsToFile = 1
  MaxEntries = 1
  NoCall = NoCall

  SealerKeys = {"kpayer", "kpayee"}
  Receipts <- MCReceipts
  MaxLegs = 3
  NoLeg = NoLeg

  Members = {"x", "y"}
  StepLists <- MCStepLists
  Durations <- MCDurations
  Windows <- MCWindows
  Ages <- MCAges
  Shapes <- MCShapes
  MaxContractEdits = 2
  Missing = Missing

  Cases = {"c1", "c2"}
  Pins = {"p1", "p2"}
  Verdicts = {"v1", "v2"}
  Blank = Blank
  MaxRecords = 2

  PredicateRefs = {"file", "builtin"}
  BuiltIns = {"builtin"}
  Predicates <- MCPredicates
  Attributes <- MCAttributes
  PinFiles <- MCPinFiles
  RulesRoles = {"buyer", "seller"}
  Digests = {"e1", "e2"}
  MaxPolicyEdits = 2
  MaxUpdates = 2
  Keep = Keep
  None = None

SPECIFICATION Spec
CONSTRAINTS OneOfTwoTrees FirstThread LegsInOrder TwoVersions FirstReport

INVARIANTS
  VerdictIsEarned
  UnreadIsNamed
  NoForkPasses
  ReadersAgree
  KeyDecides
  FailureIsNamed
  TextIsSealed
  PageClaimsNoMore
  ListedIsWhole
  ChainIsTheDeals
  AddedStays
  VerifiedIsSigned
  EachLegAnswers
  EvidenceIsLive
  NonBreakingIsSafe
  EveryCaseCounts
  ChecksAsPinned

\* A file is changed no more than its bound allows, and then judged.
CHECK_DEADLOCK FALSE
