CONSTANTS
  Procs = {p1, p2}
  MaxDeaths = 1

SPECIFICATION FairSpec

PROPERTIES
  ReceiptKept
  ReachedMeansDelivered
