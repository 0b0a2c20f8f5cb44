CONSTANTS
  Threads = {t1, t2}
  MaxSteps = 2
  MaxLog = 6
  MaxEdits = 2
  NoSale = NoSale

SPECIFICATION Spec

INVARIANT EveryRegistrationListed

\* The log and the copy are changed no more than the bounds allow.
CHECK_DEADLOCK FALSE
