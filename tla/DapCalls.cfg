SPECIFICATION FairSpec
CONSTANTS
  c1 = c1
  c2 = c2
  c3 = c3
  Callers = {c1, c2}
  Timeouts = TRUE
  SubCap = 1
  MaxSeq = 3
  MaxEvents = 1
CHECK_DEADLOCK FALSE
INVARIANTS CallAccounted PendingOwned ResponsesSafe
PROPERTIES ImplementsService CloseReleases
