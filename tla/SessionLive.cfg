CONSTANTS
  Handlers = {h1, h2}
  Codes = {0}
  Java = TRUE
  Timeouts = FALSE
  SubCap = 2
  MaxStops = 2
  MaxCmds = 2
  Modes = {"attach"}
  Issued = {"continue", "step", "until", "listen", "stop"}
SPECIFICATION FairSpec
CHECK_DEADLOCK FALSE
INVARIANTS UntilIsConfigured StopInFlight ConfigurationDoneOnce
PROPERTIES AdapterDeathFreesHandlers StopIsReported
