CONSTANTS
  Handlers = {h1, h2}
  Codes = {0}
  Java = FALSE
  Timeouts = TRUE
  SubCap = 2
  MaxStops = 2
  MaxCmds = 2
  Modes = {"launch", "attach"}
  Issued = {"continue", "until", "pause", "listen", "state", "stop"}
SPECIFICATION Spec
CHECK_DEADLOCK FALSE
SYMMETRY Symmetry
INVARIANTS TypeOK WaiterAccounted TerminalReleasesWaiters TerminalHasFacts ExitCodeAgrees FreshStop
PROPERTY ExitedIsFinal
