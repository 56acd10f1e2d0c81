SPECIFICATION Spec
CONSTANTS
  h1 = h1
  h2 = h2
  c = c
  Handlers = {h1, h2}
  Cleaners = {c}
  Lines = {1}
  Mods = {"none"}
  Filters = {"uncaught"}
  HitIds = TRUE
  FreshIds = TRUE
  Failing = TRUE
  Issued = {"break", "breakfn", "breakex", "unbreak", "until", "continue", "stop"}
  MaxBPs = 3
  MaxCmds = 3
  MaxStops = 1
CHECK_DEADLOCK FALSE
SYMMETRY Symmetry
INVARIANTS DapidOwn UntilCleansUp
