SPECIFICATION Spec
CONSTANTS
  h1 = h1
  h2 = h2
  c = c
  Handlers = {h1}
  Cleaners = {}
  Lines = {1, 2}
  Mods = {"none", "cond"}
  Filters = {"uncaught"}
  HitIds = FALSE
  FreshIds = TRUE
  Failing = FALSE
  Issued = {"break", "breakfn", "breakex", "unbreak", "until", "continue"}
  MaxBPs = 2
  MaxCmds = 5
  MaxStops = 3
CHECK_DEADLOCK FALSE
INVARIANTS InSync OnceReportedOnce
