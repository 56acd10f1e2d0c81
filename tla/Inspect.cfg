SPECIFICATION Spec
CONSTANTS
  h1 = h1
  h2 = h2
  a = a
  b = b
  NoSess = NoSess
  NoHandler = NoHandler
  Handlers = {h1, h2}
  Executors = {h2}
  Sessions = {a, b}
  Java = {a}
  ReadOnly = {b}
  AllowEval = TRUE
  Kinds = {"stack", "threads", "locals", "globals", "fields", "set", "eval", "print", "printref", "snapshot", "watch", "source", "exec"}
  Wants = {NoSess, a}
  Reuse = FALSE
  Invalidates = {"trace", "evaluate"}
  LineArgs = {0, 1, 3}
  Arounds = {0, 1}
  FileLengths = {3, 4}
  MaxStops = 2
  MaxCmds = 3
CHECK_DEADLOCK FALSE
INVARIANTS OneStop LocationCurrent
PROPERTIES Undisturbed
