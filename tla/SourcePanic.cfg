SPECIFICATION Spec
CONSTANTS
  h1 = h1
  h2 = h2
  a = a
  b = b
  NoSess = NoSess
  NoHandler = NoHandler
  Handlers = {h1}
  Executors = {}
  Sessions = {a, b}
  Java = {a}
  ReadOnly = {b}
  AllowEval = TRUE
  Kinds = {"source"}
  Wants = {NoSess, a}
  Reuse = FALSE
  Invalidates = {"trace", "evaluate"}
  LineArgs = {1, 6}
  Arounds = {0, 1}
  FileLengths = {3, 4}
  MaxStops = 2
  MaxCmds = 1
CHECK_DEADLOCK FALSE
INVARIANT SourceWindow
