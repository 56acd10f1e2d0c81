SPECIFICATION FairSpec
CONSTANTS
  h1 = h1
  h2 = h2
  h3 = h3
  a = a
  x1 = x1
  x2 = x2
  x3 = x3
  w = w
  Handlers = {h1, h2}
  Ids = {a, x1, x2}
  NoId = NoId
  Names = {a}
  Exprs = {w}
  Cap = 2
  MaxStarts = 2
  MaxOps = 2
CHECK_DEADLOCK FALSE
INVARIANTS FoundIsOpen AdapterReachable
PROPERTIES ImplementsTable RequestsReturn
