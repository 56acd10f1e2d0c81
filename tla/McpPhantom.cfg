\* Two sessions, one message, one move of other clients or end of a program.
CONSTANTS
  a = a
  b = b
  Ids = {a, b}
  NoId = none
  Fenced = TRUE
  MaxRequests = 1
  MaxMoves = 1
  MaxStops <- MCStops
  MaxExprs = 1
SPECIFICATION Spec
INVARIANT NoPhantomPause
CHECK_DEADLOCK FALSE
