\* Two sessions, two messages, one move of other clients or end of a program.
CONSTANTS
  a = a
  b = b
  Ids = {a, b}
  NoId = none
  Fenced = TRUE
  MaxRequests = 2
  MaxMoves = 1
  MaxStops <- MCStops
  MaxExprs = 1
SPECIFICATION FairSpec
INVARIANTS RepliesInOrder ReadsOrLists OneStopShown StaysWithSession
PROPERTIES Answered
CHECK_DEADLOCK FALSE
