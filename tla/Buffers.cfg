\* Logs of three and two entries, four events, timestamps that may coincide.
SPECIFICATION Spec
CONSTANTS
  MaxOutputEntries = 3
  MaxEventEntries = 2
  Sent = {"", "stdout"}
  Sizes = {0, 2}
  Budgets = {1, 2, 5}
  Tails = {0}
  Coarse = TRUE
  MaxRecords = 4
CHECK_DEADLOCK FALSE
INVARIANTS PollGetsAll TailFits
