CONSTANTS
  a1 = a1
  a2 = a2
  Addr = {a1, a2}
  Timeout = 3
  DohCap = 2
  FollowupCap = 1
  MaxDohFollowups = 1
  MinScan = 1
  BodyChunks = 2
  Networks <- Interferences
  Invocations <- Calls
SPECIFICATION CliSpec
INVARIANTS
  NeverRaises
CHECK_DEADLOCK FALSE
