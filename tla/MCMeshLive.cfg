CONSTANTS
  Vantages = {v1, v2, v3, v4}
  Reports = {"OK", "TLS_RESET_POST_HELLO"}
  Before <- FixedOrder
  MaxChanges = 1
  MaxUpsets = 1
SPECIFICATION FairSpec
PROPERTIES
  LadderConverges
