CONSTANTS
  Vantages = {v1, v2}
  Reports = {"OK", "TLS_RESET_POST_HELLO"}
  Before <- FixedOrder
  MaxChanges = 1
  MaxUpsets = 0
SPECIFICATION Spec
INVARIANTS
  TiersExclusive
