CONSTANTS
  Vantages = {v1, v2, v3}
  Reports = {"OK", "VANTAGE_UNAVAILABLE", "TLS_RESET_POST_HELLO"}
  Before <- FixedOrder
  MaxChanges = 1
  MaxUpsets = 0
SPECIFICATION Spec
SYMMETRY Symmetry
INVARIANTS
  UnavailableExcluded
