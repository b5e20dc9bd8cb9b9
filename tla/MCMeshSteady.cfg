CONSTANTS
  Vantages = {v1, v2, v3, v4}
  Reports = {"OK", "TLS_RESET_POST_HELLO"}
  Before <- FixedOrder
  MaxChanges = 4
  MaxUpsets = 0
SPECIFICATION SteadySpec
SYMMETRY Symmetry
INVARIANTS
  TiersExclusive
PROPERTIES
  OneAlert
