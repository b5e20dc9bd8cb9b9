CONSTANTS
  Vantages = {v1, v2, v3, v4}
  Reports = {"OK", "PORT_FILTERED", "TLS_RESET_POST_HELLO"}
  Before <- CountsFirst
  MaxChanges = 1
  MaxUpsets = 2
SPECIFICATION Spec
SYMMETRY Symmetry
INVARIANTS
  TypeOK
  NeverAverageAndHigh
  DirectionalTiersExclusive
  NoFingerprintNoAlert
  SettledShowsLadder
