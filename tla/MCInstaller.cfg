CONSTANTS
  d1 = d1
  d2 = d2
  d3 = d3
  p1 = p1
  p2 = p2
  Versions = {v1, v2}
  Pythons = {p1, p2}
  LaterPythons <- Later
  LibFiles = {f1, f2}
  Dirs = {d1, d2, d3}
  KnownDirs <- Candidates
  Sites <- Hosts
SPECIFICATION InstallerSpec
INVARIANTS
  InstallerTypeOK
  CompletedIsUsable
  RerunRepairs
PROPERTIES
  KeepsWorking
