CONSTANTS
  a1 = a1
  a2 = a2
  Addr = {a1, a2}
  Timeout = 3
  DohWait = 2
  Kinds <- AllKinds
  FollowupCap = 2
  MaxDohFollowups = 1
  BannerReads = 3
  Networks <- Interferences
  Hosts = {a1}
  Protocols <- AllProtocols
  Header = 1
  Chunk = 2
  Body = 6
  Lo = 3
  Hi = 5
  DrainWait = 1
  MinWait = 1
  Pause = 1
  Fragments = 2
  HandshakeReads = 3
  MaxCanaries = 5
  MaxFlips = 2
  Settings <- Overrides
SPECIFICATION FairKindsSpec
INVARIANTS
  AppTypeOK
  OkMeansThrough
  FingerprintHasEvidence
  SmtpsDiscriminatorPossible
  AppWorstCase
  AppFollowupsEndSoon
  OneShotTypeOK
  SilenceIsWaitedOut
  ResetClassified
  OkMeansPushed
  ResetHasEvidence
  OneShotWorstCase
  ActiveHasCause
  UnanimityActive
PROPERTIES
  AppEnds
  OneShotEnds
CHECK_DEADLOCK FALSE
