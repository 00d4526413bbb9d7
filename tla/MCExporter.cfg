CONSTANTS
  Clients = {c1, c2}
  MaxAttempts = 2
  MaxSnapshots = 3
  MaxFailures = 1
SPECIFICATION FairSpec
INVARIANTS
  TypeOK
  NoGaps
  CaughtUp
  RegisteredIffConnected
  GpuOutlivesPolling
PROPERTIES
  FanoutCompletes
  LifeMovesOn
