CONSTANTS
  ChannelCap = 2
  MinInterval = 1
  MaxInterval = 3
  StartInterval = 2
  TtySize = 2
  MaxKeys = 2
  MaxFailures = 1
SPECIFICATION FairSpec
INVARIANTS
  TypeOK
  TerminalReleased
PROPERTIES
  KeysAreDelivered
  TickSpacing
  KeysTakeEffect
  CollectsForever
