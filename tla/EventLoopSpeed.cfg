CONSTANTS
  ChannelCap = 1
  MinInterval = 1
  MaxInterval = 3
  StartInterval = 2
  TtySize = 1
  MaxKeys = 1
  MaxFailures = 0
SPECIFICATION Spec
PROPERTIES
  RefreshSpeedApplies
