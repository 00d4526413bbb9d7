CONSTANTS
  Ranges = {"1h", "6h", "24h"}
  MaxEffects = 2
  MaxPublished = 3
  MaxInFlight = 2
SPECIFICATION ClientSpec
PROPERTIES
  SnapshotsAdvance
  Recovers
  RangeIsShown
