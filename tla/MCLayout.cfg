CONSTANTS
  Heights <- MCHeights
  GpuCounts = {0, 1, 5}
  CoreCounts = {18, 144}
  DeviceCounts = {1, 5}
  MaxVisible = 3
SPECIFICATION LayoutSpec
INVARIANTS
  DrawsInside
  HeightIsShared
  ChartsAreLegible
PROPERTIES
  TallerShowsMore
