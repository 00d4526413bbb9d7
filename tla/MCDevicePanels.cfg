CONSTANTS
  DiskNames = {"nvme0n1", "nvme1n1", "sda"}
  NetNames = {"enp1s0", "wlp2s0"}
  GpuCount = 2
SPECIFICATION Spec
INVARIANTS
  TypeOK
  SelectionsResolve
PROPERTIES
  SelectionFollowsDevice
  HistoriesSurvive
