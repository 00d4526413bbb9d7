CONSTANTS
  Disks = {d1}
  Nics = {n1}
  Domains = {k1, k2}
  Pids = {p1, p2}
  Cores = {0, 1}
  EnergyRange = 2
  MaxMoved = 2
  MaxTime = 3
  MaxRows = 2
SPECIFICATION Spec
INVARIANTS TypeOK ThroughputIsReal PowerCoversEnergy UsageIsReal
SYMMETRY Symmetry
