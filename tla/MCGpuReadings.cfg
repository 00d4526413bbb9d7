CONSTANTS
  device_count = 2
  Peer <- MCPeer
  Busy = {1}
  Pids = {train, Xorg}
  train = train
  Xorg = Xorg
  Entries <- MCEntries
SYMMETRY PidSymmetry
SPECIFICATION GpuSpec
INVARIANTS
  PageIsOfOneDevice
  MemoryAddsUp
