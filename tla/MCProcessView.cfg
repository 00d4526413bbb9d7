CONSTANTS
  Pids <- MCPids
  MaxSignalable = 1
  MaxInc = 2
  Profiles <- MCProfiles
  MaxRows = 2
  FilterChars <- MCFilterChars
  MaxFilter = 1
  Text <- MCText
SPECIFICATION Spec
INVARIANTS
  TypeOK
  OnlyShownPidIsKilled
  TableSorted
PROPERTIES
  PromptIsStable
