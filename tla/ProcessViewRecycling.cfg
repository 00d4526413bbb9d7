CONSTANTS
  Pids <- MCPids
  MaxSignalable = 2
  MaxInc = 2
  Profiles <- MCProfiles
  MaxRows = 2
  FilterChars <- MCFilterChars
  MaxFilter = 1
  Text <- MCText
SPECIFICATION Spec
INVARIANT RecyclingProtected
