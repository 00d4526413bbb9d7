----------------------------- MODULE MCProcessView -----------------------------
(* ProcessView for TLC: processes 1 and 2, the second of which matches "c". *)
EXTENDS ProcessView

MCPids == {1, 2}
MCProfiles ==
  {[GpuMemory |-> 0, GpuUtil |-> 1, CpuPercent |-> 0, HostMemory |-> 0],
   [GpuMemory |-> 1, GpuUtil |-> 0, CpuPercent |-> 0, HostMemory |-> 1]}
MCFilterChars == {"c", "1"}
MCText == [p \in MCPids |-> IF p = 1 THEN {<<"1">>} ELSE {<<>>, <<"c">>}]
=============================================================================
