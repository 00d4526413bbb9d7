----------------------------- MODULE MCGpuReadings -----------------------------
\* Two devices with a link between them; two processes on the second, each listed by
\* the graphics table or by both tables, with amounts that differ.
EXTENDS GpuReadings, TLC
MCPeer == [l \in {1} |-> {0, 1}]
MCEntries == {<<>>, "graphics" :> 1,
              "compute" :> 1 @@ "graphics" :> 0, "compute" :> 0 @@ "graphics" :> 1}
PidSymmetry == Permutations(Pids)
=============================================================================
