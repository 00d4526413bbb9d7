------------------------------ MODULE MCCollectors ------------------------------
\* The domains and the processes are interchangeable.
EXTENDS Collectors, TLC
Symmetry == Permutations(Domains) \cup Permutations(Pids)
=============================================================================
