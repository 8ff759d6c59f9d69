------------------------- MODULE MCServiceDiscovery -------------------------
(* Two servers and one watcher. *)
EXTENDS ServiceDiscovery, TLC

CONSTANTS i1, i2, w

MCInstances == {i1, i2}
MCWatchers == {w}
Symmetry == Permutations(MCInstances)
=============================================================================
