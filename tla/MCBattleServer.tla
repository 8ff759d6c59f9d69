--------------------------- MODULE MCBattleServer ---------------------------
(* BattleServer with model values for TLC. *)
EXTENDS BattleServer, TLC

Symmetry ==
  Permutations(Players) \cup Permutations(Rooms) \cup Permutations(Threads)
=============================================================================
