---------------------------- MODULE MCGameSession ----------------------------
(* GameSession with symmetric connections, players and notifications. *)
EXTENDS GameSession, TLC

Symmetry ==
  Permutations(Conns) \cup Permutations(Players) \cup Permutations(Notifiers)
=============================================================================
