----------------------------- MODULE MCCardDraw -----------------------------
(* Two Players, of one user or of two, or one that takes the place of the other. *)
EXTENDS CardDraw, TLC

CONSTANTS p1, p2, u1, u2

MCPlayers == {p1, p2}
MCUids == {u1, u2}
Symmetry == Permutations(MCPlayers) \cup Permutations(MCUids)
=============================================================================
