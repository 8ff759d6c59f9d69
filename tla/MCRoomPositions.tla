--------------------------- MODULE MCRoomPositions ---------------------------
(* RoomPositions with symmetric players and positions. *)
EXTENDS RoomPositions, TLC

Symmetry == Permutations(PlayerIds) \cup Permutations(Positions)
=============================================================================
