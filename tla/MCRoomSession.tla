---------------------------- MODULE MCRoomSession ----------------------------
(* RoomSession with symmetric players. *)
EXTENDS RoomSession, TLC

Symmetry == Permutations(Players)
=============================================================================
