--------------------------- MODULE MCWordCardGame ---------------------------
(* WordCardGame with an adjective, a name and a verb: "adj adj name verb". *)
EXTENDS WordCardGame, TLC

CONSTANTS adj, name, verb

MCPosOf == adj :> "Adj" @@ name :> "NP-HUMAN-NAME" @@ verb :> "V-EVENT"

Symmetry == Permutations(Players)
=============================================================================
