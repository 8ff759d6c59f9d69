---------------------------- MODULE MCUserAccounts ----------------------------
(* Two connections and two people, one of them a guest, with one session at a time. *)
EXTENDS UserAccounts, TLC

CONSTANTS c1, c2, guest, member, token

MCConns == {c1, c2}
MCOpenIds == {guest, member}
MCGuests == {guest}
MCTokens == {token}
Symmetry == Permutations(MCConns)
=============================================================================
