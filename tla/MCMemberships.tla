---------------------------- MODULE MCMemberships ----------------------------
(* Small instances of Memberships for TLC. *)
EXTENDS Memberships, TLC

Symmetry == Permutations(Users) \cup Permutations(Calls)
=============================================================================
