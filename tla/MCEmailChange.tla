---------------------------- MODULE MCEmailChange ---------------------------
(* Small instances of EmailChange for TLC. *)
EXTENDS EmailChange, TLC

Symmetry == Permutations(Users) \cup Permutations(Temps)
            \cup Permutations(Emails) \cup Permutations(Calls)
=============================================================================
