---------------------------- MODULE MCLocations ------------------------------
(* Small instances of Locations for TLC. *)
EXTENDS Locations, TLC

Symmetry == Permutations(Docs) \cup Permutations(Calls) \cup Permutations(Orgs)

\* An edit of the name, or of the list of members.
Edits ==
    {[name |-> None]}
    \cup [{"locations"} -> {{}} \cup {{d} : d \in Docs}]

\* A location becomes public, or stops to be, and collections take members.
References ==
    {[published |-> TRUE, publicResource |-> TRUE],
     [publicResource |-> FALSE]}
    \cup [{"locations"} -> {{d} : d \in Docs}]
=============================================================================
