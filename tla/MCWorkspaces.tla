---------------------------- MODULE MCWorkspaces ----------------------------
(* A small instance of Workspaces for TLC: each role has scopes of its own,  *)
(* and one scope is of no role, as that of reading metrics is in the code.   *)
EXTENDS Workspaces, TLC

CONSTANTS owner, viewer, readAll, writeAll, readMetrics

RoleScopes == (viewer :> {readAll}) @@ (owner :> {readAll, writeAll})

Symmetry == Permutations(Calls)
=============================================================================
