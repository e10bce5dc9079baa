-------------------------- MODULE MCMetricVersions --------------------------
(* A small instance of MetricVersions for TLC. *)
EXTENDS MetricVersions

First(S) == CHOOSE x \in S : TRUE

\* Symmetry of two saves, two removals and two slugs, as a constraint: liveness
\* forbids SYMMETRY.  No handler returns to "idle" and no slug is given twice to
\* a save, so of each behaviour one that differs from it by names alone stays
\* within the constraint.
InOrder ==
    /\ (\E s \in Saves : pc[s] # "idle") => pc[First(Saves)] # "idle"
    /\ (\E r \in Removals : rpc[r] # "idle") => rpc[First(Removals)] # "idle"
    /\ slug[First(Saves)] \in {None, First(Slugs)}
=============================================================================
