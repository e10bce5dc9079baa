-------------------------------- MODULE Scan --------------------------------
(***************************************************************************)
(* What the pages of a list promise, whatever is written meanwhile: a page *)
(* is a run of the ordered collection as it is when the page is read, from *)
(* the start, or next to the page before it on either side, without a gap; *)
(* and it is empty only when there is nothing on that side.                *)
(***************************************************************************)
CONSTANTS Items, Sorts, Precedes(_, _, _)

VARIABLES
    stored,  \* the collection
    sort,    \* the order of the list, the same on every page
    page     \* the page last read

Init == stored \subseteq Items /\ sort \in Sorts /\ page = {}

\* P is a beginning of M, in the order of before.
Begins(P, M, before(_, _)) ==
    /\ P \subseteq M
    /\ \A p \in P, m \in M : before(m, p) => m \in P
    /\ P = {} => M = {}

Comes(d, e) == Precedes(sort, d, e)
Follows(d, e) == Precedes(sort, e, d)

After == {m \in stored : \A p \in page : Comes(p, m)}
Before == {m \in stored : \A p \in page : Comes(m, p)}

Write == stored' \subseteq Items /\ UNCHANGED page

Open == Begins(page', stored, Comes) /\ UNCHANGED stored
Forward == page # {} /\ Begins(page', After, Comes) /\ UNCHANGED stored
Back == page # {} /\ Begins(page', Before, Follows) /\ UNCHANGED stored

Next == (Write \/ Open \/ Forward \/ Back) /\ UNCHANGED sort
Spec == Init /\ [][Next]_<<stored, sort, page>>
=============================================================================
