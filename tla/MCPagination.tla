---------------------------- MODULE MCPagination ----------------------------
EXTENDS Pagination, TLC

\* Every document has a, b and n.a; some have no c.
Document(id, a, b) ==
    "_id" :> id @@ "a" :> a @@ "b" :> b @@ "n.a" :> a
    @@ "c" :> IF a = 0 THEN None ELSE 0

\* Ties on a, and on a and b.
Stored ==
    {Document(id, 0, 0) : id \in 1..4} \cup {Document(id, 1, 0) : id \in 1..3}
    \cup {Document(id, 0, 1) : id \in {1, 2}}

Key(path, order) == [path |-> path, order |-> order]

AllSorts == {<<Key("a", 1), Key("b", -1)>>, <<Key("_id", 1)>>, <<Key("_id", -1)>>,
             <<Key("c", -1)>>, <<Key("n.a", 1)>>}
=============================================================================
