----------------------------- MODULE Pagination -----------------------------
(***************************************************************************)
(* A client pages through a list while documents are written.  A page is a *)
(* query and then a count, two calls of the database; the links of the     *)
(* answer lead on, by a cursor that holds the sort values of the last      *)
(* document of the page, or by the number of the page.                     *)
(***************************************************************************)
EXTENDS Integers, Sequences, FiniteSets

CONSTANTS
    Documents, \* what may be stored: functions from fields to numbers or None
    Sorts,     \* the sorts that are asked for, sequences of [path, order]
    Dotted,    \* the paths of nested fields
    Limits,    \* the sizes of a page
    MaxWrites, \* bounds the writes
    MaxPage,   \* bounds the number of a page
    None       \* no value, or no such field

ASSUME PaginationAssumption ==
    /\ IsFiniteSet(Documents)
    /\ \A s \in Sorts :
          /\ s \in Seq([path : STRING, order : {1, -1}])
          /\ \A i, j \in DOMAIN s : s[i].path = s[j].path => i = j
    /\ \A d \in Documents :
          /\ d["_id"] \in Int
          /\ \A s \in Sorts : \A i \in DOMAIN s : d[s[i].path] \in Int \cup {None}
    /\ None \notin Int /\ "_id" \notin Dotted
    /\ Limits \subseteq Nat
    /\ MaxWrites \in Nat /\ MaxPage \in Nat

VARIABLES
    stored,  \* the collection
    writes,  \* how many writes there were
    sort,    \* the sort that the client asks for, on every page
    limit,   \* page.size
    cursor,  \* page.cursor: None, Initial or an encoded one
    skip,    \* page.number
    stage,   \* "idle", "query", "count", "answered", "refused"
    docs,    \* the documents of the page
    next,    \* the request of the next page, or None
    previous,\* that of the previous page, or None
    listed,  \* the documents of the pages so far
    steady,  \* those stored, and the same, since the walk began
    turned,  \* whether the client ever went back
    upset    \* whether there was a write that this walk cannot bear

request == <<sort, limit, cursor, skip>>
links == <<next, previous>>
ghosts == <<listed, steady, turned, upset>>
vars == <<stored, writes, request, stage, docs, links, ghosts>>

-----------------------------------------------------------------------------
(* The order of a list, and its cursors.                                   *)

\* A document without the field comes before those that have it.
Lower(x, y) == IF x = None THEN y # None ELSE y # None /\ x < y
Less(x, y, order) == IF order > 0 THEN Lower(x, y) ELSE Lower(y, x)

\* The order of an _id in the sort is overwritten by the default one.
Order(key) == IF key.path = "_id" THEN 1 ELSE key.order

\* The database sorts by the paths in turn, and last by _id.
Precedes(s, d, e) ==
    \/ \E i \in DOMAIN s :
          /\ \A j \in 1..(i - 1) : d[s[j].path] = e[s[j].path]
          /\ Less(d[s[i].path], e[s[i].path], Order(s[i]))
    \/ /\ \A j \in DOMAIN s : d[s[j].path] = e[s[j].path]
       /\ d["_id"] < e["_id"]

HasId(s) == \E i \in DOMAIN s : s[i].path = "_id"

\* The document has every field of the sort.
Complete(s, d) == \A i \in DOMAIN s : d[s[i].path] # None

\* The cursor a walk begins with, "-1".
Initial == [id |-> None, sort |-> <<>>, reverse |-> FALSE]

\* A cursor that leads back turns the order of the sort.
EncodePaginationCursor(s, d, reverse) ==
    [id |-> d["_id"], reverse |-> reverse,
     sort |-> [i \in DOMAIN s |->
                [path |-> s[i].path, value |-> d[s[i].path],
                 order |-> IF reverse THEN -s[i].order ELSE s[i].order]]]

\* A document without a field of the sort makes no cursor.
Cursors(s) ==
    {None, Initial} \cup {EncodePaginationCursor(s, d, r) :
                            d \in {e \in Documents : Complete(s, e)}, r \in BOOLEAN}

\* No value is no cursor.
ASSUME CursorAssumption ==
    /\ None # Initial
    /\ \A s \in Sorts, d \in Documents, r \in BOOLEAN :
          None # EncodePaginationCursor(s, d, r)

\* The sort of the request must be that of the cursor, in which a nested field
\* is set inside of another and no longer found by its path.
ValidateCursor(s, c) ==
    /\ s = [i \in DOMAIN c.sort |->
                [path |-> c.sort[i].path,
                 order |-> IF c.reverse THEN -c.sort[i].order ELSE c.sort[i].order]]
    /\ \A i \in DOMAIN s : s[i].path \notin Dotted

Condition(path, op, value) == [path |-> path, op |-> op, value |-> value]

\* A comparison holds of no document without the field.
Meets(d, cond) ==
    LET value == d[cond.path] IN
    CASE cond.op = "$eq" -> value = cond.value
      [] cond.op = "$gt" -> value # None /\ value > cond.value
      [] cond.op = "$gte" -> value # None /\ value >= cond.value
      [] cond.op = "$lt" -> value # None /\ value < cond.value

Comparison(order) == IF order > 0 THEN "$gt" ELSE "$lt"

\* Mistake: the document of the cursor is selected, too.
IdComparisonClosed(c) == IF c.reverse THEN "$lt" ELSE "$gte"
IdComparison(c) == IF c.reverse THEN "$lt" ELSE "$gt"

\* Mistake: a path is compared whatever the paths before it.
ClauseWithoutTies(c, i) ==
    IF i \in DOMAIN c.sort
    THEN {Condition(c.sort[i].path, Comparison(c.sort[i].order), c.sort[i].value)}
    ELSE {Condition("_id", IdComparison(c), c.id)}

\* The alternatives of the query: each takes over the paths of the one before
\* as equalities, and compares the next path; the last compares the _id, unless
\* an equality of the _id has replaced the comparison.
Clause(c, i) ==
    {Condition(c.sort[j].path, "$eq", c.sort[j].value) : j \in 1..(i - 1)}
    \cup (IF i \in DOMAIN c.sort
          THEN {Condition(c.sort[i].path, Comparison(c.sort[i].order), c.sort[i].value)}
          ELSE {Condition("_id", op, c.id) : op \in IF HasId(c.sort) THEN {} ELSE {IdComparison(c)}})

EncodeCursorQuery(c) ==
    IF c \in {None, Initial} THEN stored
    ELSE {d \in stored : \E i \in 1..(Len(c.sort) + 1) :
                            \A cond \in Clause(c, i) : Meets(d, cond)}

\* The documents of a set that have fewer than n before them.
First(s, n, M) == {d \in M : Cardinality({e \in M : Precedes(s, e, d)}) < n}
Last(s, n, M) == {d \in M : Cardinality({e \in M : Precedes(s, d, e)}) < n}

Skipped == (skip - 1) * limit

\* The page: sorted, or sorted the other way round for a cursor that leads
\* back; without a cursor, what comes before is skipped.  No limit is 0.
Page ==
    LET M == EncodeCursorQuery(cursor) IN
    IF cursor \in {None, Initial}
    THEN LET rest == M \ First(sort, Skipped, M)
         IN IF limit = 0 THEN rest ELSE First(sort, limit, rest)
    ELSE IF limit = 0 THEN M
    ELSE IF cursor.reverse THEN Last(sort, limit, M) ELSE First(sort, limit, M)

FirstOf(s, P) == CHOOSE d \in P : \A e \in P : e = d \/ Precedes(s, d, e)
LastOf(s, P) == CHOOSE d \in P : \A e \in P : e = d \/ Precedes(s, e, d)

\* A link: the cursor and the number of a page.
Link(c, n) == [cursor |-> c, skip |-> n]

\* Nor is it a link.
ASSUME LinkAssumption ==
    \A s \in Sorts : \A c \in Cursors(s), n \in 0..(MaxPage + 2) : None # Link(c, n)

-----------------------------------------------------------------------------
Unique(S) == \A d, e \in S : d["_id"] = e["_id"] => d = e

Init ==
    /\ stored \in SUBSET Documents /\ Unique(stored)
    /\ writes = 0 /\ sort \in Sorts
    /\ limit = 0 /\ cursor = None /\ skip = 1
    /\ stage = "idle" /\ docs = {}
    /\ next = None /\ previous = None
    /\ listed = {} /\ steady = {} /\ turned = FALSE /\ upset = FALSE

\* Somebody inserts, changes or removes a document.
Write(d) ==
    /\ writes < MaxWrites /\ writes' = writes + 1
    /\ \/ d \notin stored
          /\ stored' = {e \in stored : e["_id"] # d["_id"]} \cup {d}
       \/ d \in stored /\ stored' = stored \ {d}
    /\ steady' = steady \cap stored'
    /\ upset' = (\/ upset
                 \/ stage = "count" /\ ~(stored \subseteq stored')
                 \/ stage # "idle" /\ cursor = None)
    /\ UNCHANGED <<request, stage, docs, links, listed, turned>>

\* Mistake: the number of a page is taken as it comes.
SkipOptionAsSent(number) == number
SkipOption(number) == IF number < 1 THEN 1 ELSE number

\* A walk by cursors or by the numbers of pages.
Begin(n, c) ==
    /\ stage = "idle" /\ stage' = "query"
    /\ \E number \in {0, 1} : skip' = SkipOption(number)
    /\ limit' = n /\ cursor' = c
    /\ steady' = stored
    /\ UNCHANGED <<stored, writes, sort, docs, links, listed, turned, upset>>

Query ==
    /\ stage = "query"
    /\ IF cursor \in {None, Initial} \/ ValidateCursor(sort, cursor)
       THEN stage' = "count" /\ docs' = Page /\ listed' = listed \cup docs'
       ELSE stage' = "refused" /\ UNCHANGED <<docs, listed>>
    /\ UNCHANGED <<stored, writes, request, links, steady, turned, upset>>

\* Mistake: two more documents are taken for none.
ExceedsByTwo(total) == total > limit + 1

Exceeds(total) == total > limit

\* The documents whose cursors a page leads to.
Linked == {LastOf(sort, docs)} \cup IF cursor = Initial THEN {} ELSE {FirstOf(sort, docs)}

\* The count of the query without its bounds.  While it exceeds the size of a
\* page there are cursors, or the request is refused for want of a field;
\* without one, the links go by the number of the page.
Count ==
    /\ stage = "count"
    /\ LET total == Cardinality(EncodeCursorQuery(cursor))
           more == cursor # None /\ docs # {} /\ Exceeds(total)
       IN \/ /\ more /\ \E d \in Linked : ~Complete(sort, d)
             /\ stage' = "refused" /\ UNCHANGED links
          \/ /\ more => \A d \in Linked : Complete(sort, d)
             /\ stage' = "answered"
             /\ next' = IF more
                        THEN Link(EncodePaginationCursor(sort, LastOf(sort, docs), FALSE), 1)
                        ELSE IF skip * limit < total THEN Link(cursor, skip + 1) ELSE None
             /\ previous' = IF more /\ cursor # Initial
                            THEN Link(EncodePaginationCursor(sort, FirstOf(sort, docs), TRUE), 1)
                            ELSE IF skip > 1 THEN Link(cursor, skip - 1) ELSE None
    /\ UNCHANGED <<stored, writes, request, docs, ghosts>>

\* The client follows the link to the next page, but stops at an empty one,
FollowNext ==
    /\ stage = "answered" /\ stage' = "query"
    /\ docs # {} /\ next # None /\ next.skip <= MaxPage
    /\ cursor' = next.cursor /\ skip' = next.skip
    /\ next' = None /\ previous' = None
    /\ UNCHANGED <<stored, writes, sort, limit, docs, ghosts>>

\* or to the previous one.
FollowPrevious ==
    /\ stage = "answered" /\ stage' = "query"
    /\ previous # None
    /\ cursor' = previous.cursor /\ skip' = previous.skip
    /\ turned' = TRUE
    /\ next' = None /\ previous' = None
    /\ UNCHANGED <<stored, writes, sort, limit, docs, listed, steady, upset>>

Next ==
    \/ \E d \in Documents : Write(d)
    \/ \E n \in Limits, c \in {None, Initial} : Begin(n, c)
    \/ Query \/ Count \/ FollowNext \/ FollowPrevious

Spec == Init /\ [][Next]_vars

\* The server answers, and the client follows the links to the next page.
FairSpec == Spec /\ WF_vars(Query) /\ WF_vars(Count) /\ WF_vars(FollowNext)

-----------------------------------------------------------------------------
(* Properties.                                                             *)

ByCursor == cursor # None

\* The sort asks for descending _ids, which it does not get.
Descends(s) == \E i \in DOMAIN s : s[i].path = "_id" /\ s[i].order = -1

\* The sort is on fields that all documents have, and not on the _id.
Whole(s) == ~HasId(s) /\ \A d \in Documents : Complete(s, d)

\* Every variable keeps its type; pages start at 1, and the server refuses only who
\* goes by cursors, and only for a nested field or one that a document lacks.
TypeOK ==
    /\ stored \subseteq Documents /\ Unique(stored)
    /\ writes \in 0..MaxWrites
    /\ sort \in Sorts
    /\ limit \in Limits \cup {0}
    /\ cursor \in Cursors(sort)
    /\ skip \in 1..(MaxPage + 1)
    /\ stage \in {"idle", "query", "count", "answered", "refused"}
    /\ stage = "refused" => /\ ByCursor
                            /\ \/ \E i \in DOMAIN sort : sort[i].path \in Dotted
                               \/ \E d \in docs : ~Complete(sort, d)
    /\ docs \subseteq Documents /\ Unique(docs)
    /\ \A l \in {next, previous} \ {None} : l.skip \in Nat /\ DOMAIN l = {"cursor", "skip"}
    /\ listed \subseteq Documents /\ steady \subseteq stored
    /\ turned \in BOOLEAN /\ upset \in BOOLEAN

\* A client that has followed the links to the last page has seen every document
\* that was there, unchanged, all the while: by cursors whatever else is written,
\* but for a removal between a query and its count; by numbers when nothing is.
\* By cursors, a document may stay out that lacks a field of the sort; and a sort
\* by descending _ids promises nothing.
SteadyDocumentsAreListed ==
    (/\ stage = "answered" /\ (next = None \/ docs = {})
     /\ ~turned /\ ~upset /\ ~(ByCursor /\ Descends(sort)))
        => \A d \in steady : d \in listed \/ (ByCursor /\ ~Complete(sort, d))

\* The document of the cursor, when the sort has the _id.
Repeated == {d \in Documents : ByCursor /\ HasId(sort) /\ d["_id"] = cursor.id}

\* And it sees none of them twice, but that by cursors a sort that has the _id
\* lists the document of the cursor again.
NothingIsListedTwice ==
    [][(/\ stage = "query" /\ stage' = "count" /\ ~turned /\ ~upset
        /\ (ByCursor \/ limit # 0) /\ ~(ByCursor /\ Descends(sort)))
            => docs' \cap listed \cap steady \subseteq Repeated]_vars

\* The pages of a walk by cursors are adjacent runs of the list, in both
\* directions, whatever is written, when the sort is on fields that all documents
\* have, and not on the _id.
S == INSTANCE Scan WITH Items <- Documents,
                        page <- IF ByCursor /\ Whole(sort) THEN docs ELSE {}
ImplementsScan == S!Spec

\* Walks that come round to the document of the cursor: every page begins with it,
\* or the client asks for numbered pages of no size.
Stays == IF ByCursor THEN HasId(sort) /\ (limit < 2 \/ Descends(sort)) ELSE limit = 0

\* A client that keeps following the links to the next page comes to an end, or is
\* refused: but by cursors when the sort has the _id and it descends or pages hold
\* one document or have no bound, and by numbers when pages have no size.
EveryWalkEnds ==
    (stage = "query" /\ ~turned /\ ~Stays) ~>
        (turned \/ stage = "refused" \/ (stage = "answered" /\ (next = None \/ docs = {})))
=============================================================================
