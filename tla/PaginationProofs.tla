-------------------------- MODULE PaginationProofs ---------------------------
(***************************************************************************)
(* Theorems about Pagination, for any documents, sort, sizes of pages and  *)
(* writes.                                                                 *)
(*                                                                         *)
(* The order of the database is a strict order, total on documents whose   *)
(* _ids differ; the query that a cursor stands for selects what comes      *)
(* after, or before, the document it was made from; and so the pages of a  *)
(* walk are adjacent runs of the list, which is what Scan promises; and a  *)
(* walk forward lists what stays once: none is missed and none repeated.   *)
(***************************************************************************)
EXTENDS Pagination, FiniteSetTheorems, WellFoundedInduction, SequenceTheorems, TLAPS

-----------------------------------------------------------------------------
(* The order of the database.                                              *)

\* The two documents are the same to the sort before position i.
Tied(s, d, e, i) == \A j \in 1 .. (i - 1) : d[s[j].path] = e[s[j].path]

\* Position i of the sort tells the two documents apart, and d comes first.
Decides(s, d, e, i) == Less(d[s[i].path], e[s[i].path], Order(s[i]))

LEMMA SortIsSequence ==
    ASSUME NEW s \in Sorts
    PROVE  /\ Len(s) \in Nat
           /\ DOMAIN s = 1 .. Len(s)
           /\ s = [i \in 1 .. Len(s) |-> s[i]]
           /\ \A i \in 1 .. Len(s) : s[i] \in [path : STRING, order : {1, -1}]
           /\ \A i \in 1 .. Len(s) : s[i].order \in {1, -1} /\ Order(s[i]) \in {1, -1}
           /\ \A d \in Documents : d["_id"] \in Int
           /\ \A d \in Documents : \A i \in 1 .. Len(s) : d[s[i].path] \in Int \cup {None}
           /\ \A i, j \in 1 .. Len(s) : s[i].path = s[j].path => i = j
  <1> DEFINE E == [path : STRING, order : {1, -1}]
  <1>1. s \in Seq(E)
      BY PaginationAssumption
  <1> HIDE DEF E
  <1>2. /\ Len(s) \in Nat /\ DOMAIN s = 1 .. Len(s)
        /\ s = [i \in 1 .. Len(s) |-> s[i]]
        /\ \A i \in 1 .. Len(s) : s[i] \in E
      BY <1>1
  <1>3. \A i \in 1 .. Len(s) : s[i].order \in {1, -1} /\ Order(s[i]) \in {1, -1}
      BY <1>2 DEF E, Order
  <1>4. /\ \A d \in Documents : d["_id"] \in Int
        /\ \A d \in Documents : \A i \in 1 .. Len(s) : d[s[i].path] \in Int \cup {None}
        /\ \A i, j \in 1 .. Len(s) : s[i].path = s[j].path => i = j
      BY <1>2, PaginationAssumption
  <1> QED
      BY <1>2, <1>3, <1>4 DEF E

\* Either order of values is strict and total; no value is the lowest.
LEMMA LessIsOrder ==
    ASSUME NEW o \in {1, -1}, NEW x \in Int \cup {None}, NEW y \in Int \cup {None},
           NEW z \in Int \cup {None}
    PROVE  /\ ~Less(x, x, o)
           /\ Less(x, y, o) /\ Less(y, z, o) => Less(x, z, o)
           /\ x # y => Less(x, y, o) \/ Less(y, x, o)
  <1>1. /\ ~Lower(x, x)
        /\ Lower(x, y) /\ Lower(y, z) => Lower(x, z)
        /\ Lower(z, y) /\ Lower(y, x) => Lower(z, x)
        /\ x # y => Lower(x, y) \/ Lower(y, x)
      BY PaginationAssumption DEF Lower
  <1> QED
      BY <1>1 DEF Less

LEMMA PrecedesByPosition ==
    ASSUME NEW s \in Sorts, NEW d, NEW e
    PROVE  Precedes(s, d, e) <=>
              \/ \E i \in 1 .. Len(s) : Tied(s, d, e, i) /\ Decides(s, d, e, i)
              \/ Tied(s, d, e, Len(s) + 1) /\ d["_id"] < e["_id"]
  BY SortIsSequence DEF Precedes, Tied, Decides

LEMMA PrecedesIrreflexive ==
    ASSUME NEW s \in Sorts, NEW d \in Documents
    PROVE  ~Precedes(s, d, d)
  <1>1. \A i \in 1 .. Len(s) : ~Less(d[s[i].path], d[s[i].path], Order(s[i]))
      BY SortIsSequence, LessIsOrder
  <1> QED
      BY <1>1, SortIsSequence DEF Precedes

LEMMA PrecedesTransitive ==
    ASSUME NEW s \in Sorts, NEW d \in Documents, NEW e \in Documents, NEW f \in Documents,
           Precedes(s, d, e), Precedes(s, e, f)
    PROVE  Precedes(s, d, f)
  <1> DEFINE n == Len(s)
  <1>1. ASSUME NEW i \in 1 .. n, NEW j \in 1 .. n,
               Tied(s, d, e, i), Decides(s, d, e, i), Tied(s, e, f, j), Decides(s, e, f, j)
        PROVE  Precedes(s, d, f)
      <2>1. CASE i < j
          <3>1. Tied(s, d, f, i) /\ e[s[i].path] = f[s[i].path]
              BY <1>1, <2>1, SortIsSequence DEF Tied
          <3> QED
              BY <1>1, <3>1, PrecedesByPosition DEF Decides
      <2>2. CASE j < i
          <3>1. d[s[j].path] = e[s[j].path]
              BY <1>1, <2>2, SortIsSequence DEF Tied
          <3>2. \A k \in 1 .. (j - 1) : k \in 1 .. (i - 1)
              BY <2>2, SortIsSequence
          <3>3. Tied(s, d, f, j)
              BY <1>1, <3>2 DEF Tied
          <3> QED
              BY <1>1, <3>1, <3>3, PrecedesByPosition DEF Decides
      <2>3. CASE i = j
          <3>1. Tied(s, d, f, i)
              BY <1>1, <2>3 DEF Tied
          <3>2. Decides(s, d, f, i)
              BY <1>1, <2>3, SortIsSequence, LessIsOrder DEF Decides
          <3> QED
              BY <3>1, <3>2, PrecedesByPosition
      <2> QED
          BY <2>1, <2>2, <2>3, SortIsSequence
  <1>2. ASSUME NEW i \in 1 .. n, Tied(s, d, e, i), Decides(s, d, e, i), Tied(s, e, f, n + 1)
        PROVE  Precedes(s, d, f)
      <2>1. Tied(s, d, f, i) /\ e[s[i].path] = f[s[i].path]
          BY <1>2, SortIsSequence DEF Tied
      <2> QED
          BY <1>2, <2>1, PrecedesByPosition DEF Decides
  <1>3. ASSUME NEW j \in 1 .. n, Tied(s, d, e, n + 1), Tied(s, e, f, j), Decides(s, e, f, j)
        PROVE  Precedes(s, d, f)
      <2>1. Tied(s, d, f, j) /\ d[s[j].path] = e[s[j].path]
          BY <1>3, SortIsSequence DEF Tied
      <2> QED
          BY <1>3, <2>1, PrecedesByPosition DEF Decides
  <1>4. ASSUME Tied(s, d, e, n + 1), d["_id"] < e["_id"],
               Tied(s, e, f, n + 1), e["_id"] < f["_id"]
        PROVE  Precedes(s, d, f)
      <2>1. Tied(s, d, f, n + 1) /\ d["_id"] < f["_id"]
          BY <1>4, SortIsSequence DEF Tied
      <2> QED
          BY <2>1, PrecedesByPosition
  <1> QED
      BY <1>1, <1>2, <1>3, <1>4, PrecedesByPosition

\* The two documents are the same to the sort, and to the database.
Same(s, d, e) == Tied(s, d, e, Len(s) + 1) /\ d["_id"] = e["_id"]

\* The first position at which two documents differ decides.
LEMMA PrecedesOrSame ==
    ASSUME NEW s \in Sorts, NEW d \in Documents, NEW e \in Documents
    PROVE  Precedes(s, d, e) \/ Precedes(s, e, d) \/ Same(s, d, e)
  <1> DEFINE n == Len(s)
             T == {i \in 1 .. n : d[s[i].path] # e[s[i].path]}
             R == OpToRel(<, Nat)
  <1>1. CASE T = {}
      <2>1. Tied(s, d, e, n + 1) /\ Tied(s, e, d, n + 1)
          BY <1>1, SortIsSequence DEF Tied
      <2> QED
          BY <2>1, SortIsSequence, PrecedesByPosition DEF Same
  <1>2. CASE T # {}
      <2>1. T \subseteq Nat
          BY SortIsSequence
      <2>2. IsWellFoundedOn(R, Nat)
          BY NatLessThanWellFounded
      <2> HIDE DEF T, R
      <2>3. PICK i \in T : \A j \in T : <<j, i>> \notin R
          BY <1>2, <2>1, <2>2, WFMin
      <2>4. \A j \in T : ~(j < i)
          BY <2>1, <2>3 DEF OpToRel, R
      <2>5. i \in 1 .. n /\ Tied(s, d, e, i) /\ Tied(s, e, d, i)
          BY <2>4, SortIsSequence, SMTT(30) DEF T, Tied
      <2>6. Decides(s, d, e, i) \/ Decides(s, e, d, i)
          BY <2>5, SortIsSequence, LessIsOrder DEF T, Decides
      <2> QED
          BY <2>5, <2>6, PrecedesByPosition
  <1> QED
      BY <1>1, <1>2

LEMMA PrecedesTotal ==
    ASSUME NEW s \in Sorts, NEW d \in Documents, NEW e \in Documents, d["_id"] # e["_id"]
    PROVE  Precedes(s, d, e) \/ Precedes(s, e, d)
  BY PrecedesOrSame DEF Same

\* Documents that are the same to the sort have the same place in it.
LEMMA SamePlace ==
    ASSUME NEW s \in Sorts, NEW d, NEW e, NEW f, Same(s, d, e)
    PROVE  Precedes(s, f, d) <=> Precedes(s, f, e)
  <1>1. /\ \A i \in DOMAIN s : d[s[i].path] = e[s[i].path]
        /\ d["_id"] = e["_id"]
      BY SortIsSequence DEF Same, Tied
  <1>2. \A i \in DOMAIN s : \A j \in 1 .. (i - 1) : j \in DOMAIN s
      BY SortIsSequence
  <1> QED
      BY <1>1, <1>2 DEF Precedes

\* What is not beyond a document is not beyond what that is not beyond.
LEMMA NotBeyond ==
    ASSUME NEW s \in Sorts, NEW d \in Documents, NEW e \in Documents, NEW f \in Documents,
           ~Precedes(s, e, d), ~Precedes(s, f, e)
    PROVE  ~Precedes(s, f, d)
  <1> SUFFICES ASSUME Precedes(s, f, d) PROVE FALSE
      OBVIOUS
  <1>1. CASE Precedes(s, d, e)
      BY <1>1, PrecedesTransitive
  <1>2. CASE Same(s, d, e)
      BY <1>2, SamePlace
  <1> QED
      BY <1>1, <1>2, PrecedesOrSame

-----------------------------------------------------------------------------
(* Ends of a finite set, in a strict order R.                              *)

Strict(R, M) ==
    /\ \A x \in M : <<x, x>> \notin R
    /\ \A x, y, z \in M : <<x, y>> \in R /\ <<y, z>> \in R => <<x, z>> \in R

Below(R, M, x) == {y \in M : <<y, x>> \in R}

\* Some element has none before it: one with the fewest before it.
LEMMA HasMinimum ==
    ASSUME NEW M, IsFiniteSet(M), M # {}, NEW R, Strict(R, M)
    PROVE  \E x \in M : Below(R, M, x) = {}
  <1> DEFINE T == {Below(R, M, x) : x \in M}
             O == StrictSubsetOrdering(M)
             F == FiniteSubsetsOf(M)
  <1>1. F = SUBSET M
      BY FS_FiniteSubsetsOfFinite
  <1>2. T \subseteq F /\ T # {}
      <2>1. \A x \in M : Below(R, M, x) \in SUBSET M
          BY DEF Below
      <2> HIDE DEF F
      <2>2. T \subseteq F
          BY <1>1, <2>1
      <2> QED
          BY <2>2
  <1>3. IsWellFoundedOn(O, F)
      BY FS_StrictSubsetOrderingWellFounded
  <1> HIDE DEF T, O, F
  <1>4. PICK B \in T : \A C \in T : <<C, B>> \notin O
      BY <1>2, <1>3, WFMin
  <1>5. PICK x \in M : B = Below(R, M, x)
      BY <1>4 DEF T
  <1>6. ASSUME NEW y \in Below(R, M, x) PROVE FALSE
      <2>1. y \in M /\ <<y, x>> \in R
          BY <1>6 DEF Below
      <2>2. /\ Below(R, M, y) \subseteq Below(R, M, x)
            /\ y \notin Below(R, M, y)
          BY <1>5, <2>1 DEF Below, Strict
      <2>3. <<Below(R, M, y), Below(R, M, x)>> \in O
          <3>1. Below(R, M, y) \in SUBSET M /\ Below(R, M, x) \in SUBSET M
              BY DEF Below
          <3> QED
              BY <1>6, <2>2, <3>1 DEF O, StrictSubsetOrdering
      <2>4. Below(R, M, y) \in T
          BY <2>1 DEF T
      <2> QED
          BY <1>4, <1>5, <2>3, <2>4
  <1> QED
      BY <1>5, <1>6

\* The elements with fewer than n before them.
Front(n, R, M) == {x \in M : Cardinality(Below(R, M, x)) < n}

LEMMA FrontBegins ==
    ASSUME NEW M, IsFiniteSet(M), NEW R, Strict(R, M), NEW n \in Nat
    PROVE  /\ Front(n, R, M) \subseteq M
           /\ \A x \in Front(n, R, M), y \in M : <<y, x>> \in R => y \in Front(n, R, M)
           /\ n = 0 => Front(n, R, M) = {}
           /\ n > 0 /\ Front(n, R, M) = {} => M = {}
  <1>1. \A x \in M : /\ IsFiniteSet(Below(R, M, x))
                     /\ Cardinality(Below(R, M, x)) \in Nat
      BY FS_Subset, FS_CardinalityType DEF Below
  <1>2. ASSUME NEW x \in Front(n, R, M), NEW y \in M, <<y, x>> \in R
        PROVE  y \in Front(n, R, M)
      <2>1. x \in M
          BY DEF Front
      <2>2. Below(R, M, y) \subseteq Below(R, M, x)
          BY <1>2, <2>1 DEF Below, Strict
      <2>3. Cardinality(Below(R, M, y)) <= Cardinality(Below(R, M, x))
          BY <1>1, <2>1, <2>2, FS_Subset
      <2> QED
          BY <1>1, <2>1, <2>3 DEF Front
  <1>3. n = 0 => Front(n, R, M) = {}
      BY <1>1 DEF Front
  <1>4. ASSUME n > 0, M # {} PROVE Front(n, R, M) # {}
      <2>1. PICK x \in M : Below(R, M, x) = {}
          BY <1>4, HasMinimum
      <2>2. Cardinality(Below(R, M, x)) = 0
          BY <2>1, FS_EmptySet
      <2> QED
          BY <1>4, <2>1, <2>2 DEF Front
  <1> QED
      BY <1>2, <1>3, <1>4 DEF Front

-----------------------------------------------------------------------------
(* Pages and their ends.                                                   *)

Sorted(s, M) == {p \in M \X M : Precedes(s, p[1], p[2])}
Reverse(s, M) == {p \in M \X M : Precedes(s, p[2], p[1])}

LEMMA OrdersAreStrict ==
    ASSUME NEW s \in Sorts, NEW M \in SUBSET Documents
    PROVE  Strict(Sorted(s, M), M) /\ Strict(Reverse(s, M), M)
  <1>1. \A x, y \in M : <<x, y>> \in Sorted(s, M) <=> Precedes(s, x, y)
      BY DEF Sorted
  <1>2. \A x, y \in M : <<x, y>> \in Reverse(s, M) <=> Precedes(s, y, x)
      BY DEF Reverse
  <1>3. \A x, y, z \in M : Precedes(s, x, y) /\ Precedes(s, y, z) => Precedes(s, x, z)
      BY PrecedesTransitive
  <1>4. \A x \in M : ~Precedes(s, x, x)
      BY PrecedesIrreflexive
  <1> QED
      BY <1>1, <1>2, <1>3, <1>4 DEF Strict

LEMMA DocumentsAreFinite ==
    ASSUME NEW M \in SUBSET Documents
    PROVE  IsFiniteSet(M)
  BY PaginationAssumption, FS_Subset

\* P is a beginning of M, or an end of it.
Opening(s, P, M) ==
    /\ P \subseteq M
    /\ \A p \in P, m \in M : Precedes(s, m, p) => m \in P
    /\ P = {} => M = {}
Ending(s, P, M) ==
    /\ P \subseteq M
    /\ \A p \in P, m \in M : Precedes(s, p, m) => m \in P
    /\ P = {} => M = {}

LEMMA FirstBegins ==
    ASSUME NEW s \in Sorts, NEW M \in SUBSET Documents, NEW n \in Nat
    PROVE  /\ n # 0 => Opening(s, First(s, n, M), M)
           /\ First(s, 0, M) = {}
  <1> DEFINE R == Sorted(s, M)
  <1>1. \A x \in M : Below(R, M, x) = {e \in M : Precedes(s, e, x)}
      BY DEF Below, Sorted
  <1>2. \A k : First(s, k, M) = Front(k, R, M)
      BY <1>1 DEF First, Front
  <1>3. \A x, y \in M : Precedes(s, x, y) => <<x, y>> \in R
      BY DEF Sorted
  <1>4. IsFiniteSet(M) /\ Strict(R, M)
      BY DocumentsAreFinite, OrdersAreStrict
  <1> HIDE DEF R
  <1>5. First(s, 0, M) = {}
      BY <1>2, <1>4, FrontBegins
  <1>6. ASSUME n > 0 PROVE Opening(s, First(s, n, M), M)
      <2>1. /\ Front(n, R, M) \subseteq M
            /\ \A x \in Front(n, R, M), y \in M : <<y, x>> \in R => y \in Front(n, R, M)
            /\ Front(n, R, M) = {} => M = {}
          BY <1>4, <1>6, FrontBegins
      <2>2. First(s, n, M) = Front(n, R, M)
          BY <1>2
      <2> HIDE DEF Front, First
      <2>3. \A x \in Front(n, R, M), y \in M : Precedes(s, y, x) => y \in Front(n, R, M)
          BY <1>3, <2>1
      <2> QED
          BY <2>1, <2>2, <2>3 DEF Opening
  <1> QED
      BY <1>5, <1>6

LEMMA LastEnds ==
    ASSUME NEW s \in Sorts, NEW M \in SUBSET Documents, NEW n \in Nat, n # 0
    PROVE  Ending(s, Last(s, n, M), M)
  <1> DEFINE R == Reverse(s, M)
  <1>1. \A x \in M : Below(R, M, x) = {e \in M : Precedes(s, x, e)}
      BY DEF Below, Reverse
  <1>2. Last(s, n, M) = Front(n, R, M)
      BY <1>1 DEF Last, Front
  <1>3. \A x, y \in M : Precedes(s, x, y) => <<y, x>> \in R
      BY DEF Reverse
  <1>4. IsFiniteSet(M) /\ Strict(R, M)
      BY DocumentsAreFinite, OrdersAreStrict
  <1> HIDE DEF R
  <1>5. /\ Front(n, R, M) \subseteq M
        /\ \A x \in Front(n, R, M), y \in M : <<y, x>> \in R => y \in Front(n, R, M)
        /\ Front(n, R, M) = {} => M = {}
      <2>1. n > 0
          OBVIOUS
      <2> QED
          BY <1>4, <2>1, FrontBegins
  <1> QED
      BY <1>2, <1>3, <1>5 DEF Ending

\* A page that is not empty has a first and a last document.
LEMMA EndsOfPage ==
    ASSUME NEW s \in Sorts, NEW P \in SUBSET Documents, Unique(P), P # {}
    PROVE  /\ FirstOf(s, P) \in P /\ \A e \in P : e = FirstOf(s, P) \/ Precedes(s, FirstOf(s, P), e)
           /\ LastOf(s, P) \in P /\ \A e \in P : e = LastOf(s, P) \/ Precedes(s, e, LastOf(s, P))
  <1>1. \A x, y \in P : x = y \/ Precedes(s, x, y) \/ Precedes(s, y, x)
      BY PrecedesTotal DEF Unique
  <1>2. IsFiniteSet(P) /\ Strict(Sorted(s, P), P) /\ Strict(Reverse(s, P), P)
      BY DocumentsAreFinite, OrdersAreStrict
  <1>3. PICK x \in P : Below(Sorted(s, P), P, x) = {}
      BY <1>2, HasMinimum
  <1>4. \A e \in P : e = x \/ Precedes(s, x, e)
      BY <1>1, <1>3 DEF Below, Sorted
  <1>5. PICK y \in P : Below(Reverse(s, P), P, y) = {}
      BY <1>2, HasMinimum
  <1>6. \A e \in P : e = y \/ Precedes(s, e, y)
      BY <1>1, <1>5 DEF Below, Reverse
  <1> QED
      BY <1>4, <1>6 DEF FirstOf, LastOf

-----------------------------------------------------------------------------
(* The query that a cursor stands for.                                     *)

LEMMA CursorFields ==
    ASSUME NEW s \in Sorts, NEW a \in Documents, NEW r \in BOOLEAN, NEW c,
           c = EncodePaginationCursor(s, a, r)
    PROVE  /\ c.id = a["_id"] /\ c.reverse = r
           /\ Len(c.sort) = Len(s) /\ DOMAIN c.sort = 1 .. Len(s)
           /\ \A i \in 1 .. Len(s) :
                 /\ c.sort[i].path = s[i].path
                 /\ c.sort[i].value = a[s[i].path]
                 /\ c.sort[i].order = IF r THEN -s[i].order ELSE s[i].order
           /\ HasId(c.sort) <=> HasId(s)
           /\ c # None /\ c # Initial
           /\ ValidateCursor(s, c) <=> \A i \in DOMAIN s : s[i].path \notin Dotted
  <1> DEFINE n == Len(s)
             f == [i \in 1 .. n |-> [path |-> s[i].path, value |-> a[s[i].path],
                                     order |-> IF r THEN -s[i].order ELSE s[i].order]]
  <1>1. c = [id |-> a["_id"], reverse |-> r, sort |-> f]
      BY SortIsSequence DEF EncodePaginationCursor
  <1>2. c.id = a["_id"] /\ c.reverse = r /\ c.sort = f
      BY <1>1
  <1>3. DOMAIN f = 1 .. n /\ Len(f) = n
      BY SortIsSequence
  <1>4. \A i \in 1 .. n : /\ f[i].path = s[i].path
                          /\ f[i].value = a[s[i].path]
                          /\ f[i].order = IF r THEN -s[i].order ELSE s[i].order
      OBVIOUS
  <1> HIDE DEF f
  <1>5. c # None /\ c # Initial
      <2>1. a["_id"] # None
          BY PaginationAssumption
      <2> QED
          BY <1>2, <2>1, CursorAssumption DEF Initial
  <1>6. s = [i \in DOMAIN c.sort |->
                [path |-> c.sort[i].path,
                 order |-> IF c.reverse THEN -c.sort[i].order ELSE c.sort[i].order]]
      <2> DEFINE g == [i \in DOMAIN c.sort |->
                         [path |-> c.sort[i].path,
                          order |-> IF c.reverse THEN -c.sort[i].order
                                    ELSE c.sort[i].order]]
      <2>1. \A i \in 1 .. n : s[i] = [path |-> s[i].path, order |-> s[i].order]
          <3> DEFINE E == [path : STRING, order : {1, -1}]
          <3>1. \A i \in 1 .. n : s[i] \in E
              BY SortIsSequence
          <3>2. \A k \in E : k = [path |-> k.path, order |-> k.order]
              OBVIOUS
          <3> HIDE DEF E
          <3> QED
              BY <3>1, <3>2
      <2>2. \A i \in 1 .. n : g[i] = s[i]
          BY <1>2, <1>3, <1>4, <2>1, SortIsSequence
      <2>3. s = [i \in 1 .. n |-> s[i]]
          BY SortIsSequence
      <2> QED
          BY <1>2, <1>3, <2>2, <2>3
  <1>7. HasId(c.sort) <=> HasId(s)
      BY <1>2, <1>3, <1>4, SortIsSequence DEF HasId
  <1> QED
      BY <1>2, <1>3, <1>4, <1>5, <1>6, <1>7 DEF ValidateCursor

LEMMA MadeCursors ==
    ASSUME NEW s \in Sorts, NEW d \in Documents, Complete(s, d), NEW r \in BOOLEAN
    PROVE  EncodePaginationCursor(s, d, r) \in Cursors(s)
  <1> DEFINE D == {e \in Documents : Complete(s, e)}
             C == {EncodePaginationCursor(s, x, y) : x \in D, y \in BOOLEAN}
  <1>1. d \in D
      OBVIOUS
  <1> HIDE DEF D
  <1>2. EncodePaginationCursor(s, d, r) \in C
      BY <1>1
  <1> QED
      BY <1>2 DEF Cursors, D

\* A comparison with a value that is there is the order of the sort, but for
\* documents without the field.
LEMMA Compares ==
    ASSUME NEW o \in {1, -1}, NEW v \in Int, NEW x \in Int \cup {None}
    PROVE  /\ (x # None /\ IF o > 0 THEN x > v ELSE x < v) <=> (x # None /\ Less(v, x, o))
           /\ (x # None /\ IF o > 0 THEN x < v ELSE x > v) <=> (x # None /\ Less(x, v, o))
           /\ -o \in {1, -1} /\ (-o > 0 <=> ~(o > 0))
  BY PaginationAssumption DEF Less, Lower

\* An alternative of the query is a position at which the order may decide.
LEMMA ClauseSelects ==
    ASSUME NEW s \in Sorts, ~Descends(s), NEW a \in Documents, Complete(s, a),
           NEW d \in Documents, NEW r \in BOOLEAN,
           NEW i \in 1 .. Len(s) + 1, NEW c, c = EncodePaginationCursor(s, a, r)
    PROVE  (\A cond \in Clause(c, i) : Meets(d, cond)) <=>
              /\ Tied(s, a, d, i)
              /\ IF i \in 1 .. Len(s)
                 THEN /\ d[s[i].path] # None
                      /\ IF r THEN Decides(s, d, a, i) ELSE Decides(s, a, d, i)
                 ELSE \/ HasId(s)
                      \/ IF r THEN d["_id"] < a["_id"] ELSE a["_id"] < d["_id"]
  <1> DEFINE n == Len(s)
             E == {Condition(c.sort[j].path, "$eq", c.sort[j].value) : j \in 1 .. (i - 1)}
             x == Condition(c.sort[i].path, Comparison(c.sort[i].order), c.sort[i].value)
             y == Condition("_id", IdComparison(c), c.id)
  <1>1. /\ c.id = a["_id"] /\ c.reverse = r /\ DOMAIN c.sort = 1 .. n
        /\ \A j \in 1 .. n : /\ c.sort[j].path = s[j].path
                             /\ c.sort[j].value = a[s[j].path]
                             /\ c.sort[j].order = IF r THEN -s[j].order ELSE s[j].order
        /\ HasId(c.sort) <=> HasId(s)
      BY CursorFields
  <1>2. Clause(c, i) = E \cup IF i \in DOMAIN c.sort THEN {x}
                              ELSE IF HasId(c.sort) THEN {} ELSE {y}
      BY DEF Clause
  <1>3. \A p, v : Meets(d, Condition(p, "$eq", v)) <=> d[p] = v
      BY DEF Meets, Condition
  <1>4. \A p, v : /\ Meets(d, Condition(p, "$gt", v)) <=> d[p] # None /\ d[p] > v
                  /\ Meets(d, Condition(p, "$lt", v)) <=> d[p] # None /\ d[p] < v
      BY DEF Meets, Condition
  <1>5. (\A cond \in E : Meets(d, cond)) <=> Tied(s, a, d, i)
      <2>1. (\A cond \in E : Meets(d, cond)) <=>
               \A j \in 1 .. (i - 1) : d[c.sort[j].path] = c.sort[j].value
          BY <1>3
      <2>2. \A j \in 1 .. (i - 1) : j \in 1 .. n
          BY SortIsSequence
      <2> HIDE DEF E
      <2> QED
          BY <1>1, <2>1, <2>2 DEF Tied
  <1>6. CASE i \in 1 .. n
      <2> DEFINE o == s[i].order
                 v == a[s[i].path]
                 z == d[s[i].path]
      <2>1. x = Condition(s[i].path, Comparison(IF r THEN -o ELSE o), v)
          BY <1>1, <1>6
      <2>2. o \in {1, -1} /\ Order(s[i]) = o /\ v \in Int /\ z \in Int \cup {None}
          BY <1>6, SortIsSequence DEF Complete, Descends, Order
      <2>3. /\ Decides(s, d, a, i) <=> Less(z, v, o)
            /\ Decides(s, a, d, i) <=> Less(v, z, o)
          BY <2>2 DEF Decides
      <2> HIDE DEF o, v
      <2>4. Meets(d, x) <=> z # None /\ IF (IF r THEN -o ELSE o) > 0 THEN z > v ELSE z < v
          BY <1>4, <2>1 DEF Comparison
      <2> HIDE DEF z, x
      <2>5. Meets(d, x) <=> z # None /\ IF r THEN Less(z, v, o) ELSE Less(v, z, o)
          <3>1. CASE r
              BY <2>2, <2>4, <3>1, Compares
          <3>2. CASE ~r
              BY <2>2, <2>4, <3>2, Compares
          <3> QED
              BY <3>1, <3>2
      <2> HIDE DEF E
      <2> QED
          BY <1>1, <1>2, <1>5, <1>6, <2>3, <2>5 DEF z
  <1>7. CASE i \notin 1 .. n
      <2>1. y = Condition("_id", IdComparison(c), a["_id"])
          BY <1>1
      <2>2. a["_id"] \in Int /\ d["_id"] \in Int /\ d["_id"] # None
          BY PaginationAssumption
      <2>3. Meets(d, y) <=> IF r THEN d["_id"] < a["_id"] ELSE a["_id"] < d["_id"]
          BY <1>1, <1>4, <2>1, <2>2 DEF IdComparison
      <2> HIDE DEF E, x, y
      <2> QED
          BY <1>1, <1>2, <1>5, <1>7, <2>3
  <1> QED
      BY <1>6, <1>7

\* The document has the field that tells it from the other one.
Comparable(s, a, d) == \A i \in 1 .. Len(s) : Tied(s, a, d, i) => d[s[i].path] # None

\* A cursor selects what comes after the document it was made from, and one
\* that leads back what comes before it, in the sort of the client with _id last:
\* of the documents that have the field that tells them from that one.  If the sort
\* has the _id, it selects the document it was made from as well.
THEOREM CursorSelects ==
    ASSUME NEW s \in Sorts, ~Descends(s), NEW a \in Documents, Complete(s, a),
           NEW r \in BOOLEAN, stored \subseteq Documents
    PROVE  EncodeCursorQuery(EncodePaginationCursor(s, a, r)) =
              {d \in stored : \/ /\ Comparable(s, a, d)
                                 /\ IF r THEN Precedes(s, d, a) ELSE Precedes(s, a, d)
                              \/ HasId(s) /\ Same(s, a, d)}
  <1> DEFINE n == Len(s)
             c == EncodePaginationCursor(s, a, r)
             Sel(d, i) == /\ Tied(s, a, d, i)
                          /\ IF i \in 1 .. n
                             THEN /\ d[s[i].path] # None
                                  /\ IF r THEN Decides(s, d, a, i) ELSE Decides(s, a, d, i)
                             ELSE \/ HasId(s)
                                  \/ IF r THEN d["_id"] < a["_id"] ELSE a["_id"] < d["_id"]
  <1>1. c # None /\ c # Initial /\ Len(c.sort) = n
      BY CursorFields
  <1>2. EncodeCursorQuery(c) = {d \in stored : \E i \in 1 .. n + 1 :
                                  \A cond \in Clause(c, i) : Meets(d, cond)}
      <2> HIDE DEF c
      <2> QED
          BY <1>1 DEF EncodeCursorQuery
  <1>3. ASSUME NEW d \in stored
        PROVE  (\E i \in 1 .. n + 1 : \A cond \in Clause(c, i) : Meets(d, cond)) <=>
                  \/ /\ Comparable(s, a, d)
                     /\ IF r THEN Precedes(s, d, a) ELSE Precedes(s, a, d)
                  \/ HasId(s) /\ Same(s, a, d)
      <2>1. d \in Documents
          OBVIOUS
      <2>2. \A i \in 1 .. n + 1 : (\A cond \in Clause(c, i) : Meets(d, cond)) <=> Sel(d, i)
          BY <2>1, ClauseSelects
      <2>3. \A i : Tied(s, a, d, i) <=> Tied(s, d, a, i)
          BY DEF Tied
      <2>4. \A i \in 1 .. n + 1 : i \in 1 .. n \/ i = n + 1
          BY SortIsSequence
      <2>5. (\A i \in 1 .. n : i \in 1 .. n + 1) /\ n + 1 \in 1 .. n + 1 /\ n + 1 \notin 1 .. n
          BY SortIsSequence
      <2>6. (IF r THEN Precedes(s, d, a) ELSE Precedes(s, a, d)) <=>
               \/ \E i \in 1 .. n :
                     /\ Tied(s, a, d, i)
                     /\ IF r THEN Decides(s, d, a, i) ELSE Decides(s, a, d, i)
               \/ /\ Tied(s, a, d, n + 1)
                  /\ IF r THEN d["_id"] < a["_id"] ELSE a["_id"] < d["_id"]
          BY <2>3, PrecedesByPosition
      <2> HIDE DEF c
      <2>7. ASSUME NEW i \in 1 .. n, Sel(d, i) PROVE Comparable(s, a, d)
          <3> SUFFICES ASSUME NEW k \in 1 .. n, Tied(s, a, d, k) PROVE d[s[k].path] # None
              BY DEF Comparable
          <3>1. n \in Nat
              BY SortIsSequence
          <3>2. CASE k < i
              BY <2>7, <3>1, <3>2, SortIsSequence DEF Tied, Complete
          <3>3. CASE k = i
              BY <2>7, <3>3
          <3>4. CASE i < k
              <4>1. a[s[i].path] = d[s[i].path]
                  BY <3>1, <3>4 DEF Tied
              <4>2. ~Less(a[s[i].path], a[s[i].path], Order(s[i]))
                  BY SortIsSequence, LessIsOrder
              <4>3. Decides(s, d, a, i) \/ Decides(s, a, d, i)
                  BY <2>7
              <4> QED
                  BY <4>1, <4>2, <4>3 DEF Decides
          <3> QED
              BY <3>1, <3>2, <3>3, <3>4
      <2>8. ASSUME Tied(s, a, d, n + 1)
            PROVE  /\ Comparable(s, a, d)
                   /\ HasId(s) => Same(s, a, d)
          <3>1. \A i \in 1 .. n : a[s[i].path] = d[s[i].path] /\ a[s[i].path] # None
              BY <2>8, SortIsSequence DEF Tied, Complete
          <3> QED
              BY <2>8, <3>1, SortIsSequence DEF Comparable, HasId, Same
      <2>9. ASSUME NEW i \in 1 .. n + 1, Sel(d, i)
            PROVE  \/ /\ Comparable(s, a, d)
                      /\ IF r THEN Precedes(s, d, a) ELSE Precedes(s, a, d)
                   \/ HasId(s) /\ Same(s, a, d)
          <3>1. CASE i \in 1 .. n
              BY <2>6, <2>7, <2>9, <3>1
          <3>2. CASE i = n + 1
              BY <2>5, <2>6, <2>8, <2>9, <3>2
          <3> QED
              BY <2>4, <3>1, <3>2
      <2>10. ASSUME Comparable(s, a, d), IF r THEN Precedes(s, d, a) ELSE Precedes(s, a, d)
             PROVE  \E i \in 1 .. n + 1 : Sel(d, i)
          <3>1. \A i \in 1 .. n : Tied(s, a, d, i) => d[s[i].path] # None
              BY <2>10 DEF Comparable
          <3>2. CASE \E i \in 1 .. n :
                        /\ Tied(s, a, d, i)
                        /\ IF r THEN Decides(s, d, a, i) ELSE Decides(s, a, d, i)
              BY <2>5, <3>1, <3>2
          <3>3. CASE /\ Tied(s, a, d, n + 1)
                     /\ IF r THEN d["_id"] < a["_id"] ELSE a["_id"] < d["_id"]
              BY <2>5, <3>3
          <3> QED
              BY <2>6, <2>10, <3>2, <3>3
      <2>11. ASSUME HasId(s), Same(s, a, d) PROVE Sel(d, n + 1)
          BY <2>5, <2>11 DEF Same
      <2> HIDE DEF Sel, n
      <2> QED
          BY <2>2, <2>5, <2>9, <2>10, <2>11
  <1> QED
      BY <1>2, <1>3

\* When all documents have the fields of the sort, and it has no _id, a cursor
\* selects just what comes after, or before.
LEMMA WholeSelects ==
    ASSUME NEW s \in Sorts, Whole(s), NEW a \in Documents,
           NEW r \in BOOLEAN, stored \subseteq Documents
    PROVE  EncodeCursorQuery(EncodePaginationCursor(s, a, r)) =
              {d \in stored : IF r THEN Precedes(s, d, a) ELSE Precedes(s, a, d)}
  <1>1. ~HasId(s) /\ ~Descends(s) /\ Complete(s, a)
      BY DEF Whole, HasId, Descends
  <1>2. \A d \in stored : Comparable(s, a, d)
      BY SortIsSequence DEF Whole, Complete, Comparable
  <1>3. EncodeCursorQuery(EncodePaginationCursor(s, a, r)) =
              {d \in stored : \/ /\ Comparable(s, a, d)
                                 /\ IF r THEN Precedes(s, d, a) ELSE Precedes(s, a, d)
                              \/ HasId(s) /\ Same(s, a, d)}
      BY <1>1, CursorSelects
  <1> QED
      BY <1>1, <1>2, <1>3

-----------------------------------------------------------------------------
(* The walk: a cursor in use was made from an end of the page before, and  *)
(* a page that is not empty is followed by way of its ends.                *)

NextCursor == EncodePaginationCursor(sort, LastOf(sort, docs), FALSE)
PreviousCursor == EncodePaginationCursor(sort, FirstOf(sort, docs), TRUE)

\* The end of the page has the fields that its cursor is made of.
NextMade == Complete(sort, LastOf(sort, docs))
PreviousMade == Complete(sort, FirstOf(sort, docs))

Trail ==
    /\ stage = "idle" => docs = {}
    /\ stage # "answered" => next = None /\ previous = None
    /\ cursor # None => skip = 1
    /\ stage = "query" /\ cursor \notin {None, Initial} =>
          /\ docs # {}
          /\ \/ cursor = NextCursor /\ NextMade
             \/ cursor = PreviousCursor /\ PreviousMade
    /\ next # None =>
          \/ docs # {} /\ cursor # None /\ next = Link(NextCursor, 1) /\ NextMade
          \/ (docs = {} \/ cursor = None) /\ next = Link(cursor, skip + 1)
    /\ previous # None =>
          \/ docs # {} /\ cursor # None /\ previous = Link(PreviousCursor, 1) /\ PreviousMade
          \/ cursor = None /\ skip > 1 /\ previous = Link(None, skip - 1)

Inv == TypeOK /\ Trail

LEMMA WalkInit == Init => Inv
  <1> SUFFICES ASSUME Init PROVE Inv
      OBVIOUS
  <1>1. TypeOK
      <2>1. stored \subseteq Documents /\ Unique(stored) /\ Unique({})
          BY DEF Init, Unique
      <2>2. writes \in 0 .. MaxWrites /\ skip \in 1 .. (MaxPage + 1)
          BY PaginationAssumption DEF Init
      <2>3. \A l \in {next, previous} \ {None} : FALSE
          BY DEF Init
      <2>4. cursor \in Cursors(sort)
          BY DEF Init, Cursors
      <2> QED
          BY <2>1, <2>2, <2>3, <2>4 DEF Init, TypeOK
  <1>2. Trail
      BY DEF Init, Trail
  <1> QED
      BY <1>1, <1>2 DEF Inv

LEMMA EndsAreDocuments ==
    ASSUME TypeOK, docs # {}
    PROVE  /\ FirstOf(sort, docs) \in Documents /\ LastOf(sort, docs) \in Documents
           /\ NextCursor # None /\ NextCursor # Initial
           /\ PreviousCursor # None /\ PreviousCursor # Initial
           /\ \A c \in {NextCursor, PreviousCursor} :
                 ValidateCursor(sort, c) <=> \A i \in DOMAIN sort : sort[i].path \notin Dotted
  <1>1. FirstOf(sort, docs) \in Documents /\ LastOf(sort, docs) \in Documents
      BY EndsOfPage DEF TypeOK
  <1> QED
      BY <1>1, CursorFields, ZenonT(60) DEF TypeOK, NextCursor, PreviousCursor

\* A page is a run of the collection as it is, beside the page before.
LEMMA PageIsRun ==
    ASSUME Inv, stage = "query"
    PROVE  /\ Page \subseteq stored
           /\ cursor = Initial => Opening(sort, Page, stored)
           /\ cursor \notin {None, Initial} /\ Whole(sort) =>
                 IF cursor = NextCursor THEN Opening(sort, Page, S!After)
                 ELSE Ending(sort, Page, S!Before)
  <1> DEFINE M == EncodeCursorQuery(cursor)
  <1>1. /\ stored \in SUBSET Documents /\ docs \in SUBSET Documents /\ Unique(docs)
        /\ limit \in Nat /\ skip \in Nat /\ sort \in Sorts
      BY PaginationAssumption DEF Inv, TypeOK
  <1>2. M \in SUBSET stored
      BY DEF EncodeCursorQuery
  <1>3. Page \subseteq stored
      BY <1>2 DEF Page, First, Last
  <1>4. ASSUME cursor = Initial PROVE Opening(sort, Page, stored)
      <2>1. skip = 1 /\ Skipped = 0
          BY <1>1, <1>4, CursorAssumption DEF Inv, Trail, Skipped
      <2>2. M = stored
          BY <1>4 DEF EncodeCursorQuery
      <2>3. First(sort, 0, stored) = {}
          BY <1>1, FirstBegins
      <2>4. Page = IF limit = 0 THEN stored ELSE First(sort, limit, stored)
          <3>1. stored \ {} = stored
              OBVIOUS
          <3> HIDE DEF M
          <3> QED
              BY <1>4, <2>1, <2>2, <2>3, <3>1 DEF Page, M
      <2>5. Opening(sort, stored, stored)
          BY DEF Opening
      <2> QED
          BY <1>1, <2>4, <2>5, FirstBegins
  <1>5. ASSUME cursor \notin {None, Initial}, Whole(sort)
        PROVE  IF cursor = NextCursor THEN Opening(sort, Page, S!After)
               ELSE Ending(sort, Page, S!Before)
      <2>1. docs # {} /\ cursor \in {NextCursor, PreviousCursor}
          BY <1>5 DEF Inv, Trail
      <2> DEFINE f == FirstOf(sort, docs)
                 l == LastOf(sort, docs)
      <2>2. /\ f \in docs /\ \A e \in docs : e = f \/ Precedes(sort, f, e)
            /\ l \in docs /\ \A e \in docs : e = l \/ Precedes(sort, e, l)
          BY <1>1, <2>1, EndsOfPage
      <2>3. Opening(sort, M, M) /\ Ending(sort, M, M)
          BY DEF Opening, Ending
      <2>4. CASE cursor = NextCursor
          <3>0. l \in Documents /\ cursor = EncodePaginationCursor(sort, l, FALSE)
              BY <1>1, <2>2, <2>4 DEF NextCursor
          <3> HIDE DEF l
          <3>1. cursor.reverse = FALSE
              BY <3>0 DEF EncodePaginationCursor
          <3>2. M = {d \in stored : Precedes(sort, l, d)}
              <4>1. FALSE \in BOOLEAN
                  OBVIOUS
              <4> QED
                  BY <1>1, <1>5, <3>0, <4>1, WholeSelects, ZenonT(60)
          <3>3. M = S!After
              <4>1. \A d \in stored : Precedes(sort, l, d) <=> \A p \in docs : Precedes(sort, p, d)
                  BY <1>1, <2>2, PrecedesTransitive
              <4> QED
                  BY <1>5, <3>2, <4>1 DEF S!After, S!Comes, ByCursor
          <3>4. Page = IF limit = 0 THEN M ELSE First(sort, limit, M)
              BY <1>5, <3>1 DEF Page
          <3>5. Opening(sort, Page, M)
              <4> HIDE DEF M
              <4> QED
                  BY <1>1, <1>2, <2>3, <3>4, FirstBegins
          <3> QED
              BY <2>4, <3>3, <3>5
      <2>5. CASE cursor # NextCursor
          <3>1. cursor = PreviousCursor /\ cursor.reverse = TRUE
              BY <1>1, <2>1, <2>2, <2>5, CursorFields DEF PreviousCursor
          <3>2. M = {d \in stored : Precedes(sort, d, f)}
              BY <1>1, <1>5, <2>2, <3>1, WholeSelects, ZenonT(60) DEF PreviousCursor
          <3>3. M = S!Before
              <4>1. \A d \in stored : Precedes(sort, d, f) <=> \A p \in docs : Precedes(sort, d, p)
                  BY <1>1, <2>2, PrecedesTransitive
              <4> QED
                  BY <1>5, <3>2, <4>1 DEF S!Before, S!Comes, ByCursor
          <3>4. Page = IF limit = 0 THEN M ELSE Last(sort, limit, M)
              BY <1>5, <3>1 DEF Page
          <3>5. Ending(sort, Page, M)
              <4> HIDE DEF M
              <4> QED
                  BY <1>1, <1>2, <2>3, <3>4, LastEnds
          <3> QED
              BY <2>5, <3>3, <3>5
      <2> QED
          BY <2>4, <2>5
  <1> QED
      BY <1>3, <1>4, <1>5

\* The steps of the walk.  A write changes the collection under it only.
LEMMA WriteInv ==
    ASSUME Inv, NEW d \in Documents, Write(d)
    PROVE  Inv'
  <1> USE DEF Inv, TypeOK, Write, request, links
  <1>1. TypeOK'
      <2>1. stored' \subseteq Documents /\ Unique(stored')
          BY DEF Unique
      <2>2. writes' \in 0 .. MaxWrites
          BY PaginationAssumption
      <2>3. steady' \subseteq stored' /\ upset' \in BOOLEAN
          OBVIOUS
      <2> QED
          BY <2>1, <2>2, <2>3 DEF ByCursor
  <1>2. Trail'
      <2>1. UNCHANGED <<sort, stage, docs, next, previous, cursor, skip>>
          OBVIOUS
      <2>2. /\ NextCursor' = NextCursor /\ PreviousCursor' = PreviousCursor
            /\ NextMade' = NextMade /\ PreviousMade' = PreviousMade
          BY <2>1 DEF NextCursor, PreviousCursor, NextMade, PreviousMade
      <2>3. Trail
          OBVIOUS
      <2> QED
          BY ONLY <2>1, <2>2, <2>3 DEF Trail
  <1> QED
      BY <1>1, <1>2

LEMMA BeginInv ==
    ASSUME Inv, NEW n \in Limits, NEW c \in {None, Initial}, Begin(n, c)
    PROVE  Inv'
  <1> USE DEF Inv, TypeOK, Begin, links
  <1>1. skip' = 1
      BY DEF SkipOption
  <1>2. TypeOK'
      <2>1. skip' \in 1 .. (MaxPage + 1)
          BY <1>1, PaginationAssumption
      <2>2. cursor' \in Cursors(sort)
          BY DEF Cursors
      <2> QED
          BY <2>1, <2>2
  <1>3. Trail'
      BY <1>1 DEF Trail
  <1> QED
      BY <1>2, <1>3

\* The query reads a page, or is refused for a nested field.
LEMMA QueryInv ==
    ASSUME Inv, Query
    PROVE  /\ Inv'
           /\ \/ stage' = "count" /\ docs' = Page /\ listed' = listed \cup docs'
              \/ /\ stage' = "refused" /\ UNCHANGED <<docs, listed>>
                 /\ cursor \notin {None, Initial}
  <1> USE DEF Query, request, links
  <1>1. CASE cursor \in {None, Initial} \/ ValidateCursor(sort, cursor)
      <2>1. stage' = "count" /\ docs' = Page /\ listed' = listed \cup docs'
          BY <1>1
      <2>2. TypeOK'
          <3>1. docs' \subseteq stored
              BY <2>1, PageIsRun
          <3>2. docs' \subseteq Documents /\ Unique(docs') /\ listed' \subseteq Documents
              BY <2>1, <3>1 DEF Inv, TypeOK, Unique
          <3> QED
              BY <2>1, <3>2 DEF Inv, TypeOK
      <2>3. Trail'
          BY <2>1 DEF Inv, Trail
      <2> QED
          BY <2>1, <2>2, <2>3 DEF Inv
  <1>2. CASE cursor \notin {None, Initial} /\ ~ValidateCursor(sort, cursor)
      <2>1. stage' = "refused" /\ UNCHANGED <<docs, listed>>
          BY <1>2
      <2>2. \E i \in DOMAIN sort : sort[i].path \in Dotted
          BY <1>2, EndsAreDocuments DEF Inv, Trail
      <2>3. TypeOK'
          BY <1>2, <2>1, <2>2 DEF Inv, TypeOK, ByCursor
      <2>4. Trail'
          BY <2>1 DEF Inv, Trail
      <2> QED
          BY <1>2, <2>1, <2>3, <2>4 DEF Inv
  <1> QED
      BY <1>1, <1>2

LEMMA CountInv ==
    ASSUME Inv, Count
    PROVE  Inv'
  <1> USE DEF request, ghosts
  <1> DEFINE total == Cardinality(EncodeCursorQuery(cursor))
             more == cursor # None /\ docs # {} /\ Exceeds(total)
  <1>1. /\ stage = "count"
        /\ UNCHANGED <<stored, writes, request, docs, ghosts>>
        /\ \/ /\ cursor # None /\ docs # {} /\ \E d \in Linked : ~Complete(sort, d)
              /\ stage' = "refused" /\ UNCHANGED links
           \/ /\ more => \A d \in Linked : Complete(sort, d)
              /\ stage' = "answered"
              /\ next' = IF more THEN Link(NextCursor, 1)
                         ELSE IF skip * limit < total THEN Link(cursor, skip + 1) ELSE None
              /\ previous' = IF more /\ cursor # Initial THEN Link(PreviousCursor, 1)
                             ELSE IF skip > 1 THEN Link(cursor, skip - 1) ELSE None
      BY DEF Count, NextCursor, PreviousCursor
  <1>2. total \in Nat /\ limit \in Nat /\ skip \in Nat \ {0}
      <2>1. EncodeCursorQuery(cursor) \in SUBSET Documents
          BY DEF EncodeCursorQuery, Inv, TypeOK
      <2>2. total \in Nat
          BY <2>1, DocumentsAreFinite, FS_CardinalityType
      <2>3. limit \in Nat /\ skip \in Nat \ {0}
          BY PaginationAssumption DEF Inv, TypeOK
      <2> QED
          BY <2>2, <2>3
  <1>3. /\ NextCursor' = NextCursor /\ PreviousCursor' = PreviousCursor
        /\ NextMade' = NextMade /\ PreviousMade' = PreviousMade
      BY <1>1 DEF NextCursor, PreviousCursor, NextMade, PreviousMade
  <1>4. CASE stage' = "refused"
      <2>1. cursor # None /\ docs # {} /\ UNCHANGED links
            /\ \E d \in Linked : ~Complete(sort, d)
          BY <1>1, <1>4
      <2>2. Linked \subseteq docs
          BY <2>1, EndsOfPage DEF Linked, Inv, TypeOK
      <2>3. TypeOK'
          <3> HIDE DEF total, more
          <3> QED
              BY <1>1, <1>4, <2>1, <2>2 DEF Inv, TypeOK, ByCursor, links
      <2>4. Trail'
          <3> HIDE DEF total, more
          <3> QED
              BY <1>1, <1>3, <1>4, <2>1 DEF Inv, Trail, links
      <2> QED
          BY <2>3, <2>4 DEF Inv
  <1>5. CASE stage' # "refused"
      <2>1. /\ more => \A d \in Linked : Complete(sort, d)
            /\ stage' = "answered"
            /\ next' = IF more THEN Link(NextCursor, 1)
                       ELSE IF skip * limit < total THEN Link(cursor, skip + 1) ELSE None
            /\ previous' = IF more /\ cursor # Initial THEN Link(PreviousCursor, 1)
                           ELSE IF skip > 1 THEN Link(cursor, skip - 1) ELSE None
          BY <1>1, <1>5
      <2>2. ASSUME next' # None
            PROVE  \/ docs # {} /\ cursor # None /\ next' = Link(NextCursor, 1) /\ NextMade
                   \/ (docs = {} \/ cursor = None) /\ next' = Link(cursor, skip + 1)
          <3>1. CASE more
              BY <2>1, <3>1 DEF Linked, NextMade
          <3>2. CASE ~more
              <4>1. skip * limit < total /\ next' = Link(cursor, skip + 1)
                  BY <2>1, <2>2, <3>2
              <4>2. cursor # None /\ docs # {} => skip = 1 /\ ~(total > limit)
                  BY <3>2 DEF Exceeds, Inv, Trail
              <4>3. cursor # None /\ docs # {} => FALSE
                  <5> HIDE DEF total, more
                  <5> QED
                      BY <1>2, <4>1, <4>2
              <4> QED
                  BY <4>1, <4>3
          <3> QED
              BY <3>1, <3>2
      <2>3. ASSUME previous' # None
            PROVE  \/ /\ docs # {} /\ cursor # None
                      /\ previous' = Link(PreviousCursor, 1) /\ PreviousMade
                   \/ cursor = None /\ skip > 1 /\ previous' = Link(None, skip - 1)
          <3>1. CASE more /\ cursor # Initial
              BY <2>1, <3>1 DEF Linked, PreviousMade
          <3>2. CASE ~(more /\ cursor # Initial)
              <4> HIDE DEF total, more
              <4> QED
                  BY <1>2, <2>1, <2>3, <3>2 DEF Inv, Trail
          <3> QED
              BY <3>1, <3>2
      <2>4. TypeOK'
          <3>1. \A c, n : Link(c, n).skip = n /\ DOMAIN Link(c, n) = {"cursor", "skip"}
              BY DEF Link
          <3>2. \A l \in {next', previous'} \ {None} :
                    l.skip \in Nat /\ DOMAIN l = {"cursor", "skip"}
              <4>1. next' # None => next'.skip \in Nat /\ DOMAIN next' = {"cursor", "skip"}
                  BY <1>2, <2>2, <3>1
              <4>2. previous' # None =>
                       previous'.skip \in Nat /\ DOMAIN previous' = {"cursor", "skip"}
                  BY <1>2, <2>3, <3>1
              <4> QED
                  BY <4>1, <4>2
          <3> HIDE DEF total, more
          <3> QED
              BY <1>1, <2>1, <3>2 DEF Inv, TypeOK
      <2>5. Trail'
          <3> HIDE DEF total, more
          <3> QED
              BY <1>1, <1>3, <2>1, <2>2, <2>3 DEF Inv, Trail
      <2> QED
          BY <2>4, <2>5 DEF Inv
  <1> QED
      BY <1>4, <1>5

\* The page to come: at the side of a page that is not empty, or another
\* number of it.
LEMMA FollowInv ==
    ASSUME Inv, FollowNext \/ FollowPrevious
    PROVE  /\ Inv'
           /\ \/ cursor = None /\ cursor' = None
              \/ cursor # None /\ cursor' # None
           /\ UNCHANGED <<stored, sort, docs>>
  <1>1. \A c, n : Link(c, n).cursor = c /\ Link(c, n).skip = n
      BY DEF Link
  <1>2. /\ stage = "answered" /\ stage' = "query"
        /\ next' = None /\ previous' = None
        /\ UNCHANGED <<stored, writes, sort, limit, docs, listed, steady, upset>>
        /\ turned' \in {turned, TRUE}
      BY DEF FollowNext, FollowPrevious, ghosts
  <1>3. \/ cursor = None /\ cursor' = None /\ skip' \in 1 .. (MaxPage + 1)
        \/ /\ cursor # None /\ docs # {} /\ skip' = 1
           /\ \/ cursor' = NextCursor /\ NextMade
              \/ cursor' = PreviousCursor /\ PreviousMade
      <2>1. CASE FollowNext
          <3>1. next # None /\ docs # {} /\ cursor' = next.cursor /\ skip' = next.skip
                /\ next.skip <= MaxPage
              BY <2>1 DEF FollowNext
          <3>2. \/ cursor # None /\ next = Link(NextCursor, 1) /\ NextMade
                \/ cursor = None /\ next = Link(cursor, skip + 1)
              BY <3>1 DEF Inv, Trail
          <3>3. skip \in Nat /\ MaxPage \in Nat
              BY PaginationAssumption DEF Inv, TypeOK
          <3> QED
              BY <1>1, <3>1, <3>2, <3>3
      <2>2. CASE FollowPrevious
          <3>1. previous # None /\ cursor' = previous.cursor /\ skip' = previous.skip
              BY <2>2 DEF FollowPrevious
          <3>2. \/ docs # {} /\ cursor # None /\ previous = Link(PreviousCursor, 1) /\ PreviousMade
                \/ cursor = None /\ skip > 1 /\ previous = Link(None, skip - 1)
              BY <3>1 DEF Inv, Trail
          <3>3. skip \in 1 .. (MaxPage + 1) /\ MaxPage \in Nat
              BY PaginationAssumption DEF Inv, TypeOK
          <3> QED
              BY <1>1, <3>1, <3>2, <3>3
      <2> QED
          BY <2>1, <2>2
  <1>4. docs # {} => /\ NextCursor # None /\ PreviousCursor # None
                     /\ FirstOf(sort, docs) \in Documents /\ LastOf(sort, docs) \in Documents
      BY EndsAreDocuments DEF Inv
  <1>5. skip' \in 1 .. (MaxPage + 1)
      BY <1>3, PaginationAssumption
  <1>6. cursor' \in Cursors(sort)
      <2>1. CASE cursor' = None
          BY <1>2, <2>1 DEF Cursors
      <2>2. CASE docs # {} /\ cursor' = NextCursor /\ NextMade
          BY <1>2, <1>4, <2>2, MadeCursors DEF NextCursor, NextMade, Inv, TypeOK
      <2>3. CASE docs # {} /\ cursor' = PreviousCursor /\ PreviousMade
          BY <1>2, <1>4, <2>3, MadeCursors DEF PreviousCursor, PreviousMade, Inv, TypeOK
      <2> QED
          BY <1>3, <2>1, <2>2, <2>3
  <1>7. TypeOK'
      BY <1>2, <1>5, <1>6 DEF Inv, TypeOK
  <1>8. /\ NextCursor' = NextCursor /\ PreviousCursor' = PreviousCursor
        /\ NextMade' = NextMade /\ PreviousMade' = PreviousMade
      BY <1>2 DEF NextCursor, PreviousCursor, NextMade, PreviousMade
  <1>9. Trail'
      BY <1>2, <1>3, <1>8 DEF Trail
  <1> QED
      BY <1>2, <1>3, <1>4, <1>7, <1>9 DEF Inv

LEMMA WalkInv ==
    ASSUME Inv, [Next]_vars
    PROVE  Inv'
  <1>1. CASE UNCHANGED vars
      BY <1>1 DEF vars, request, links, ghosts, Inv, TypeOK, Trail, Unique,
                  NextCursor, PreviousCursor, NextMade, PreviousMade, ByCursor
  <1> QED
      BY <1>1, WriteInv, BeginInv, QueryInv, CountInv, FollowInv DEF Next

LEMMA SpecInv == Spec => []Inv
  <1>1. Init => Inv
      BY WalkInit
  <1>2. Inv /\ [Next]_vars => Inv'
      BY WalkInv
  <1> QED
      BY <1>1, <1>2, PTL DEF Spec

\* Every variable keeps its type; pages start at 1, and the server refuses only
\* who goes by cursors, and only for a nested field or one that a document lacks.
THEOREM TypeCorrect == Spec => []TypeOK
  <1>1. Inv => TypeOK
      BY DEF Inv
  <1> QED
      BY <1>1, SpecInv, PTL

\* A step of the walk is one of the scan, or leaves the collection and the
\* page as they are: only the query reads a page.
LEMMA StepIsScan ==
    ASSUME Inv, [Next]_vars
    PROVE  [S!Next]_<<stored, sort, IF ByCursor /\ Whole(sort) THEN docs ELSE {}>>
  <1> DEFINE page == IF ByCursor /\ Whole(sort) THEN docs ELSE {}
  <1> HIDE DEF Whole
  <1>1. CASE UNCHANGED vars
      BY <1>1 DEF vars, request, ByCursor
  <1>2. ASSUME NEW d \in Documents, Write(d) PROVE S!Write /\ UNCHANGED sort
      <2>1. stored' \subseteq Documents
          BY <1>2 DEF Write, Inv, TypeOK
      <2> QED
          BY <1>2, <2>1 DEF Write, S!Write, request, ByCursor
  <1>3. ASSUME NEW n \in Limits, NEW c \in {None, Initial}, Begin(n, c)
        PROVE  UNCHANGED <<stored, sort, page>>
      BY <1>3 DEF Begin, Inv, Trail, ByCursor
  <1>4. CASE Query
      <2>1. UNCHANGED <<stored, sort, cursor>> /\ stage = "query"
          BY <1>4 DEF Query, request
      <2>2. CASE cursor = None \/ ~Whole(sort) \/ UNCHANGED docs
          BY <2>1, <2>2 DEF ByCursor
      <2>3. CASE cursor # None /\ Whole(sort) /\ ~UNCHANGED docs
          <3>1. page = docs /\ page' = Page
              BY <1>4, <2>1, <2>3, QueryInv DEF ByCursor
          <3>2. CASE cursor = Initial
              <4>1. Opening(sort, Page, stored)
                  BY <2>1, <3>2, PageIsRun
              <4> QED
                  BY <2>1, <3>1, <4>1 DEF Opening, S!Next, S!Open, S!Begins, S!Comes
          <3>3. CASE cursor # Initial /\ cursor = NextCursor
              <4>1. Opening(sort, Page, S!After) /\ docs # {}
                  BY <2>1, <2>3, <3>3, PageIsRun DEF Inv, Trail
              <4>2. S!Forward
                  BY <2>1, <3>1, <4>1 DEF Opening, S!Forward, S!Begins, S!Comes
              <4> QED
                  BY <2>1, <4>2 DEF S!Next
          <3>4. CASE cursor # Initial /\ cursor # NextCursor
              <4>1. Ending(sort, Page, S!Before) /\ docs # {}
                  BY <2>1, <2>3, <3>4, PageIsRun DEF Inv, Trail
              <4>2. S!Back
                  BY <2>1, <3>1, <4>1 DEF Ending, S!Back, S!Begins, S!Follows
              <4> QED
                  BY <2>1, <4>2 DEF S!Next
          <3> QED
              BY <2>3, <3>2, <3>3, <3>4
      <2> QED
          BY <2>2, <2>3
  <1>5. CASE Count
      BY <1>5 DEF Count, request, ByCursor
  <1>6. CASE FollowNext \/ FollowPrevious
      BY <1>6, FollowInv DEF ByCursor
  <1> QED
      BY <1>1, <1>2, <1>3, <1>4, <1>5, <1>6 DEF Next, S!Next

\* Whatever is written meanwhile, the pages of a walk by cursors are adjacent
\* runs of the list in both directions, and empty only at its ends: Pagination
\* implements Scan, for any sort on fields that all documents have, without the
\* _id, and any sizes of pages.
THEOREM Refinement == Spec => ImplementsScan
  <1>1. Init => S!Init
      BY DEF Init, S!Init, ByCursor
  <1>2. Inv /\ [Next]_vars => [S!Next]_<<stored, sort, IF ByCursor /\ Whole(sort) THEN docs ELSE {}>>
      BY StepIsScan
  <1> QED
      BY <1>1, <1>2, SpecInv, PTL DEF Spec, ImplementsScan, S!Spec

-----------------------------------------------------------------------------
(* Counting what comes before a document.                                  *)

Preceding(s, x, M) == {e \in M : Precedes(s, e, x)}

LEMMA PrecedingIsFinite ==
    ASSUME NEW s \in Sorts, NEW M \in SUBSET Documents, NEW x
    PROVE  /\ IsFiniteSet(M) /\ Cardinality(M) \in Nat
           /\ IsFiniteSet(Preceding(s, x, M)) /\ Cardinality(Preceding(s, x, M)) \in Nat
  <1>1. Preceding(s, x, M) \in SUBSET Documents
      BY DEF Preceding
  <1> QED
      BY <1>1, DocumentsAreFinite, FS_CardinalityType

LEMMA FirstCounts ==
    ASSUME NEW s \in Sorts, NEW M, NEW n, NEW x \in M
    PROVE  x \in First(s, n, M) <=> Cardinality(Preceding(s, x, M)) < n
  BY DEF First, Preceding

\* A document of a set and those before it are among the set.
LEMMA OneMore ==
    ASSUME NEW s \in Sorts, NEW M \in SUBSET Documents, NEW x \in M
    PROVE  Cardinality(Preceding(s, x, M)) < Cardinality(M)
  <1> DEFINE P == Preceding(s, x, M)
  <1>1. IsFiniteSet(M) /\ Cardinality(M) \in Nat /\ IsFiniteSet(P) /\ Cardinality(P) \in Nat
      BY PrecedingIsFinite
  <1>2. x \notin P /\ P \cup {x} \subseteq M
      BY PrecedesIrreflexive DEF Preceding
  <1> HIDE DEF P
  <1>3. IsFiniteSet(P \cup {x}) /\ Cardinality(P \cup {x}) = Cardinality(P) + 1
      BY <1>1, <1>2, FS_AddElement
  <1>4. Cardinality(P \cup {x}) <= Cardinality(M)
      BY <1>1, <1>2, FS_Subset
  <1>5. Cardinality(P) < Cardinality(M)
      BY <1>1, <1>3, <1>4
  <1> QED
      BY <1>5 DEF P

\* The first k documents come before the rest, and are k unless there is none.
LEMMA FirstIsFull ==
    ASSUME NEW s \in Sorts, NEW M \in SUBSET Documents, Unique(M), NEW k \in Nat,
           NEW x \in M \ First(s, k, M)
    PROVE  /\ Cardinality(First(s, k, M)) = k
           /\ First(s, k, M) \subseteq Preceding(s, x, M)
  <1> DEFINE F == First(s, k, M)
             rest == M \ F
  <1>1. /\ F \in SUBSET Documents /\ rest \in SUBSET Documents /\ rest # {}
        /\ F \subseteq M
        /\ Unique(F) /\ Unique(rest)
      BY DEF First, Unique
  <1>2. \A p \in F, m \in M : Precedes(s, m, p) => m \in F
      <2>1. CASE k = 0
          BY <2>1, FirstBegins
      <2>2. CASE k # 0
          <3>1. Opening(s, First(s, k, M), M)
              BY <2>2, FirstBegins
          <3> QED
              BY <3>1 DEF Opening
      <2> QED
          BY <2>1, <2>2
  <1>3. ASSUME NEW p \in F, NEW m \in rest PROVE Precedes(s, p, m)
      <2>1. p \in M /\ m \in M /\ m \notin F /\ p # m
          BY <1>1
      <2>2. p["_id"] # m["_id"]
          BY <2>1 DEF Unique
      <2> QED
          BY <1>2, <2>1, <2>2, PrecedesTotal
  <1>4. IsFiniteSet(F) /\ Cardinality(F) \in Nat
      BY <1>1, PrecedingIsFinite
  <1>5. \A m \in M : m \in F <=> Cardinality(Preceding(s, m, M)) < k
      BY FirstCounts
  <1>6. \A m \in M : Cardinality(Preceding(s, m, M)) \in Nat
      BY PrecedingIsFinite
  <1> HIDE DEF F, rest
  <1>7. Cardinality(F) <= k
      <2>1. CASE F = {}
          BY <2>1, FS_EmptySet
      <2>2. CASE F # {}
          <3> DEFINE l == LastOf(s, F)
          <3>1. l \in F /\ \A e \in F : e = l \/ Precedes(s, e, l)
              BY <1>1, <2>2, EndsOfPage
          <3> HIDE DEF l
          <3>2. Preceding(s, l, M) = F \ {l}
              BY <1>1, <1>2, <3>1, PrecedesIrreflexive DEF Preceding
          <3>3. Cardinality(F \ {l}) = Cardinality(F) - 1
              BY <1>4, <3>1, FS_RemoveElement
          <3>4. Cardinality(Preceding(s, l, M)) < k
              BY <1>1, <1>5, <3>1
          <3>5. Cardinality(F) - 1 < k
              BY <3>2, <3>3, <3>4
          <3> QED
              BY <1>4, <3>5
      <2> QED
          BY <2>1, <2>2
  <1>8. Cardinality(F) >= k
      <2> DEFINE f == FirstOf(s, rest)
      <2>1. f \in rest /\ \A e \in rest : e = f \/ Precedes(s, f, e)
          BY <1>1, EndsOfPage
      <2> HIDE DEF f
      <2>2. f \in M /\ f \notin F /\ \A m \in M : m \in F \/ m \in rest
          BY <2>1 DEF rest
      <2>3. \A m \in rest : ~Precedes(s, m, f)
          BY <1>1, <2>1, PrecedesIrreflexive, PrecedesTransitive
      <2>4. Preceding(s, f, M) = F
          BY <1>1, <1>3, <2>1, <2>2, <2>3 DEF Preceding
      <2> QED
          BY <1>4, <1>5, <2>2, <2>4
  <1>9. Cardinality(F) = k
      BY <1>4, <1>7, <1>8
  <1>10. F \subseteq Preceding(s, x, M)
      BY <1>1, <1>3 DEF rest, Preceding, F
  <1> QED
      BY <1>9, <1>10 DEF F

\* A page after what is skipped is the next part of the list.
LEMMA FirstThenFirst ==
    ASSUME NEW s \in Sorts, NEW M \in SUBSET Documents, Unique(M), NEW k \in Nat, NEW n \in Nat
    PROVE  First(s, k, M) \cup First(s, n, M \ First(s, k, M)) = First(s, k + n, M)
  <1> DEFINE F == First(s, k, M)
             rest == M \ F
  <1>1. ASSUME NEW x \in rest
        PROVE  x \in First(s, n, rest) <=> x \in First(s, k + n, M)
      <2> DEFINE P == Preceding(s, x, rest)
      <2>1. x \in M /\ F \in SUBSET Documents /\ rest \in SUBSET Documents
          BY DEF First
      <2>2. Cardinality(F) = k /\ F \subseteq Preceding(s, x, M)
          BY FirstIsFull
      <2>3. Preceding(s, x, M) = F \cup P /\ F \cap P = {}
          BY <2>2 DEF Preceding
      <2>4. IsFiniteSet(F) /\ IsFiniteSet(P) /\ Cardinality(P) \in Nat
          BY <2>1, PrecedingIsFinite
      <2>5. x \in First(s, n, rest) <=> Cardinality(P) < n
          BY FirstCounts
      <2>6. x \in First(s, k + n, M) <=> Cardinality(Preceding(s, x, M)) < k + n
          BY <2>1, FirstCounts
      <2> HIDE DEF F, P, rest
      <2>7. Cardinality(F \cup P) = k + Cardinality(P)
          BY <2>2, <2>3, <2>4, FS_Union, FS_EmptySet
      <2> QED
          BY <2>3, <2>4, <2>5, <2>6, <2>7
  <1>2. ASSUME NEW x \in F
        PROVE  x \in First(s, k + n, M)
      <2>1. x \in M
          BY DEF First
      <2>2. Cardinality(Preceding(s, x, M)) \in Nat
          BY PrecedingIsFinite
      <2>3. Cardinality(Preceding(s, x, M)) < k
          BY <2>1, FirstCounts
      <2>4. Cardinality(Preceding(s, x, M)) < k + n
          BY <2>2, <2>3
      <2> QED
          BY <2>1, <2>4, FirstCounts
  <1>3. First(s, k + n, M) \subseteq M /\ F \subseteq M /\ First(s, n, rest) \subseteq rest
      BY DEF First
  <1> HIDE DEF First
  <1> QED
      BY <1>1, <1>2, <1>3

\* No more than n documents are all among the first n.
LEMMA FirstIsAll ==
    ASSUME NEW s \in Sorts, NEW M \in SUBSET Documents, NEW n \in Nat, Cardinality(M) <= n
    PROVE  M \subseteq First(s, n, M)
  <1> SUFFICES ASSUME NEW x \in M PROVE x \in First(s, n, M)
      OBVIOUS
  <1>1. Cardinality(M) \in Nat /\ Cardinality(Preceding(s, x, M)) \in Nat
      BY PrecedingIsFinite
  <1>2. Cardinality(Preceding(s, x, M)) < n
      BY <1>1, OneMore
  <1> QED
      BY <1>2, FirstCounts

-----------------------------------------------------------------------------
(* What a client that never goes back has seen.                            *)

OneWay == stage # "idle" /\ ~turned /\ ~upset

Selected == EncodeCursorQuery(cursor)

\* What it may rely on to see by cursors: what has the fields of the sort.
Promised == {d \in steady : Complete(sort, d)}

\* By cursors: all that it has seen comes up to the end of the page, and all
\* that was there throughout, and it has not seen, comes after.  Between the
\* query and the count, what it has not seen would exceed the size of a page.
SeenByCursor ==
    OneWay /\ cursor # None /\ ~Descends(sort) =>
        /\ stage = "query" =>
              cursor = Initial \/ (docs # {} /\ cursor = NextCursor /\ NextMade)
        /\ stage = "query" /\ cursor = Initial => listed = {}
        /\ stage # "query" /\ docs = {} => Promised \subseteq listed
        /\ docs # {} =>
              /\ \A x \in listed : ~Precedes(sort, LastOf(sort, docs), x)
              /\ \A d \in Promised : d \in listed \/ Precedes(sort, LastOf(sort, docs), d)
        /\ stage = "count" =>
              \A d \in Promised \ listed :
                 /\ d \in Selected
                 /\ Cardinality(Preceding(sort, d, Selected)) >= limit
        /\ stage = "answered" /\ next = None => Promised \subseteq listed

\* By numbers: as many documents as come before the page to ask for.
SeenByNumber ==
    OneWay /\ cursor = None =>
        /\ steady = stored
        /\ stage = "query" /\ limit # 0 => listed = First(sort, Skipped, stored)
        /\ stage # "query" =>
              /\ limit # 0 => listed = First(sort, skip * limit, stored)
              /\ limit = 0 \/ docs = {} => stored \subseteq listed
        /\ stage = "answered" /\ next = None => stored \subseteq listed

Fresh ==
    stage = "idle" => /\ cursor = None /\ listed = {} /\ docs = {}

Seen == SeenByCursor /\ SeenByNumber /\ Fresh

LEMMA WalkTypes ==
    ASSUME TypeOK
    PROVE  /\ stored \in SUBSET Documents /\ Unique(stored)
           /\ steady \subseteq stored /\ listed \subseteq Documents
           /\ sort \in Sorts /\ limit \in Nat /\ MaxPage \in Nat
           /\ skip \in 1 .. (MaxPage + 1) /\ skip \in Nat \ {0}
           /\ cursor \in Cursors(sort)
  <1>1. limit \in Limits \cup {0} /\ skip \in 1 .. (MaxPage + 1)
      BY DEF TypeOK
  <1>2. Limits \subseteq Nat /\ MaxPage \in Nat
      BY PaginationAssumption
  <1>3. limit \in Nat /\ skip \in Nat \ {0}
      BY <1>1, <1>2
  <1> QED
      BY <1>1, <1>2, <1>3 DEF TypeOK

LEMMA SelectedInWalk ==
    ASSUME TypeOK, ~Descends(sort),
           cursor = Initial \/ (docs # {} /\ cursor = NextCursor /\ NextMade)
    PROVE  /\ Selected \in SUBSET stored /\ Selected \in SUBSET Documents
           /\ cursor # None
           /\ cursor = Initial => Selected = stored
           /\ cursor # Initial =>
                 /\ LastOf(sort, docs) \in Documents
                 /\ \A d \in Selected :
                       \/ Precedes(sort, LastOf(sort, docs), d)
                       \/ HasId(sort) /\ Same(sort, LastOf(sort, docs), d)
                 /\ \A d \in stored : Complete(sort, d) /\ Precedes(sort, LastOf(sort, docs), d)
                       => d \in Selected
                 /\ cursor.reverse = FALSE
                 /\ cursor.id = LastOf(sort, docs)["_id"]
  <1>1. stored \subseteq Documents /\ sort \in Sorts
      BY DEF TypeOK
  <1>2. CASE cursor = Initial
      BY <1>1, <1>2, CursorAssumption DEF Selected, EncodeCursorQuery
  <1>3. CASE docs # {} /\ cursor = NextCursor /\ NextMade
      <2> DEFINE l == LastOf(sort, docs)
      <2>1. /\ l \in Documents /\ Complete(sort, l)
            /\ cursor = EncodePaginationCursor(sort, l, FALSE)
          BY <1>3, EndsAreDocuments DEF NextMade, NextCursor
      <2>2. FALSE \in BOOLEAN
          OBVIOUS
      <2> HIDE DEF l
      <2>3. /\ cursor # None /\ cursor # Initial
            /\ cursor.reverse = FALSE /\ cursor.id = l["_id"]
          BY <1>1, <2>1, <2>2, CursorFields, ZenonT(60)
      <2>4. Selected = {d \in stored : \/ Comparable(sort, l, d) /\ Precedes(sort, l, d)
                                       \/ HasId(sort) /\ Same(sort, l, d)}
          BY <1>1, <2>1, <2>2, CursorSelects, ZenonT(60) DEF Selected
      <2>5. \A d : Complete(sort, d) => Comparable(sort, l, d)
          BY <1>1, SortIsSequence DEF Complete, Comparable
      <2> QED
          BY <1>1, <2>1, <2>3, <2>4, <2>5 DEF l
  <1> QED
      BY <1>2, <1>3

\* The next page of a walk by cursors: the beginning of what is selected.
LEMMA PageOfWalk ==
    ASSUME Inv, stage = "query", ~Descends(sort),
           cursor = Initial \/ (docs # {} /\ cursor = NextCursor /\ NextMade)
    PROVE  /\ Page = IF limit = 0 THEN Selected ELSE First(sort, limit, Selected)
           /\ Opening(sort, Page, Selected)
  <1>1. limit \in Nat /\ sort \in Sorts
      BY PaginationAssumption DEF Inv, TypeOK
  <1>2. Selected \in SUBSET Documents /\ cursor # None
      BY SelectedInWalk DEF Inv
  <1>3. ASSUME cursor = Initial
        PROVE  Page = IF limit = 0 THEN Selected ELSE First(sort, limit, Selected)
      <2>1. Skipped = 0
          BY <1>1, <1>2 DEF Inv, Trail, Skipped
      <2>2. Selected \ First(sort, 0, Selected) = Selected
          <3>1. First(sort, 0, Selected) = {}
              BY <1>1, <1>2, FirstBegins
          <3> QED
              BY <3>1
      <2> QED
          BY <1>3, <2>1, <2>2 DEF Page, Selected
  <1>4. ASSUME cursor # Initial
        PROVE  Page = IF limit = 0 THEN Selected ELSE First(sort, limit, Selected)
      <2>1. cursor.reverse = FALSE
          BY <1>4, SelectedInWalk DEF Inv
      <2> QED
          BY <1>2, <1>4, <2>1 DEF Page, Selected
  <1>5. Page = IF limit = 0 THEN Selected ELSE First(sort, limit, Selected)
      BY <1>3, <1>4
  <1>6. Opening(sort, Selected, Selected)
      BY DEF Opening
  <1> QED
      BY <1>1, <1>2, <1>5, <1>6, FirstBegins

\* A write leaves the last document of the page, and removes nothing that is
\* selected between a query and its count.
LEMMA WriteSeen ==
    ASSUME Inv, Seen, NEW d \in Documents, Write(d)
    PROVE  Seen'
  <1>1. /\ steady' = steady \cap stored'
        /\ ~upset' => /\ ~upset
                      /\ stage = "count" => stored \subseteq stored'
                      /\ ~(stage # "idle" /\ cursor = None)
        /\ UNCHANGED <<sort, limit, cursor, skip, stage, docs, next, previous, listed, turned>>
      BY DEF Write, request, links
  <1>2. /\ NextCursor' = NextCursor /\ LastOf(sort, docs)' = LastOf(sort, docs)
        /\ NextMade' = NextMade /\ Promised' \subseteq Promised
      BY <1>1 DEF NextCursor, NextMade, Promised
  <1>3. SeenByNumber' /\ Fresh'
      BY <1>1 DEF SeenByNumber, Fresh, OneWay, Seen
  <1>4. ASSUME OneWay', cursor' # None, ~Descends(sort')
        PROVE  /\ stage' = "query" =>
                     cursor' = Initial \/ (docs' # {} /\ cursor' = NextCursor' /\ NextMade')
               /\ stage' = "query" /\ cursor' = Initial => listed' = {}
               /\ stage' # "query" /\ docs' = {} => Promised' \subseteq listed'
               /\ docs' # {} =>
                     /\ \A x \in listed' : ~Precedes(sort', LastOf(sort, docs)', x)
                     /\ \A d1 \in Promised' :
                           d1 \in listed' \/ Precedes(sort', LastOf(sort, docs)', d1)
               /\ stage' = "answered" /\ next' = None => Promised' \subseteq listed'
      BY <1>1, <1>2, <1>4 DEF Seen, SeenByCursor, OneWay
  <1>5. ASSUME OneWay', cursor' # None, ~Descends(sort'), stage' = "count",
               NEW w \in Promised' \ listed'
        PROVE  w \in Selected' /\ Cardinality(Preceding(sort', w, Selected')) >= limit'
      <2>1. /\ w \in Selected /\ Cardinality(Preceding(sort, w, Selected)) >= limit
            /\ stored \subseteq stored'
          BY <1>1, <1>2, <1>5 DEF Seen, SeenByCursor, OneWay
      <2>2. Selected \subseteq Selected' /\ Selected \in SUBSET stored
            /\ Selected' \in SUBSET stored'
          BY <1>1, <2>1 DEF Selected, EncodeCursorQuery
      <2>3. Selected \in SUBSET Documents /\ Selected' \in SUBSET Documents
          BY <2>2, WriteInv DEF Inv, TypeOK
      <2>4. Preceding(sort, w, Selected) \subseteq Preceding(sort, w, Selected')
          BY <2>2 DEF Preceding
      <2>5. /\ Cardinality(Preceding(sort, w, Selected)) \in Nat
            /\ IsFiniteSet(Preceding(sort, w, Selected'))
            /\ Cardinality(Preceding(sort, w, Selected')) \in Nat
          BY <1>1, <2>3, WalkTypes, PrecedingIsFinite DEF Inv
      <2>6. Cardinality(Preceding(sort, w, Selected)) <= Cardinality(Preceding(sort, w, Selected'))
          BY <2>4, <2>5, FS_Subset
      <2>7. limit \in Nat /\ limit' = limit
          BY <1>1, PaginationAssumption DEF Inv, TypeOK
      <2> QED
          BY <1>1, <2>1, <2>2, <2>5, <2>6, <2>7
  <1>6. SeenByCursor'
      BY <1>4, <1>5 DEF SeenByCursor
  <1> QED
      BY <1>3, <1>6 DEF Seen

LEMMA BeginSeen ==
    ASSUME Inv, Seen, NEW n \in Limits, NEW c \in {None, Initial}, Begin(n, c)
    PROVE  Seen'
  <1>1. /\ stage = "idle" /\ stage' = "query" /\ cursor' = c /\ steady' = stored
        /\ UNCHANGED <<stored, sort, docs, next, previous, listed, turned, upset>>
        /\ skip' = 1 /\ limit' \in Nat
      BY PaginationAssumption DEF Begin, links, SkipOption
  <1>2. listed = {} /\ docs = {}
      BY <1>1 DEF Seen, Fresh
  <1>3. Skipped' = 0
      <2>1. \A b \in Nat : (1 - 1) * b = 0
          OBVIOUS
      <2> QED
          BY <1>1, <2>1 DEF Skipped
  <1>4. First(sort, 0, stored) = {}
      BY FirstBegins DEF Inv, TypeOK
  <1>5. First(sort, Skipped', stored') = {}
      BY <1>1, <1>3, <1>4
  <1>6. (Initial = None) = FALSE
      BY CursorAssumption
  <1>7. SeenByCursor'
      BY <1>1, <1>2 DEF SeenByCursor
  <1>8. SeenByNumber'
      <2>1. SeenByNumber' <=> (OneWay' /\ cursor' = None =>
              /\ steady' = stored'
              /\ stage' = "query" /\ limit' # 0 => listed' = First(sort, Skipped', stored')
              /\ stage' # "query" =>
                    /\ limit' # 0 => listed' = First(sort, skip' * limit', stored')
                    /\ limit' = 0 \/ docs' = {} => stored' \subseteq listed'
              /\ stage' = "answered" /\ next' = None => stored' \subseteq listed')
          BY <1>1 DEF SeenByNumber, First
      <2> QED
          BY <1>1, <1>2, <1>5, <2>1
  <1>9. Fresh'
      BY <1>1 DEF Fresh
  <1> QED
      BY <1>7, <1>8, <1>9 DEF Seen

\* The query of a walk by cursors: its page carries on where the last one
\* ended, and what of the steady documents is still to be listed is beyond.
LEMMA QuerySeenByCursor ==
    ASSUME Inv, Seen, Query, OneWay, cursor # None, ~Descends(sort), stage' = "count"
    PROVE  /\ SeenByCursor'
           /\ docs' \cap listed \subseteq {d \in Documents : HasId(sort) /\ d["_id"] = cursor.id}
  <1> DEFINE M == Selected
             l == LastOf(sort, docs)
             m == LastOf(sort, docs')
  <1>1. /\ stage = "query" /\ docs' = Page /\ listed' = listed \cup docs'
        /\ UNCHANGED <<stored, sort, limit, cursor, steady, next>>
        /\ Inv'
      BY QueryInv DEF Query, request, links
  <1>2. /\ cursor = Initial \/ (docs # {} /\ cursor = NextCursor /\ NextMade)
        /\ cursor = Initial => listed = {}
        /\ docs # {} => /\ \A x \in listed : ~Precedes(sort, l, x)
                        /\ \A w \in Promised : w \in listed \/ Precedes(sort, l, w)
      BY <1>1 DEF Seen, SeenByCursor
  <1>3. /\ M \in SUBSET stored /\ M \in SUBSET Documents /\ Unique(stored)
        /\ steady \subseteq stored /\ listed \subseteq Documents /\ sort \in Sorts
        /\ cursor = Initial => M = stored
        /\ cursor # Initial =>
              /\ l \in Documents /\ cursor.id = l["_id"]
              /\ \A d \in M : Precedes(sort, l, d) \/ (HasId(sort) /\ Same(sort, l, d))
              /\ \A d \in stored : Complete(sort, d) /\ Precedes(sort, l, d) => d \in M
      BY <1>2, SelectedInWalk DEF Inv, TypeOK
  <1>4. docs' = (IF limit = 0 THEN M ELSE First(sort, limit, M)) /\ Opening(sort, docs', M)
      BY <1>1, <1>2, PageOfWalk
  <1>5. Selected' = M /\ Promised' = Promised /\ Promised \subseteq steady
        /\ \A w \in Promised : Complete(sort, w)
      BY <1>1 DEF Selected, EncodeCursorQuery, Promised
  <1> HIDE DEF M, l, m
  <1>6. ASSUME NEW x \in listed, NEW y \in M PROVE ~Precedes(sort, y, x)
      <2>1. cursor # Initial /\ docs # {} /\ ~Precedes(sort, l, x)
          BY <1>2, <1>6
      <2>2. ~Precedes(sort, y, l)
          <3>1. CASE Precedes(sort, l, y)
              BY <1>3, <2>1, <3>1, PrecedesIrreflexive, PrecedesTransitive
          <3>2. CASE Same(sort, l, y)
              <4>1. ~Precedes(sort, y, y)
                  BY <1>3, PrecedesIrreflexive
              <4> QED
                  BY <1>3, <3>2, <4>1, SamePlace
          <3> QED
              BY <1>3, <2>1, <3>1, <3>2
      <2>3. x \in Documents /\ y \in Documents /\ l \in Documents
          BY <1>3, <2>1
      <2> QED
          BY <1>3, <2>1, <2>2, <2>3, NotBeyond
  <1>7. \A w \in Promised : w \in listed \/ w \in M
      BY <1>2, <1>3, <1>5
  <1>8. docs' \subseteq M /\ docs' \in SUBSET Documents
      BY <1>3, <1>4 DEF Opening
  <1>9. docs' = {} => Promised \subseteq listed
      BY <1>4, <1>7 DEF Opening
  <1>10. ASSUME docs' # {}
         PROVE  /\ \A x \in listed' : ~Precedes(sort, m, x)
                /\ \A w \in Promised : w \in listed' \/ Precedes(sort, m, w)
      <2>1. m \in docs' /\ \A e \in docs' : e = m \/ Precedes(sort, e, m)
          <3>1. Unique(docs')
              BY <1>1 DEF Inv, TypeOK, Unique
          <3> QED
              BY <1>3, <1>8, <1>10, <3>1, EndsOfPage DEF m
      <2>2. ASSUME NEW x \in listed' PROVE ~Precedes(sort, m, x)
          <3>1. CASE x \in listed
              BY <1>6, <1>8, <2>1, <3>1
          <3>2. CASE x \in docs'
              BY <1>3, <1>8, <2>1, <3>2, PrecedesIrreflexive, PrecedesTransitive
          <3> QED
              BY <1>1, <3>1, <3>2
      <2>3. ASSUME NEW w \in Promised, w \notin listed' PROVE Precedes(sort, m, w)
          <3>1. w \in M /\ w \notin docs' /\ m \in M
              BY <1>1, <1>7, <1>8, <2>1, <2>3
          <3>2. ~Precedes(sort, w, m)
              BY <1>4, <2>1, <3>1 DEF Opening
          <3>3. w["_id"] # m["_id"]
              BY <1>3, <2>1, <3>1 DEF Unique
          <3> QED
              BY <1>3, <3>1, <3>2, <3>3, PrecedesTotal
      <2> QED
          BY <2>2, <2>3
  <1>11. ASSUME NEW w \in Promised \ listed'
         PROVE  w \in M /\ Cardinality(Preceding(sort, w, M)) >= limit
      <2>1. w \in M /\ w \notin docs'
          BY <1>1, <1>7
      <2>2. limit \in Nat /\ Cardinality(Preceding(sort, w, M)) \in Nat
          BY <1>3, PrecedingIsFinite, WalkTypes DEF Inv
      <2>3. w \notin First(sort, limit, M)
          BY <1>4, <2>1
      <2>4. ~(Cardinality(Preceding(sort, w, M)) < limit)
          BY <1>3, <2>1, <2>3, FirstCounts
      <2> QED
          BY <2>1, <2>2, <2>4
  <1>12. SeenByCursor'
      <2>1. LastOf(sort, docs)' = m
          BY <1>1 DEF m
      <2>2. /\ stage' # "query" /\ stage' # "answered"
            /\ docs' = {} => Promised' \subseteq listed'
            /\ docs' # {} =>
                  /\ \A x \in listed' : ~Precedes(sort', m, x)
                  /\ \A w \in Promised' : w \in listed' \/ Precedes(sort', m, w)
            /\ \A w \in Promised' \ listed' :
                  w \in Selected' /\ Cardinality(Preceding(sort', w, Selected')) >= limit'
          BY <1>1, <1>5, <1>9, <1>10, <1>11
      <2> QED
          BY <2>1, <2>2 DEF SeenByCursor
  <1>13. ASSUME NEW y \in docs' \cap listed
         PROVE  y \in Documents /\ HasId(sort) /\ y["_id"] = cursor.id
      <2>1. y \in M /\ cursor # Initial /\ docs # {} /\ ~Precedes(sort, l, y)
          BY <1>2, <1>8
      <2>2. HasId(sort) /\ Same(sort, l, y)
          BY <1>3, <2>1
      <2> QED
          BY <1>3, <2>1, <2>2 DEF Same
  <1> QED
      BY <1>12, <1>13

\* The query of a numbered page takes the next part of a list that has not
\* changed since the walk began.
LEMMA QuerySeenByNumber ==
    ASSUME Inv, Seen, Query, OneWay, cursor = None, stage' = "count"
    PROVE  /\ SeenByNumber'
           /\ limit # 0 => docs' \cap listed = {}
  <1> DEFINE rest == stored \ First(sort, Skipped, stored)
  <1>1. /\ stage = "query" /\ docs' = Page /\ listed' = listed \cup docs'
        /\ UNCHANGED <<stored, sort, limit, cursor, skip, steady>>
      BY QueryInv DEF Query, request, links
  <1>2. steady = stored /\ (limit # 0 => listed = First(sort, Skipped, stored))
      BY <1>1 DEF Seen, SeenByNumber
  <1>3. /\ stored \in SUBSET Documents /\ Unique(stored)
        /\ sort \in Sorts /\ limit \in Nat /\ skip \in Nat \ {0} /\ Skipped \in Nat
        /\ Skipped + limit = skip * limit
        /\ limit = 0 => Skipped = 0
      <2>1. /\ stored \in SUBSET Documents /\ Unique(stored)
            /\ sort \in Sorts /\ limit \in Nat /\ skip \in Nat \ {0}
          BY WalkTypes DEF Inv
      <2>2. \A a \in Nat \ {0}, b \in Nat :
               /\ (a - 1) * b \in Nat /\ (a - 1) * b + b = a * b /\ (a - 1) * 0 = 0
          OBVIOUS
      <2> QED
          BY <2>1, <2>2 DEF Skipped
  <1>4. docs' = IF limit = 0 THEN rest ELSE First(sort, limit, rest)
      BY <1>1 DEF Page, EncodeCursorQuery
  <1>5. rest \in SUBSET Documents
      BY <1>3
  <1>6. ASSUME limit # 0
        PROVE  /\ listed' = First(sort, skip * limit, stored)
               /\ docs' = {} => stored \subseteq listed'
               /\ docs' \cap listed = {}
      <2>1. docs' = First(sort, limit, rest) /\ listed = First(sort, Skipped, stored)
          BY <1>2, <1>4, <1>6
      <2>2. listed' = First(sort, skip * limit, stored)
          <3>1. First(sort, Skipped, stored) \cup First(sort, limit, rest)
                   = First(sort, Skipped + limit, stored)
              <4>1. \A k, n \in Nat :
                       First(sort, k, stored) \cup First(sort, n, stored \ First(sort, k, stored))
                          = First(sort, k + n, stored)
                  BY <1>3, FirstThenFirst
              <4> QED
                  BY <1>3, <4>1
          <3> HIDE DEF rest
          <3> QED
              BY <1>1, <1>3, <2>1, <3>1
      <2>3. Opening(sort, docs', rest)
          <3> HIDE DEF rest
          <3> QED
              BY <1>3, <1>5, <1>6, <2>1, FirstBegins
      <2> HIDE DEF First
      <2> QED
          BY <1>1, <2>1, <2>2, <2>3 DEF Opening
  <1>7. ASSUME limit = 0
        PROVE  stored \subseteq listed'
      <2>1. First(sort, Skipped, stored) = {}
          BY <1>3, <1>7, FirstBegins
      <2> QED
          BY <1>1, <1>4, <1>7, <2>1
  <1>8. SeenByNumber'
      <2>1. SeenByNumber' <=> (OneWay' /\ cursor' = None =>
              /\ steady' = stored'
              /\ stage' = "query" /\ limit' # 0 => listed' = First(sort, Skipped', stored')
              /\ stage' # "query" =>
                    /\ limit' # 0 => listed' = First(sort, skip' * limit', stored')
                    /\ limit' = 0 \/ docs' = {} => stored' \subseteq listed'
              /\ stage' = "answered" /\ next' = None => stored' \subseteq listed')
          BY <1>1 DEF SeenByNumber, First
      <2> QED
          BY <1>1, <1>2, <1>6, <1>7, <2>1
  <1> QED
      BY <1>6, <1>8

LEMMA QuerySeen ==
    ASSUME Inv, Seen, Query
    PROVE  /\ Seen'
           /\ stage' = "count" /\ OneWay /\ (IF ByCursor THEN ~Descends(sort) ELSE limit # 0) =>
                 docs' \cap listed \subseteq
                    {d \in Documents : /\ ByCursor /\ HasId(sort)
                                       /\ d["_id"] = cursor.id}
  <1>1. stage = "query" /\ UNCHANGED <<turned, upset, sort, cursor, steady, stored, next>>
      BY DEF Query, request, links
  <1>2. OneWay' <=> OneWay
      BY <1>1, QueryInv DEF OneWay
  <1>3. ~OneWay => SeenByCursor' /\ SeenByNumber'
      BY <1>2 DEF SeenByCursor, SeenByNumber
  <1>4. cursor # None => SeenByNumber'
      BY <1>1 DEF SeenByNumber
  <1>5. cursor = None \/ Descends(sort) => SeenByCursor'
      BY <1>1 DEF SeenByCursor
  <1>6. Fresh'
      BY <1>1, QueryInv DEF Fresh
  <1>7. CASE stage' = "count"
      BY <1>3, <1>4, <1>5, <1>6, <1>7, QuerySeenByCursor, QuerySeenByNumber DEF Seen, ByCursor
  <1>8. CASE stage' # "count"
      <2>1. /\ stage' = "refused" /\ UNCHANGED <<docs, listed>>
            /\ cursor \notin {None, Initial}
          BY <1>8, QueryInv
      <2>2. docs # {}
          BY <1>1, <2>1 DEF Inv, Trail
      <2>3. LastOf(sort, docs)' = LastOf(sort, docs) /\ Promised' = Promised
          BY <1>1, <2>1 DEF Promised
      <2>4. OneWay /\ ~Descends(sort) => SeenByCursor'
          <3>1. ASSUME OneWay, ~Descends(sort)
                PROVE  /\ \A x \in listed : ~Precedes(sort, LastOf(sort, docs), x)
                       /\ \A d \in Promised :
                             d \in listed \/ Precedes(sort, LastOf(sort, docs), d)
              BY <1>1, <2>1, <2>2, <3>1 DEF Seen, SeenByCursor
          <3> QED
              BY <1>1, <2>1, <2>2, <2>3, <3>1 DEF SeenByCursor
      <2> QED
          BY <1>3, <1>4, <1>5, <1>6, <1>8, <2>1, <2>4 DEF Seen
  <1> QED
      BY <1>7, <1>8

\* Without a link to the next page nothing is left: a steady document that was
\* not listed, and as many before it as a page holds, would exceed the page.
LEMMA CountSeen ==
    ASSUME Inv, Seen, Count
    PROVE  Seen'
  <1> DEFINE total == Cardinality(Selected)
             more == cursor # None /\ docs # {} /\ Exceeds(total)
  <1>1. /\ stage = "count" /\ stage' \in {"answered", "refused"}
        /\ stage' = "answered" =>
              /\ next' = IF more THEN Link(NextCursor, 1)
                         ELSE IF skip * limit < total THEN Link(cursor, skip + 1) ELSE None
              /\ more => NextMade
        /\ stage' = "refused" => cursor # None
        /\ UNCHANGED <<stored, sort, limit, cursor, skip, docs, listed, steady, turned, upset>>
      BY DEF Count, NextCursor, NextMade, Linked, Selected, request, ghosts
  <1>2. /\ stored \in SUBSET Documents /\ Selected \in SUBSET Documents /\ sort \in Sorts
        /\ limit \in Nat /\ skip \in 1 .. (MaxPage + 1) /\ MaxPage \in Nat
        /\ total \in Nat /\ cursor \in Cursors(sort)
      <2>1. /\ stored \in SUBSET Documents /\ sort \in Sorts /\ limit \in Nat
            /\ skip \in 1 .. (MaxPage + 1) /\ MaxPage \in Nat /\ cursor \in Cursors(sort)
          BY WalkTypes DEF Inv
      <2>2. Selected \in SUBSET Documents
          BY <2>1 DEF Selected, EncodeCursorQuery
      <2> QED
          BY <2>1, <2>2, PrecedingIsFinite
  <1>3. ASSUME stage' = "answered", next' = None PROVE ~more /\ ~(skip * limit < total)
      <2>1. CASE more
          <3>1. NextCursor \in Cursors(sort)
              BY <1>1, <1>2, <1>3, <2>1, EndsAreDocuments, MadeCursors
                 DEF NextCursor, NextMade, Inv
          <3> QED
              BY <1>1, <1>2, <1>3, <2>1, <3>1, LinkAssumption
      <2>2. CASE ~more /\ skip * limit < total
          BY <1>1, <1>2, <1>3, <2>2, LinkAssumption
      <2> QED
          BY <2>1, <2>2
  <1> HIDE DEF more
  <1>4. ASSUME OneWay, cursor # None, ~Descends(sort), stage' = "answered", next' = None
        PROVE  Promised \subseteq listed
      <2>1. docs = {} => Promised \subseteq listed
          BY <1>1, <1>4 DEF Seen, SeenByCursor
      <2>2. ASSUME docs # {}, NEW w \in Promised \ listed PROVE FALSE
          <3>1. w \in Selected /\ Cardinality(Preceding(sort, w, Selected)) >= limit
              BY <1>1, <1>4, <2>2 DEF Seen, SeenByCursor
          <3>2. Cardinality(Preceding(sort, w, Selected)) < total
              BY <1>2, <3>1, OneMore
          <3>3. Cardinality(Preceding(sort, w, Selected)) \in Nat
              BY <1>2, PrecedingIsFinite
          <3>4. ~(total > limit)
              BY <1>3, <1>4, <2>2 DEF Exceeds, more
          <3> HIDE DEF total
          <3> QED
              BY <1>2, <3>1, <3>2, <3>3, <3>4
      <2> QED
          BY <2>1, <2>2
  <1>5. ASSUME OneWay, cursor = None, next' = None PROVE stored \subseteq listed
      <2>0. stage' = "answered"
          BY <1>1, <1>5
      <2>1. CASE limit = 0
          BY <1>1, <1>5, <2>1 DEF Seen, SeenByNumber
      <2>2. CASE limit # 0
          <3>1. listed = First(sort, skip * limit, stored)
              BY <1>1, <1>5, <2>2 DEF Seen, SeenByNumber
          <3>2. Selected = stored
              BY <1>5 DEF Selected, EncodeCursorQuery
          <3>3. skip * limit \in Nat
              BY <1>2
          <3>4. Cardinality(stored) <= skip * limit
              BY <1>2, <1>3, <1>5, <2>0, <3>2, <3>3
          <3> QED
              BY <1>2, <3>1, <3>3, <3>4, FirstIsAll
      <2> QED
          BY <2>1, <2>2
  <1>6. OneWay' => OneWay
      BY <1>1 DEF OneWay
  <1>7. SeenByCursor'
      <2>1. LastOf(sort, docs)' = LastOf(sort, docs) /\ Promised' = Promised
          BY <1>1 DEF Promised
      <2> QED
          BY <1>1, <1>4, <1>6, <2>1 DEF Seen, SeenByCursor
  <1>8. SeenByNumber'
      BY <1>1, <1>5, <1>6 DEF Seen, SeenByNumber
  <1>9. Fresh'
      BY <1>1 DEF Fresh
  <1> QED
      BY <1>7, <1>8, <1>9 DEF Seen

\* The link to the next page leads on from the last document of this one, or
\* to the number after this one.  Who goes back is not followed further.
LEMMA FollowSeen ==
    ASSUME Inv, Seen, FollowNext \/ FollowPrevious
    PROVE  Seen'
  <1>1. /\ stage = "answered" /\ stage' = "query"
        /\ UNCHANGED <<stored, sort, limit, docs, listed, steady, upset>>
      BY DEF FollowNext, FollowPrevious, ghosts
  <1>2. CASE FollowPrevious
      BY <1>1, <1>2 DEF FollowPrevious, Seen, SeenByCursor, SeenByNumber, Fresh, OneWay
  <1>3. CASE FollowNext
      <2>1. /\ docs # {} /\ next # None /\ cursor' = next.cursor /\ skip' = next.skip
            /\ turned' = turned
          BY <1>3 DEF FollowNext, ghosts
      <2>2. \A c, n : Link(c, n).cursor = c /\ Link(c, n).skip = n
          BY DEF Link
      <2>3. OneWay' => OneWay
          BY <1>1, <2>1 DEF OneWay
      <2>4. /\ LastOf(sort, docs)' = LastOf(sort, docs) /\ NextCursor' = NextCursor
            /\ NextMade' = NextMade /\ Promised' = Promised
          BY <1>1 DEF NextCursor, NextMade, Promised
      <2>5. CASE cursor # None
          <3>1. cursor' = NextCursor /\ NextMade
              BY <2>1, <2>2, <2>5 DEF Inv, Trail
          <3>2. cursor' # None /\ cursor' # Initial
              BY <2>1, <3>1, EndsAreDocuments DEF Inv
          <3>3. SeenByCursor'
              BY <1>1, <2>1, <2>3, <2>4, <2>5, <3>1, <3>2 DEF Seen, SeenByCursor
          <3>4. SeenByNumber' /\ Fresh'
              BY <1>1, <3>2 DEF SeenByNumber, Fresh
          <3> QED
              BY <3>3, <3>4 DEF Seen
      <2>6. CASE cursor = None
          <3>1. cursor' = None /\ skip' = skip + 1
              BY <2>1, <2>2, <2>6 DEF Inv, Trail
          <3>2. skip \in Nat /\ Skipped' = skip * limit
              BY <1>1, <3>1 DEF Inv, TypeOK, Skipped
          <3>3. SeenByNumber'
              BY <1>1, <2>3, <2>6, <3>1, <3>2 DEF Seen, SeenByNumber
          <3>4. SeenByCursor' /\ Fresh'
              BY <1>1, <3>1 DEF SeenByCursor, Fresh
          <3> QED
              BY <3>3, <3>4 DEF Seen
      <2> QED
          BY <2>5, <2>6
  <1> QED
      BY <1>2, <1>3

LEMMA WalkSeen ==
    ASSUME Inv, Seen, [Next]_vars
    PROVE  Seen'
  <1>1. CASE UNCHANGED vars
      BY <1>1 DEF vars, request, links, ghosts, Seen, SeenByCursor, SeenByNumber, Fresh,
                  OneWay, NextCursor, NextMade, Promised, Selected, EncodeCursorQuery, Skipped
  <1> QED
      BY <1>1, WriteSeen, BeginSeen, QuerySeen, CountSeen, FollowSeen DEF Next

LEMMA SpecSeen == Spec => [](Inv /\ Seen)
  <1>1. Init => Seen
      BY DEF Init, Seen, SeenByCursor, SeenByNumber, Fresh, OneWay
  <1>2. Inv /\ Seen /\ [Next]_vars => Seen'
      BY WalkSeen
  <1> QED
      BY <1>1, <1>2, SpecInv, PTL DEF Spec

\* A client that has followed the links to the last page has seen every
\* document that was there, unchanged, all the while: by cursors whatever else
\* is written, but for a removal between a query and its count; by numbers
\* when nothing is.  By cursors, a document may stay out that lacks a field of
\* the sort; and a sort by descending _ids promises nothing.
THEOREM NothingIsMissed == Spec => []SteadyDocumentsAreListed
  <1>1. Inv /\ Seen => SteadyDocumentsAreListed
      BY DEF Inv, TypeOK, Seen, SeenByCursor, SeenByNumber, OneWay, Promised, ByCursor,
             SteadyDocumentsAreListed
  <1> QED
      BY <1>1, SpecSeen, PTL

\* And it sees none of them twice, but that by cursors a sort that has the _id
\* lists the document of the cursor again.
THEOREM NothingIsRepeated == Spec => NothingIsListedTwice
  <1>1. ASSUME Inv, Seen, [Next]_vars, stage = "query", stage' = "count",
               ~turned, ~upset, ByCursor \/ limit # 0, ~(ByCursor /\ Descends(sort))
        PROVE  docs' \cap listed \cap steady \subseteq Repeated
      <2>1. Query
          BY <1>1 DEF Next, Write, Begin, Count, FollowNext, FollowPrevious,
                      vars, request, links, ghosts
      <2> QED
          BY <1>1, <2>1, QuerySeen DEF OneWay, Repeated
  <1> QED
      BY <1>1, SpecSeen, PTL DEF Spec, NothingIsListedTwice
=============================================================================
