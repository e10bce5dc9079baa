---------------------------- MODULE CatalogueProofs ----------------------------
(***************************************************************************)
(* Theorems about Catalogue, for any documents, requests and handlers.     *)
(*                                                                         *)
(* References: the hooks lock nothing, so the argument follows each        *)
(* reference from its validation to its write, and each removal from the   *)
(* document to the last list: at every moment the reference holds, or a    *)
(* removal has yet to clean the list, or the two are known to have passed  *)
(* each other.                                                             *)
(*                                                                         *)
(* IndexCurrent: a handler is followed from step to step on the documents  *)
(* it keeps to itself, and touches no other.  SlugFound: a handler alone   *)
(* has seen every candidate taken that it went past.                       *)
(***************************************************************************)
EXTENDS Catalogue, TLAPS

Preparing == {"slug", "validate", "check", "write"}
Saving == Preparing \cup {"hasIndex", "createIndex", "index"}
Removing == {"remove", "unindex", "pull"}

Stored ==
    /\ DOMAIN stored = Docs
    /\ \A d \in Docs : stored[d] = None \/ stored[d] \in Bodies

\* A handler that saves holds a document, with the references of a new one; a
\* handler that removes goes through the lists from the first.
HandlerOK(c) ==
    /\ pc[c] = "idle" => count[c] = 0
    /\ pc[c] \in Saving => /\ Doc(c) \in Docs
                           /\ request[c].do \in {"save", "update"}
                           /\ request[c].do = "save" => WritesRefs(c)
                           /\ copy[c] \in Bodies
    /\ pc[c] = "slug" => count[c] \in Slugs
    /\ pc[c] \in Removing => Doc(c) \in Docs
    /\ pc[c] \in {"remove", "unindex"} => count[c] = 0
    /\ pc[c] = "pull" => count[c] \in Nat /\ count[c] < Len(ListedBy[Kind[Doc(c)]])

Shape ==
    /\ DOMAIN pc = Calls /\ DOMAIN request = Calls
    /\ DOMAIN copy = Calls /\ DOMAIN count = Calls
    /\ \A c \in Calls : HandlerOK(c)

\* Documents list those of the models that theirs may list.
ListsFit == \A d \in docs : \A r \in stored[d].refs : Kind[r] \in Lists[Kind[d]]

\* What holds of the references that handler c is about to write.
Prepared(c) ==
    /\ pc[c] \in {"check", "write"} =>
          \A r \in copy[c].refs : Kind[r] \in Lists[Kind[Doc(c)]] /\ r \in docs \cup loose
    /\ pc[c] = "write" =>
          \A r \in copy[c].refs :
              r \in loose \/ (r \in docs /\ stored[r].organization = copy[c].organization)
    /\ request[c].do = "update" =>
          \/ Doc(c) \in docs /\ stored[Doc(c)].organization = copy[c].organization
          \/ copy[c].refs \subseteq loose

AllPrepared == \A c \in Referring : Prepared(c)

Inv == Stored /\ Shape /\ ListsFit /\ AllPrepared /\ ReferencesHold

-----------------------------------------------------------------------------

LEMMA Bodied ==
    ASSUME NEW b \in Bodies
    PROVE  b # None /\ b.refs \subseteq Docs
  BY CatalogueAssumption DEF Bodies

\* Where a removal begins, the lists of every model that may list the document
\* are yet to be cleaned.
LEMMA AllLists ==
    ASSUME NEW k \in Kinds, NEW K \in Kinds, k \in Lists[K]
    PROVE  \E i \in 1 .. Len(ListedBy[k]) : ListedBy[k][i] = K
  <1>1. CASE k = "Layer"
      <2>1. ListedBy[k] = <<"Widget", "Dashboard", "Layer">>
          BY <1>1 DEF ListedBy
      <2>2. ListedBy[k][1] = "Widget" /\ ListedBy[k][2] = "Dashboard" /\ ListedBy[k][3] = "Layer"
            /\ Len(ListedBy[k]) = 3
          BY <2>1
      <2> QED
          BY <2>2 DEF Kinds
  <1>2. CASE k = "Widget"
      <2>1. ListedBy[k] = <<"Dashboard">>
          BY <1>2 DEF ListedBy
      <2>2. ListedBy[k][1] = "Dashboard" /\ Len(ListedBy[k]) = 1
          BY <2>1
      <2>3. K = "Dashboard"
          BY <1>2 DEF Lists, Kinds
      <2> QED
          BY <2>2, <2>3
  <1>3. CASE k = "Dashboard"
      BY <1>3 DEF Lists, Kinds
  <1> QED
      BY <1>1, <1>2, <1>3 DEF Kinds

LEMMA ListLengths ==
    ASSUME NEW k \in Kinds
    PROVE  Len(ListedBy[k]) \in Nat /\ (ListedBy[k] = <<>> <=> Len(ListedBy[k]) = 0)
  <1>1. CASE k = "Layer"
      BY <1>1 DEF ListedBy
  <1>2. CASE k = "Widget"
      BY <1>2 DEF ListedBy
  <1>3. CASE k = "Dashboard"
      BY <1>3 DEF ListedBy
  <1> QED
      BY <1>1, <1>2, <1>3 DEF Kinds

\* A step of a handler leaves the others as they are.
LEMMA GoesOn ==
    ASSUME Shape, NEW c \in Calls, NEW from, NEW to, NEW n, NEW body,
           Goes(c, from, to, n, body)
    PROVE  /\ pc[c] = from /\ pc'[c] = to
           /\ request'[c] = IF to = "over" THEN NoRequest ELSE request[c]
           /\ copy'[c] = IF to = "over" THEN None ELSE body
           /\ count'[c] = IF to = "over" THEN 0 ELSE n
           /\ \A d \in Calls \ {c} : /\ pc'[d] = pc[d] /\ request'[d] = request[d]
                                     /\ copy'[d] = copy[d] /\ count'[d] = count[d]
           /\ DOMAIN pc' = Calls /\ DOMAIN request' = Calls
           /\ DOMAIN copy' = Calls /\ DOMAIN count' = Calls
  BY DEF Shape, Goes

LEMMA OthersOK ==
    ASSUME Shape, NEW c \in Calls, NEW from, NEW to, NEW n, NEW body,
           Goes(c, from, to, n, body), HandlerOK(c)'
    PROVE  Shape'
  <1>1. ASSUME NEW d \in Calls, d # c PROVE HandlerOK(d)'
      <2>1. /\ pc'[d] = pc[d] /\ request'[d] = request[d]
            /\ copy'[d] = copy[d] /\ count'[d] = count[d]
          BY <1>1, GoesOn
      <2>2. HandlerOK(d)
          BY DEF Shape
      <2> QED
          BY <2>1, <2>2 DEF HandlerOK, Doc, WritesRefs
  <1> QED
      BY <1>1, GoesOn DEF Shape

LEMMA OverOK ==
    ASSUME Shape, NEW c \in Calls, pc'[c] = "over"
    PROVE  HandlerOK(c)'
  BY DEF HandlerOK, Saving, Preparing, Removing

\* A step that changes no document, of a handler that is not removing.
LEMMA Still ==
    ASSUME Inv, NEW c \in Calls, NEW from, NEW to, NEW n, NEW body,
           Goes(c, from, to, n, body), stored' = stored, loose \subseteq loose',
           from \notin BehindLists, to \notin BehindLists,
           HandlerOK(c)', c \in Referring' => Prepared(c)'
    PROVE  Inv'
  <1>1. Shape'
      BY OthersOK DEF Inv
  <1>2. Stored' /\ ListsFit' /\ docs' = docs
      BY DEF Inv, Stored, ListsFit, docs
  <1>3. AllPrepared'
      <2> SUFFICES ASSUME NEW d \in Referring', d # c PROVE Prepared(d)'
          BY DEF AllPrepared
      <2>1. /\ d \in Calls /\ pc'[d] = pc[d] /\ request'[d] = request[d]
            /\ copy'[d] = copy[d]
          BY GoesOn DEF Referring, Inv
      <2>2. d \in Referring
          BY <2>1 DEF Referring, WritesRefs
      <2>3. Prepared(d)
          BY <2>2 DEF Inv, AllPrepared
      <2> QED
          BY <1>2, <2>1, <2>3 DEF Prepared, Doc
  <1>4. ReferencesHold'
      <2>1. \A x \in Calls : \A d : pc'[x] \in BehindLists /\ Doc(x)' = d
               <=> pc[x] \in BehindLists /\ Doc(x) = d
          BY GoesOn DEF Inv, Doc
      <2>2. \A x \in Calls : pc[x] \in BehindLists => count'[x] = count[x]
          BY GoesOn DEF Inv
      <2>3. \A d : ToClean(d)' = ToClean(d)
          <3> TAKE d
          <3>1. {x \in Calls : pc'[x] \in BehindLists /\ Doc(x)' = d}
                   = {x \in Calls : pc[x] \in BehindLists /\ Doc(x) = d}
              BY <2>1
          <3> QED
              BY <2>2, <3>1 DEF ToClean
      <2> QED
          BY <1>2, <2>3 DEF Inv, ReferencesHold, Holds
  <1> QED
      BY <1>1, <1>2, <1>3, <1>4 DEF Inv

\* A request that starts changes no document, and writes nothing yet.
LEMMA StartKeeps ==
    ASSUME Inv, NEW c \in Calls, NEW r, NEW to, NEW body,
           Start(c, r, to, body), to \notin BehindLists, HandlerOK(c)',
           c \in Referring' => Prepared(c)'
    PROVE  Inv'
  <1>1. /\ pc[c] = "idle" /\ stored' = stored /\ loose' = loose /\ docs' = docs
        /\ \A d \in Calls \ {c} : /\ pc'[d] = pc[d] /\ request'[d] = request[d]
                                  /\ copy'[d] = copy[d] /\ count'[d] = count[d]
        /\ DOMAIN pc' = Calls /\ DOMAIN request' = Calls
        /\ DOMAIN copy' = Calls /\ DOMAIN count' = Calls /\ count' = count
        /\ pc'[c] = to
      BY DEF Start, Inv, Shape, docs
  <1>2. Shape'
      <2>1. ASSUME NEW d \in Calls, d # c PROVE HandlerOK(d)'
          <3>1. /\ pc'[d] = pc[d] /\ request'[d] = request[d]
                /\ copy'[d] = copy[d] /\ count'[d] = count[d]
              BY <1>1, <2>1
          <3>2. HandlerOK(d)
              BY DEF Inv, Shape
          <3> QED
              BY <3>1, <3>2 DEF HandlerOK, Doc, WritesRefs
      <2> QED
          BY <1>1, <2>1 DEF Shape
  <1>3. Stored' /\ ListsFit'
      BY <1>1 DEF Inv, Stored, ListsFit
  <1>4. AllPrepared'
      <2> SUFFICES ASSUME NEW d \in Referring', d # c PROVE Prepared(d)'
          BY DEF AllPrepared
      <2>1. d \in Referring
          BY <1>1 DEF Referring, WritesRefs
      <2>2. Prepared(d) /\ d \in Calls
          BY <2>1 DEF Inv, AllPrepared, Referring
      <2> QED
          BY <1>1, <2>2 DEF Prepared, Doc
  <1>5. ReferencesHold'
      <2>1. pc[c] \notin BehindLists
          BY <1>1 DEF BehindLists
      <2>2. \A d : {x \in Calls : pc'[x] \in BehindLists /\ Doc(x)' = d}
                      = {x \in Calls : pc[x] \in BehindLists /\ Doc(x) = d}
          BY <1>1, <2>1 DEF Doc
      <2>3. \A d : ToClean(d)' = ToClean(d)
          <3> TAKE d
          <3>1. {x \in Calls : pc'[x] \in BehindLists /\ Doc(x)' = d}
                   = {x \in Calls : pc[x] \in BehindLists /\ Doc(x) = d}
              BY <2>2
          <3>2. count' = count
              BY <1>1
          <3> QED
              BY <3>1, <3>2 DEF ToClean
      <2> QED
          BY <1>1, <2>3 DEF Inv, ReferencesHold, Holds
  <1> QED
      BY <1>2, <1>3, <1>4, <1>5 DEF Inv

LEMMA StartsKeep ==
    ASSUME Inv, NEW c \in Calls, NEW r \in Requests,
           Save(c, r) \/ Update(c, r) \/ Remove(c, r) \/ Reindex(c, r)
    PROVE  Inv'
  <1>1. /\ pc[c] = "idle" /\ count[c] = 0 /\ count' = count /\ stored' = stored
        /\ DOMAIN request = Calls /\ DOMAIN copy = Calls /\ DOMAIN pc = Calls
      BY DEF Save, Update, Remove, Reindex, Start, Inv, Shape, HandlerOK
  <1>2. /\ r.doc \in Docs /\ r.organization \in Orgs
        /\ \A f \in DOMAIN r.body : r.body[f] \in Values[f]
        /\ DOMAIN r.body \subseteq DOMAIN Values
        /\ r.do = "save" => DOMAIN r.body = DOMAIN Values
      BY CatalogueAssumption
  <1>3. /\ "name" \in DOMAIN r.body => r.body.name \in Names
        /\ "refs" \in DOMAIN r.body => r.body.refs \in SUBSET Docs
        /\ "slug" \in DOMAIN r.body => r.body.slug \in Slugs \cup {None}
      BY <1>2 DEF Values
  <1>4. CASE Save(c, r)
      <2> DEFINE body == [organization |-> r.organization, name |-> r.body.name,
                          refs |-> r.body.refs, slug |-> r.body.slug]
      <2>1. r.do = "save" /\ Start(c, r, FirstStep(body), body)
          BY <1>4 DEF Save
      <2>2. body \in Bodies
          <3>1. {"name", "refs", "slug"} = DOMAIN r.body
              BY <1>2, <2>1 DEF Values
          <3> QED
              BY <1>2, <1>3, <3>1 DEF Bodies
      <2>3. "refs" \in DOMAIN r.body
          BY <1>2, <2>1 DEF Values
      <2>4. FirstStep(body) \in {"slug", "validate"}
          BY DEF FirstStep
      <2> HIDE DEF body
      <2>5. /\ pc'[c] = FirstStep(body) /\ request'[c] = r /\ copy'[c] = body
          BY <1>1, <2>1 DEF Start
      <2>6. HandlerOK(c)'
          BY <1>1, <1>2, <2>1, <2>2, <2>3, <2>4, <2>5, CatalogueAssumption
             DEF HandlerOK, Saving, Preparing, Removing, Doc, WritesRefs, Slugs
      <2>7. Prepared(c)'
          BY <2>1, <2>4, <2>5 DEF Prepared
      <2>8. FirstStep(body) \notin BehindLists
          BY <2>4 DEF BehindLists
      <2> QED
          BY <2>1, <2>6, <2>7, <2>8, StartKeeps
  <1>5. CASE Update(c, r)
      <2> DEFINE new == [f \in Modified(r) |-> r.body[f]]
                 old == stored[r.doc]
                 body == [organization |-> old.organization,
                          name |-> IF "name" \in Modified(r) THEN new["name"] ELSE old.name,
                          refs |-> IF "refs" \in Modified(r) THEN new["refs"] ELSE old.refs,
                          slug |-> IF "slug" \in Modified(r) THEN new["slug"] ELSE old.slug]
                 q == [r EXCEPT !.body = new]
      <2>1. /\ r.do = "update" /\ r.doc \in docs
            /\ Start(c, q, FirstStep(body), body)
          BY <1>5 DEF Update
      <2>2. old \in Bodies
          BY <1>2, <2>1 DEF docs, Inv, Stored
      <2>3. body \in Bodies
          <3>1. Modified(r) \subseteq DOMAIN r.body
              BY DEF Modified
          <3>2. /\ "name" \in Modified(r) => new["name"] \in Names
                /\ "refs" \in Modified(r) => new["refs"] \in SUBSET Docs
                /\ "slug" \in Modified(r) => new["slug"] \in Slugs \cup {None}
              BY <1>3, <3>1
          <3>3. /\ old.name \in Names /\ old.refs \in SUBSET Docs
                /\ old.slug \in Slugs \cup {None} /\ old.organization \in Orgs
              BY <2>2 DEF Bodies
          <3> HIDE DEF new, old
          <3> QED
              BY <3>2, <3>3 DEF Bodies
      <2>4. body.organization = old.organization
          OBVIOUS
      <2>5. q.doc = r.doc /\ q.do = "update"
          BY <2>1
      <2>6. FirstStep(body) \in {"slug", "validate"}
          BY DEF FirstStep
      <2> HIDE DEF body, q
      <2>7. pc'[c] = FirstStep(body) /\ request'[c] = q /\ copy'[c] = body
          BY <1>1, <2>1 DEF Start
      <2>8. HandlerOK(c)'
          BY <1>1, <1>2, <2>3, <2>5, <2>6, <2>7, CatalogueAssumption
             DEF HandlerOK, Saving, Preparing, Removing, Doc, Slugs
      <2>9. Prepared(c)'
          <3>1. Doc(c)' \in docs' /\ stored'[r.doc].organization = copy'[c].organization
              BY <1>1, <2>1, <2>4, <2>5, <2>7 DEF Doc, docs
          <3> QED
              BY <2>5, <2>6, <2>7, <3>1 DEF Prepared, Doc
      <2>10. FirstStep(body) \notin BehindLists
          BY <2>6 DEF BehindLists
      <2> QED
          BY <2>1, <2>8, <2>9, <2>10, StartKeeps
  <1>6. CASE Remove(c, r) \/ Reindex(c, r)
      <2>1. PICK to \in {"remove", "hasOld"} : Start(c, r, to, None)
          BY <1>6 DEF Remove, Reindex
      <2>2. pc'[c] = to /\ request'[c] = r
          BY <1>1, <2>1 DEF Start
      <2>3. HandlerOK(c)'
          BY <1>1, <1>2, <2>1, <2>2 DEF HandlerOK, Saving, Preparing, Removing, Doc
      <2>4. c \notin Referring'
          BY <2>1, <2>2 DEF Referring
      <2>5. to \notin BehindLists
          BY <2>1 DEF BehindLists
      <2> QED
          BY <2>1, <2>3, <2>4, <2>5, StartKeeps
  <1> QED
      BY <1>4, <1>5, <1>6

-----------------------------------------------------------------------------
(* The steps of a save.                                                    *)

\* A slug is found, or none is.
LEMMA SlugKeeps ==
    ASSUME Inv, NEW c \in Calls, TrySlug(c) \/ NoSlug(c)
    PROVE  Inv'
  <1>1. /\ pc[c] = "slug" /\ stored' = stored /\ loose' = loose /\ HandlerOK(c)
        /\ c \in Referring => Prepared(c)
      BY DEF TrySlug, NoSlug, Moves, Goes, Inv, Shape, AllPrepared
  <1>2. Doc(c) \in Docs /\ copy[c] \in Bodies /\ count[c] \in Slugs
      BY <1>1 DEF HandlerOK, Saving, Preparing
  <1>3. CASE NoSlug(c)
      <2>1. Goes(c, "slug", "over", 0, copy[c])
          BY <1>3 DEF NoSlug, Moves
      <2>2. pc'[c] = "over"
          BY <2>1, GoesOn DEF Inv
      <2>3. HandlerOK(c)' /\ c \notin Referring'
          BY <2>2, OverOK DEF Referring, Inv
      <2> QED
          BY <1>1, <2>1, <2>3, Still DEF BehindLists
  <1>4. CASE TrySlug(c) /\ ~Exists(c, count[c])
      <2> DEFINE body == [copy[c] EXCEPT !.slug = count[c]]
      <2>1. Goes(c, "slug", "validate", 0, body)
          BY <1>4 DEF TrySlug
      <2>2. /\ body \in Bodies /\ body.refs = copy[c].refs
            /\ body.organization = copy[c].organization
          BY <1>2 DEF Bodies
      <2> HIDE DEF body
      <2>3. pc'[c] = "validate" /\ request'[c] = request[c] /\ copy'[c] = body
          BY <2>1, GoesOn DEF Inv
      <2>4. HandlerOK(c)'
          BY <1>1, <2>2, <2>3
             DEF HandlerOK, Saving, Preparing, Removing, Doc, WritesRefs
      <2>5. c \in Referring' => Prepared(c)'
          BY <1>1, <2>2, <2>3 DEF Prepared, Referring, WritesRefs, docs, Doc
      <2> QED
          BY <1>1, <2>1, <2>4, <2>5, Still DEF BehindLists
  <1>5. CASE TrySlug(c) /\ Exists(c, count[c])
      <2>1. Goes(c, "slug", "slug", count[c] + 1, copy[c]) /\ count[c] # MaxAttempts
          BY <1>5 DEF TrySlug
      <2>2. count[c] + 1 \in Slugs
          BY <1>2, <2>1, CatalogueAssumption DEF Slugs
      <2>3. /\ pc'[c] = "slug" /\ request'[c] = request[c] /\ copy'[c] = copy[c]
            /\ count'[c] = count[c] + 1
          BY <2>1, GoesOn DEF Inv
      <2>4. HandlerOK(c)'
          BY <1>1, <2>2, <2>3 DEF HandlerOK, Saving, Preparing, Removing, Doc, WritesRefs
      <2>5. c \in Referring' => Prepared(c)'
          BY <1>1, <2>3 DEF Prepared, Referring, WritesRefs, docs, Doc
      <2> QED
          BY <1>1, <2>1, <2>4, <2>5, Still DEF BehindLists
  <1> QED
      BY <1>3, <1>4, <1>5

\* A list is validated, and compared with the workspace.
LEMMA ChecksKeep ==
    ASSUME Inv, NEW c \in Calls, Validate(c) \/ CheckRefs(c)
    PROVE  Inv'
  <1>1. /\ pc[c] \in {"validate", "check"} /\ stored' = stored /\ loose' = loose
        /\ HandlerOK(c) /\ (c \in Referring => Prepared(c)) /\ docs' = docs
      BY DEF Validate, CheckRefs, Moves, Goes, Inv, Shape, AllPrepared, docs
  <1>2. Doc(c) \in Docs /\ copy[c] \in Bodies
      BY <1>1 DEF HandlerOK, Saving, Preparing
  <1>3. PICK to \in {"check", "write", "over"} :
           /\ Goes(c, pc[c], to, 0, copy[c])
           /\ to = "check" => /\ pc[c] = "validate"
                              /\ WritesRefs(c) =>
                                    copy[c].refs \subseteq
                                       {x \in docs : Kind[x] \in Lists[Kind[Doc(c)]]}
           /\ to = "write" => pc[c] = "check" /\ AreOfWorkspace(c)
      BY <1>1 DEF Validate, CheckRefs, Moves, Goes
  <1>4. CASE to = "over"
      <2>1. pc'[c] = "over"
          BY <1>3, <1>4, GoesOn DEF Inv
      <2>2. HandlerOK(c)' /\ c \notin Referring'
          BY <2>1, OverOK DEF Referring, Inv
      <2> QED
          BY <1>1, <1>3, <1>4, <2>2, Still DEF BehindLists
  <1>5. CASE to \in {"check", "write"}
      <2>1. pc'[c] = to /\ request'[c] = request[c] /\ copy'[c] = copy[c]
          BY <1>3, <1>5, GoesOn DEF Inv
      <2>2. HandlerOK(c)'
          BY <1>1, <1>5, <2>1 DEF HandlerOK, Saving, Preparing, Removing, Doc, WritesRefs
      <2>3. c \in Referring' => Prepared(c)'
          <3> SUFFICES ASSUME c \in Referring' PROVE Prepared(c)'
              OBVIOUS
          <3>1. WritesRefs(c) /\ c \in Referring
              BY <1>1, <2>1 DEF Referring, WritesRefs
          <3>2. CASE to = "check"
              BY <1>1, <1>3, <2>1, <3>1, <3>2 DEF Prepared, Doc
          <3>3. CASE to = "write"
              <4>1. pc[c] = "check" /\ AreOfWorkspace(c)
                  BY <1>3, <3>3
              <4>2. \A r \in copy[c].refs : r \in loose
                       \/ (r \in docs /\ stored[r].organization = copy[c].organization)
                  BY <1>1, <3>1, <4>1 DEF Prepared, AreOfWorkspace
              <4> QED
                  BY <1>1, <2>1, <3>1, <3>3, <4>1, <4>2 DEF Prepared, Doc
          <3> QED
              BY <1>5, <3>2, <3>3
      <2> QED
          BY <1>1, <1>3, <1>5, <2>2, <2>3, Still DEF BehindLists
  <1> QED
      BY <1>4, <1>5

-----------------------------------------------------------------------------
(* Steps that write documents, or that end a removal.                      *)

\* What other handlers have prepared stands while documents stay in their
\* workspaces.
LEMMA PreparedStays ==
    ASSUME Inv, NEW c \in Calls, NEW from, NEW to, NEW n, NEW body,
           Goes(c, from, to, n, body), loose \subseteq loose', docs \subseteq docs',
           \A d \in docs : stored'[d].organization = stored[d].organization
    PROVE  \A x \in Referring' \ {c} : Prepared(x)'
  <1> TAKE x \in Referring' \ {c}
  <1>1. /\ x \in Calls /\ pc'[x] = pc[x] /\ request'[x] = request[x]
        /\ copy'[x] = copy[x]
      BY GoesOn DEF Referring, Inv
  <1>2. x \in Referring
      BY <1>1 DEF Referring, WritesRefs
  <1>3. Prepared(x)
      BY <1>2 DEF Inv, AllPrepared
  <1> QED
      BY <1>1, <1>3 DEF Prepared, Doc

LEMMA ToCleanIs ==
    ASSUME NEW r, NEW K
    PROVE  /\ K \in ToClean(r) <=> \E x \in Calls :
                 /\ pc[x] \in BehindLists /\ Doc(x) = r
                 /\ \E i \in count[x] + 1 .. Len(ListedBy[Kind[r]]) : K = ListedBy[Kind[r]][i]
           /\ K \in ToClean(r)' <=> \E x \in Calls :
                 /\ pc'[x] \in BehindLists /\ Doc(x)' = r
                 /\ \E i \in count'[x] + 1 .. Len(ListedBy[Kind[r]]) : K = ListedBy[Kind[r]][i]
  BY DEF ToClean

\* Lists that another handler has to clean remain to be cleaned.
LEMMA OthersClean ==
    ASSUME Inv, NEW c \in Calls, NEW from, NEW to, NEW n, NEW body,
           Goes(c, from, to, n, body), NEW r, NEW K \in ToClean(r),
           pc[c] \notin BehindLists \/ Doc(c) # r
    PROVE  K \in ToClean(r)'
  <1>1. PICK x \in Calls :
           /\ pc[x] \in BehindLists /\ Doc(x) = r
           /\ \E i \in count[x] + 1 .. Len(ListedBy[Kind[r]]) : K = ListedBy[Kind[r]][i]
      BY ToCleanIs
  <1>2. x # c
      BY <1>1
  <1>3. pc'[x] = pc[x] /\ request'[x] = request[x] /\ count'[x] = count[x]
      BY <1>2, GoesOn DEF Inv
  <1>4. pc'[x] \in BehindLists /\ Doc(x)' = r
      BY <1>1, <1>3 DEF Doc
  <1> QED
      BY <1>1, <1>3, <1>4, ToCleanIs

\* The document is inserted, or its fields are replaced: in both cases it
\* stays in its workspace, and lists what it did or what was checked.
LEMMA WriteKeeps ==
    ASSUME Inv, NEW c \in Calls, Write(c)
    PROVE  Inv'
  <1> DEFINE D == Doc(c)
             new == Written(c)
  <1>1. /\ Goes(c, "write", "hasIndex", 0, copy[c]) /\ loose' = loose
        /\ stored' = [stored EXCEPT ![D] = new] /\ pc[c] = "write"
        /\ (D \in docs) # (request[c].do = "save")
        /\ HandlerOK(c) /\ DOMAIN stored = Docs
      BY DEF Write, Refused, Moves, Goes, Inv, Shape, Stored
  <1>2. /\ D \in Docs /\ copy[c] \in Bodies /\ request[c].do \in {"save", "update"}
        /\ request[c].do = "save" => WritesRefs(c)
      BY <1>1 DEF HandlerOK, Saving, Preparing
  <1>3. WritesRefs(c) => Prepared(c)
      BY <1>1 DEF Referring, Inv, AllPrepared
  <1>4. /\ D \in docs => stored[D] \in Bodies /\ new.organization = stored[D].organization
        /\ new \in Bodies
        /\ WritesRefs(c) => new.refs = copy[c].refs
        /\ ~WritesRefs(c) => D \in docs /\ new.refs = stored[D].refs
        /\ D \notin docs => new.organization = copy[c].organization
      <2>1. CASE request[c].do = "save"
          BY <1>1, <1>2, <2>1 DEF Written
      <2>2. CASE request[c].do = "update"
          <3> DEFINE old == stored[D]
                     a == IF "name" \in DOMAIN request[c].body THEN copy[c].name ELSE old.name
                     b == IF WritesRefs(c) THEN copy[c].refs ELSE old.refs
                     s == IF "slug" \in DOMAIN request[c].body THEN copy[c].slug ELSE old.slug
          <3>1. D \in docs
              BY <1>1, <2>2
          <3>2. old \in Bodies
              BY <1>2, <3>1 DEF docs, Inv, Stored
          <3>3. new = [old EXCEPT !.name = a, !.refs = b, !.slug = s]
              BY <2>2 DEF Written
          <3>4. /\ a \in Names /\ b \in SUBSET Docs /\ s \in Slugs \cup {None}
                /\ WritesRefs(c) => b = copy[c].refs
                /\ ~WritesRefs(c) => b = old.refs
              BY <1>2, <3>2 DEF Bodies
          <3> HIDE DEF old, a, b, s, new
          <3>5. new \in Bodies /\ new.organization = old.organization /\ new.refs = b
              BY <3>2, <3>3, <3>4 DEF Bodies
          <3> QED
              BY <3>1, <3>2, <3>4, <3>5 DEF old
      <2> QED
          BY <1>2, <2>1, <2>2
  <1> HIDE DEF new, D
  <1>5. /\ docs' = docs \cup {D} /\ D \in docs'
        /\ stored'[D] = new /\ (\A d \in Docs \ {D} : stored'[d] = stored[d])
      BY <1>1, <1>2, <1>4, Bodied DEF docs
  <1>6. \A d \in docs : stored'[d].organization = stored[d].organization
      BY <1>4, <1>5 DEF docs
  <1>7. /\ pc'[c] = "hasIndex" /\ request'[c] = request[c] /\ copy'[c] = copy[c]
        /\ pc[c] \notin BehindLists
      BY <1>1, GoesOn DEF Inv, BehindLists
  <1>8. Stored'
      BY <1>1, <1>4, <1>5 DEF Inv, Stored
  <1>9. Shape'
      <2>1. HandlerOK(c)'
          BY <1>1, <1>2, <1>7 DEF HandlerOK, Saving, Preparing, Removing, Doc, WritesRefs, D
      <2> QED
          BY <1>1, <2>1, OthersOK DEF Inv
  <1>10. AllPrepared'
      <2>1. c \notin Referring'
          BY <1>7 DEF Referring
      <2> QED
          BY <1>1, <1>5, <1>6, <2>1, PreparedStays DEF AllPrepared
  <1>11. ASSUME NEW r \in new.refs
         PROVE  /\ Kind[r] \in Lists[Kind[D]]
                /\ r \in loose \/ Kind[D] \in ToClean(r)
                   \/ (r \in docs /\ stored[r].organization = new.organization)
      <2>1. CASE WritesRefs(c)
          <3>1. /\ Kind[r] \in Lists[Kind[D]]
                /\ r \in loose \/ (r \in docs /\ stored[r].organization = copy[c].organization)
                /\ request[c].do = "update" =>
                     \/ D \in docs /\ stored[D].organization = copy[c].organization
                     \/ copy[c].refs \subseteq loose
              BY <1>1, <1>3, <1>4, <2>1 DEF Prepared, D
          <3> QED
              BY <1>1, <1>2, <1>4, <2>1, <3>1
      <2>2. CASE ~WritesRefs(c)
          BY <1>4, <2>2 DEF Inv, ListsFit, ReferencesHold, Holds
      <2> QED
          BY <2>1, <2>2
  <1>12. ListsFit'
      <2> SUFFICES ASSUME NEW d \in docs', NEW r \in stored'[d].refs
                   PROVE  Kind[r] \in Lists[Kind[d]]
          BY DEF ListsFit
      <2>1. CASE d = D
          BY <1>5, <1>11, <2>1
      <2>2. CASE d # D
          BY <1>5, <2>2 DEF Inv, ListsFit, docs
      <2> QED
          BY <2>1, <2>2
  <1>13. ReferencesHold'
      <2> SUFFICES ASSUME NEW d \in docs', NEW r \in stored'[d].refs
                   PROVE  Holds(d, r)' \/ r \in loose' \/ Kind[d] \in ToClean(r)'
          BY DEF ReferencesHold
      <2>1. ASSUME Kind[d] \in ToClean(r) PROVE Kind[d] \in ToClean(r)'
          BY <1>1, <1>7, <2>1, OthersClean
      <2>2. CASE d = D
          <3>1. CASE r \in docs /\ stored[r].organization = new.organization
              BY <1>5, <1>6, <2>2, <3>1 DEF Holds
          <3> QED
              BY <1>1, <1>5, <1>11, <2>1, <2>2, <3>1
      <2>3. CASE d # D
          <3>1. d \in docs /\ stored'[d] = stored[d] /\ r \in stored[d].refs
              BY <1>5, <2>3 DEF docs
          <3>2. Holds(d, r) \/ r \in loose \/ Kind[d] \in ToClean(r)
              BY <3>1 DEF Inv, ReferencesHold
          <3>3. Holds(d, r) => Holds(d, r)'
              BY <1>5, <1>6, <3>1 DEF Holds
          <3> QED
              BY <1>1, <2>1, <3>2, <3>3
      <2> QED
          BY <2>2, <2>3
  <1> QED
      BY <1>8, <1>9, <1>10, <1>12, <1>13 DEF Inv

\* The index is written, or read and filled: no document changes.
LEMMA IndexKeeps ==
    ASSUME Inv, NEW c \in Calls,
           \/ HasIndex(c) \/ CreateIndex(c) \/ IndexById(c)
           \/ HasOldIndex(c) \/ DeleteIndex(c) \/ CreateNewIndex(c)
           \/ FindAll(c) \/ BulkIndex(c)
    PROVE  Inv'
  <1> DEFINE Step(to, body) ==
               /\ to \in {"over", "index", "createIndex", "deleteIndex", "createNew", "find", "bulk"}
               /\ Goes(c, pc[c], to, 0, body)
               /\ to \in {"index", "createIndex"} =>
                    body = copy[c] /\ pc[c] \in {"hasIndex", "createIndex"}
  <1>1. PICK to, body : Step(to, body)
      <2>1. CASE HasIndex(c)
          <3>1. Step(IF Kind[Doc(c)] \in indices THEN "index" ELSE "createIndex", copy[c])
              BY <2>1 DEF HasIndex, Moves, Goes
          <3> QED
              BY <3>1
      <2>2. CASE HasOldIndex(c)
          <3>1. Step(IF Kind[Doc(c)] \in indices THEN "deleteIndex" ELSE "createNew", copy[c])
              BY <2>2 DEF HasOldIndex, Moves, Goes
          <3> QED
              BY <3>1
      <2>3. CASE CreateIndex(c) \/ IndexById(c)
          <3>1. Step("index", copy[c]) \/ Step("over", copy[c])
              BY <2>3 DEF CreateIndex, IndexById, Moves, Goes
          <3> QED
              BY <3>1
      <2>4. CASE DeleteIndex(c) \/ CreateNewIndex(c) \/ BulkIndex(c)
          <3>1. \/ Step("createNew", copy[c]) \/ Step("find", copy[c])
                \/ Step("over", copy[c])
              BY <2>4 DEF DeleteIndex, CreateNewIndex, BulkIndex, Moves, Goes
          <3> QED
              BY <3>1
      <2>5. CASE FindAll(c)
          <3>1. Step("bulk", [d \in About(request[c]) |-> Searched(stored[d])])
              BY <2>5 DEF FindAll, Goes
          <3> QED
              BY <3>1
      <2> QED
          BY <2>1, <2>2, <2>3, <2>4, <2>5
  <1>2. /\ stored' = stored /\ loose' = loose /\ HandlerOK(c)
        /\ pc[c] \notin BehindLists
      BY DEF HasIndex, CreateIndex, IndexById, HasOldIndex, DeleteIndex,
             CreateNewIndex, FindAll, BulkIndex, Moves, Goes, Inv, Shape, BehindLists
  <1>3. /\ pc'[c] = to
        /\ to # "over" => request'[c] = request[c] /\ copy'[c] = body
      BY <1>1, GoesOn DEF Inv
  <1>4. HandlerOK(c)'
      <2>1. CASE to \in {"index", "createIndex"}
          BY <1>1, <1>2, <1>3, <2>1
             DEF HandlerOK, Saving, Preparing, Removing, Doc, WritesRefs
      <2>2. CASE to \notin {"index", "createIndex"}
          BY <1>1, <1>3, <2>2 DEF HandlerOK, Saving, Preparing, Removing
      <2> QED
          BY <2>1, <2>2
  <1>5. c \notin Referring' /\ to \notin BehindLists
      BY <1>1, <1>3 DEF Referring, BehindLists
  <1> QED
      BY <1>1, <1>2, <1>4, <1>5, Still

-----------------------------------------------------------------------------
(* The steps of a removal.                                                 *)

\* The document goes: every list that may hold it is yet to be cleaned, and
\* what others may still write counts as loose.
LEMMA RemoveDocKeeps ==
    ASSUME Inv, NEW c \in Calls, RemoveDoc(c)
    PROVE  Inv'
  <1> DEFINE D == Doc(c)
  <1>1. /\ Goes(c, "remove", "unindex", 0, copy[c]) /\ pc[c] = "remove"
        /\ stored' = [stored EXCEPT ![D] = None]
        /\ loose' = loose \cup UNION {AboutToRefer(x, D) : x \in Referring}
        /\ HandlerOK(c) /\ DOMAIN stored = Docs
      BY DEF RemoveDoc, Moves, Goes, Inv, Shape, Stored
  <1>2. D \in Docs /\ pc[c] \notin BehindLists
      BY <1>1 DEF HandlerOK, Removing, BehindLists
  <1> HIDE DEF D
  <1>3. /\ docs' = docs \ {D} /\ stored'[D] = None
        /\ (\A d \in Docs \ {D} : stored'[d] = stored[d])
      BY <1>1, <1>2 DEF docs
  <1>4. /\ pc'[c] = "unindex" /\ request'[c] = request[c] /\ count'[c] = 0
      BY <1>1, GoesOn DEF Inv
  <1>5. Stored'
      BY <1>1, <1>3 DEF Inv, Stored
  <1>6. Shape'
      <2>1. HandlerOK(c)'
          BY <1>2, <1>4 DEF HandlerOK, Saving, Preparing, Removing, Doc, D
      <2> QED
          BY <1>1, <2>1, OthersOK DEF Inv
  <1>7. ListsFit'
      BY <1>3 DEF Inv, ListsFit, docs
  <1>8. AllPrepared'
      <2> SUFFICES ASSUME NEW x \in Referring' PROVE Prepared(x)'
          BY DEF AllPrepared
      <2>1. x # c
          BY <1>4 DEF Referring
      <2>2. /\ x \in Calls /\ pc'[x] = pc[x] /\ request'[x] = request[x]
            /\ copy'[x] = copy[x]
          BY <1>1, <2>1, GoesOn DEF Referring, Inv
      <2>3. x \in Referring
          BY <2>2 DEF Referring, WritesRefs
      <2>4. Prepared(x) /\ copy[x] \in Bodies
          BY <2>2, <2>3 DEF Inv, AllPrepared, Referring, Shape, HandlerOK, Saving, Preparing
      <2>5. AboutToRefer(x, D) \subseteq loose'
          BY <1>1, <2>3
      <2>6. loose \subseteq loose'
          BY <1>1
      <2>7. ASSUME pc[x] \in {"check", "write"}, NEW r \in copy[x].refs, r = D
            PROVE  r \in loose'
          BY <2>5, <2>7 DEF AboutToRefer
      <2>8. pc[x] \in {"check", "write"} =>
               \A r \in copy[x].refs : Kind[r] \in Lists[Kind[Doc(x)]] /\ r \in docs' \cup loose'
          BY <1>3, <2>4, <2>6, <2>7 DEF Prepared
      <2>9. pc[x] = "write" =>
               \A r \in copy[x].refs :
                  r \in loose' \/ (r \in docs' /\ stored'[r].organization = copy[x].organization)
          <3> SUFFICES ASSUME pc[x] = "write", NEW r \in copy[x].refs, r \notin loose'
                       PROVE  r \in docs' /\ stored'[r].organization = copy[x].organization
              OBVIOUS
          <3>1. r # D
              BY <2>7
          <3>2. r \in docs /\ stored[r].organization = copy[x].organization
              BY <2>4, <2>6 DEF Prepared
          <3> QED
              BY <1>3, <3>1, <3>2 DEF docs
      <2>10. request[x].do = "update" =>
                \/ Doc(x) \in docs' /\ stored'[Doc(x)].organization = copy[x].organization
                \/ copy[x].refs \subseteq loose'
          <3> SUFFICES ASSUME request[x].do = "update"
                       PROVE  \/ Doc(x) \in docs' /\ stored'[Doc(x)].organization = copy[x].organization
                              \/ copy[x].refs \subseteq loose'
              OBVIOUS
          <3>1. CASE Doc(x) = D
              BY <2>5, <3>1 DEF AboutToRefer
          <3>2. CASE Doc(x) # D
              <4>1. \/ Doc(x) \in docs /\ stored[Doc(x)].organization = copy[x].organization
                    \/ copy[x].refs \subseteq loose
                  BY <2>4 DEF Prepared
              <4> QED
                  BY <1>3, <2>6, <3>2, <4>1 DEF docs
          <3> QED
              BY <3>1, <3>2
      <2> QED
          BY <2>2, <2>8, <2>9, <2>10 DEF Prepared, Doc
  <1>9. ReferencesHold'
      <2> SUFFICES ASSUME NEW d \in docs', NEW r \in stored'[d].refs
                   PROVE  Holds(d, r)' \/ r \in loose' \/ Kind[d] \in ToClean(r)'
          BY DEF ReferencesHold
      <2>1. d \in docs /\ d # D /\ r \in stored[d].refs /\ stored'[d] = stored[d]
          BY <1>3 DEF docs
      <2>2. CASE r = D
          <3>1. Kind[D] \in Lists[Kind[d]]
              BY <2>1, <2>2 DEF Inv, ListsFit
          <3>2. Kind[D] \in Kinds /\ Kind[d] \in Kinds
              BY <1>2, <2>1, CatalogueAssumption DEF docs
          <3>3. PICK i \in 1 .. Len(ListedBy[Kind[D]]) : ListedBy[Kind[D]][i] = Kind[d]
              BY <3>1, <3>2, AllLists
          <3>4. pc'[c] \in BehindLists /\ Doc(c)' = D /\ count'[c] + 1 = 1
              BY <1>4 DEF BehindLists, Doc, D
          <3> QED
              BY <2>2, <3>3, <3>4, ToCleanIs
      <2>3. CASE r # D
          <3>1. Holds(d, r) \/ r \in loose \/ Kind[d] \in ToClean(r)
              BY <2>1 DEF Inv, ReferencesHold
          <3>2. Holds(d, r) => Holds(d, r)'
              BY <1>3, <2>1, <2>3 DEF Holds, docs
          <3>3. Kind[d] \in ToClean(r) => Kind[d] \in ToClean(r)'
              BY <1>1, <1>2, OthersClean
          <3> QED
              BY <1>1, <3>1, <3>2, <3>3
      <2> QED
          BY <2>2, <2>3
  <1> QED
      BY <1>5, <1>6, <1>7, <1>8, <1>9 DEF Inv

\* A removal goes on to the lists, unless there are none.
LEMMA RemoveByIdKeeps ==
    ASSUME Inv, NEW c \in Calls, RemoveById(c)
    PROVE  Inv'
  <1> DEFINE D == Doc(c)
             to == IF ListedBy[Kind[D]] = <<>> THEN "over" ELSE "pull"
  <1>1. /\ Goes(c, "unindex", to, 0, copy[c]) /\ pc[c] = "unindex"
        /\ stored' = stored /\ loose' = loose /\ docs' = docs /\ HandlerOK(c)
      BY DEF RemoveById, Moves, Goes, Inv, Shape, docs
  <1>2. D \in Docs /\ count[c] = 0
      BY <1>1 DEF HandlerOK, Removing
  <1>3. Kind[D] \in Kinds
      BY <1>2, CatalogueAssumption
  <1>4. Len(ListedBy[Kind[D]]) \in Nat /\ (to = "over" <=> Len(ListedBy[Kind[D]]) = 0)
      BY <1>3, ListLengths
  <1>5. to \in {"over", "pull"}
      OBVIOUS
  <1> HIDE DEF D, to
  <1>6. /\ pc'[c] = to /\ count'[c] = 0 /\ (to = "pull" => request'[c] = request[c])
      BY <1>1, <1>5, GoesOn DEF Inv
  <1>7. Shape'
      <2>1. HandlerOK(c)'
          BY <1>2, <1>4, <1>5, <1>6 DEF HandlerOK, Saving, Preparing, Removing, Doc, D
      <2> QED
          BY <1>1, <2>1, OthersOK DEF Inv
  <1>8. Stored' /\ ListsFit'
      BY <1>1 DEF Inv, Stored, ListsFit
  <1>9. AllPrepared'
      <2>1. c \notin Referring'
          BY <1>5, <1>6 DEF Referring
      <2> QED
          BY <1>1, <2>1, PreparedStays DEF AllPrepared
  <1>10. ReferencesHold'
      <2> SUFFICES ASSUME NEW d \in docs', NEW r \in stored'[d].refs,
                          Kind[d] \in ToClean(r)
                   PROVE  Kind[d] \in ToClean(r)'
          BY <1>1 DEF Inv, ReferencesHold, Holds
      <2>1. PICK x \in Calls :
               /\ pc[x] \in BehindLists /\ Doc(x) = r
               /\ \E i \in count[x] + 1 .. Len(ListedBy[Kind[r]]) :
                     Kind[d] = ListedBy[Kind[r]][i]
          BY ToCleanIs
      <2>2. CASE x = c
          <3>1. to = "pull" /\ r = D
              BY <1>2, <1>4, <1>5, <2>1, <2>2 DEF D
          <3>2. pc'[c] \in BehindLists /\ Doc(c)' = r /\ count'[c] = count[c]
              BY <1>2, <1>6, <2>1, <2>2, <3>1 DEF BehindLists, Doc
          <3> QED
              BY <2>1, <2>2, <3>2, ToCleanIs
      <2>3. CASE x # c
          <3>1. pc'[x] = pc[x] /\ request'[x] = request[x] /\ count'[x] = count[x]
              BY <1>1, <2>3, GoesOn DEF Inv
          <3>2. pc'[x] \in BehindLists /\ Doc(x)' = r
              BY <2>1, <3>1 DEF Doc
          <3> QED
              BY <2>1, <3>1, <3>2, ToCleanIs
      <2> QED
          BY <2>2, <2>3
  <1> QED
      BY <1>7, <1>8, <1>9, <1>10 DEF Inv

\* One list is cleaned, in all the documents of a model.
LEMMA RemoveRefLinksKeeps ==
    ASSUME Inv, NEW c \in Calls, RemoveRefLinks(c)
    PROVE  Inv'
  <1> DEFINE D == Doc(c)
             lists == ListedBy[Kind[D]]
             model == lists[count[c] + 1]
             to == IF count[c] + 1 = Len(lists) THEN "over" ELSE "pull"
  <1>1. /\ Goes(c, "pull", to, count[c] + 1, None) /\ pc[c] = "pull"
        /\ stored' = [x \in Docs |-> IF x \in docs /\ Kind[x] = model
                                     THEN [stored[x] EXCEPT !.refs = @ \ {D}] ELSE stored[x]]
        /\ loose' = loose /\ HandlerOK(c)
      BY DEF RemoveRefLinks, Inv, Shape
  <1>2. D \in Docs /\ count[c] \in Nat /\ count[c] < Len(lists)
      BY <1>1 DEF HandlerOK, Removing
  <1>3. Len(lists) \in Nat
      BY <1>2, ListLengths, CatalogueAssumption
  <1>4. /\ to \in {"over", "pull"} /\ (to = "over" <=> count[c] + 1 = Len(lists))
        /\ to = "pull" => count[c] + 1 < Len(lists)
      BY <1>2, <1>3
  <1> HIDE DEF model, to, D
  <1>5. \A d \in docs : /\ stored'[d] \in Bodies
                        /\ stored'[d].organization = stored[d].organization
                        /\ stored'[d].refs \subseteq stored[d].refs
                        /\ Kind[d] = model => D \notin stored'[d].refs
      <2> TAKE d \in docs
      <2>1. stored[d] \in Bodies /\ d \in Docs
          BY DEF docs, Inv, Stored
      <2>2. CASE Kind[d] = model
          <3> DEFINE left == stored[d].refs \ {D}
          <3>1. left \in SUBSET Docs /\ left \subseteq stored[d].refs /\ D \notin left
              BY <2>1, Bodied
          <3> HIDE DEF left
          <3>2. stored'[d] = [stored[d] EXCEPT !.refs = left]
              BY <1>1, <2>1, <2>2 DEF left
          <3>3. stored'[d] \in Bodies /\ stored'[d].refs = left
                /\ stored'[d].organization = stored[d].organization
              BY <2>1, <3>1, <3>2 DEF Bodies
          <3> QED
              BY <3>1, <3>3
      <2>3. CASE Kind[d] # model
          BY <1>1, <2>1, <2>3
      <2> QED
          BY <2>2, <2>3
  <1>6. DOMAIN stored' = Docs /\ \A d \in Docs \ docs : stored'[d] = None
      BY <1>1 DEF docs
  <1>7. docs' = docs
      BY <1>5, <1>6, Bodied DEF docs
  <1>8. /\ pc'[c] = to /\ (to = "pull" => request'[c] = request[c] /\ count'[c] = count[c] + 1)
      BY <1>1, <1>4, GoesOn DEF Inv
  <1>9. Stored' /\ ListsFit'
      <2>1. Stored'
          BY <1>5, <1>6 DEF Stored
      <2>2. ListsFit'
          BY <1>5, <1>7 DEF Inv, ListsFit
      <2> QED
          BY <2>1, <2>2
  <1>10. Shape'
      <2>1. HandlerOK(c)'
          BY <1>2, <1>4, <1>8 DEF HandlerOK, Saving, Preparing, Removing, Doc, D
      <2> QED
          BY <1>1, <2>1, OthersOK DEF Inv
  <1>11. AllPrepared'
      <2>1. c \notin Referring'
          BY <1>4, <1>8 DEF Referring
      <2> QED
          BY <1>1, <1>5, <1>7, <2>1, PreparedStays DEF AllPrepared
  <1>12. ReferencesHold'
      <2> SUFFICES ASSUME NEW d \in docs, NEW r \in stored'[d].refs,
                          Kind[d] \in ToClean(r)
                   PROVE  Kind[d] \in ToClean(r)'
          <3>1. \A d \in docs : \A r : Holds(d, r) => Holds(d, r)'
              BY <1>5, <1>7 DEF Holds
          <3>2. \A d \in docs : \A r \in stored'[d].refs : r \in stored[d].refs
              BY <1>5
          <3>3. \A d \in docs : \A r \in stored'[d].refs :
                   Holds(d, r)' \/ r \in loose' \/ Kind[d] \in ToClean(r)
              BY <1>1, <3>1, <3>2 DEF Inv, ReferencesHold
          <3> QED
              BY <1>7, <3>3 DEF ReferencesHold
      <2>1. PICK x \in Calls :
               /\ pc[x] \in BehindLists /\ Doc(x) = r
               /\ \E i \in count[x] + 1 .. Len(ListedBy[Kind[r]]) :
                     Kind[d] = ListedBy[Kind[r]][i]
          BY ToCleanIs
      <2>2. CASE x = c
          <3>1. r = D /\ Kind[d] # model
              BY <1>5, <2>1, <2>2 DEF D
          <3>2. PICK i \in count[c] + 1 .. Len(lists) : Kind[d] = lists[i]
              BY <2>1, <2>2, <3>1
          <3>3. i # count[c] + 1
              BY <3>1, <3>2 DEF model
          <3>4. i \in count[c] + 2 .. Len(lists)
              BY <1>2, <1>3, <3>2, <3>3
          <3>5. to = "pull"
              BY <1>2, <1>3, <1>4, <3>4
          <3>6. /\ pc'[c] \in BehindLists /\ Doc(c)' = r
                /\ i \in count'[c] + 1 .. Len(ListedBy[Kind[r]]) /\ Kind[d] = ListedBy[Kind[r]][i]
              BY <1>2, <1>8, <2>1, <2>2, <3>1, <3>2, <3>4, <3>5 DEF BehindLists, Doc
          <3> QED
              BY <3>6, ToCleanIs
      <2>3. CASE x # c
          <3>1. pc'[x] = pc[x] /\ request'[x] = request[x] /\ count'[x] = count[x]
              BY <1>1, <2>3, GoesOn DEF Inv
          <3>2. pc'[x] \in BehindLists /\ Doc(x)' = r
              BY <2>1, <3>1 DEF Doc
          <3> QED
              BY <2>1, <3>1, <3>2, ToCleanIs
      <2> QED
          BY <2>2, <2>3
  <1> QED
      BY <1>9, <1>10, <1>11, <1>12 DEF Inv

\* A handler that fails leaves the lists it had yet to clean: the document
\* counts as loose from then on.
LEMMA FailureKeeps ==
    ASSUME Inv, NEW c \in Calls, CallFails(c) \/ WriteFails(c)
    PROVE  Inv'
  <1>1. /\ Goes(c, pc[c], "over", 0, copy[c]) /\ stored' = stored
        /\ loose \subseteq loose' /\ docs' = docs
        /\ pc[c] \in BehindLists => Doc(c) \in loose'
      BY DEF CallFails, WriteFails, Moves, Goes, docs, BehindLists
  <1>2. pc'[c] = "over"
      BY <1>1, GoesOn DEF Inv
  <1>3. HandlerOK(c)' /\ c \notin Referring'
      BY <1>2, OverOK DEF Referring, Inv
  <1>4. Stored' /\ ListsFit'
      BY <1>1 DEF Inv, Stored, ListsFit
  <1>5. Shape'
      BY <1>1, <1>3, OthersOK DEF Inv
  <1>6. AllPrepared'
      BY <1>1, <1>3, PreparedStays DEF AllPrepared
  <1>7. ReferencesHold'
      <2> SUFFICES ASSUME NEW d \in docs, NEW r \in stored[d].refs,
                          Kind[d] \in ToClean(r), r \notin loose'
                   PROVE  Kind[d] \in ToClean(r)'
          BY <1>1 DEF Inv, ReferencesHold, Holds
      <2> QED
          BY <1>1, OthersClean
  <1> QED
      BY <1>4, <1>5, <1>6, <1>7 DEF Inv

-----------------------------------------------------------------------------

LEMMA InitInv == Init => Inv
  <1> SUFFICES ASSUME Init PROVE Inv
      OBVIOUS
  <1>1. Stored
      <2>1. PICK made \in [Docs -> {r \in Requests : r.do = "save"} \cup {None}],
                 slug \in [Docs -> Slugs] :
                stored = [d \in Docs |->
                   IF made[d] = None THEN None
                   ELSE [organization |-> made[d].organization,
                         name |-> made[d].body.name, refs |-> made[d].body.refs,
                         slug |-> slug[d]]]
          BY DEF Init
      <2>2. ASSUME NEW d \in Docs, made[d] # None PROVE stored[d] \in Bodies
          <3> DEFINE r == made[d]
          <3>1. r \in Requests /\ r.do = "save"
              BY <2>2
          <3>2. r.organization \in Orgs /\ DOMAIN r.body = DOMAIN Values
                /\ \A f \in DOMAIN r.body : r.body[f] \in Values[f]
              BY <3>1, CatalogueAssumption
          <3>3. r.body.name \in Names /\ r.body.refs \in SUBSET Docs
              BY <3>2 DEF Values
          <3>4. stored[d] = [organization |-> r.organization, name |-> r.body.name,
                             refs |-> r.body.refs, slug |-> slug[d]]
              BY <2>1, <2>2
          <3> QED
              BY <3>2, <3>3, <3>4 DEF Bodies
      <2> QED
          BY <2>1, <2>2 DEF Stored
  <1>2. \A c \in Calls : pc[c] = "idle" /\ count[c] = 0
      BY DEF Init
  <1>3. Shape
      BY <1>2 DEF Init, Shape, HandlerOK, Saving, Preparing, Removing
  <1>4. AllPrepared
      BY <1>2 DEF AllPrepared, Referring
  <1>5. ListsFit /\ ReferencesHold
      BY DEF Init, ListsFit, ReferencesHold
  <1> QED
      BY <1>1, <1>3, <1>4, <1>5 DEF Inv

LEMMA StepInv == Inv /\ [Next]_vars => Inv'
  <1> SUFFICES ASSUME Inv, [Next]_vars PROVE Inv'
      OBVIOUS
  <1>1. CASE Next
      <2>1. PICK c \in Calls :
               \/ \E r \in Requests : Save(c, r) \/ Update(c, r) \/ Remove(c, r) \/ Reindex(c, r)
               \/ TrySlug(c) \/ NoSlug(c) \/ Validate(c) \/ CheckRefs(c)
               \/ WriteFails(c) \/ Write(c) \/ HasIndex(c) \/ CreateIndex(c) \/ IndexById(c)
               \/ RemoveDoc(c) \/ RemoveById(c) \/ RemoveRefLinks(c)
               \/ HasOldIndex(c) \/ DeleteIndex(c) \/ CreateNewIndex(c)
               \/ FindAll(c) \/ BulkIndex(c)
               \/ CallFails(c)
          BY <1>1 DEF Next
      <2>2. CASE \E r \in Requests :
                    Save(c, r) \/ Update(c, r) \/ Remove(c, r) \/ Reindex(c, r)
          BY <2>2, StartsKeep
      <2>3. CASE TrySlug(c) \/ NoSlug(c)
          BY <2>3, SlugKeeps
      <2>4. CASE Validate(c) \/ CheckRefs(c)
          BY <2>4, ChecksKeep
      <2>5. CASE Write(c)
          BY <2>5, WriteKeeps
      <2>6. CASE \/ HasIndex(c) \/ CreateIndex(c) \/ IndexById(c)
                 \/ HasOldIndex(c) \/ DeleteIndex(c) \/ CreateNewIndex(c)
                 \/ FindAll(c) \/ BulkIndex(c)
          BY <2>6, IndexKeeps
      <2>7. CASE RemoveDoc(c)
          BY <2>7, RemoveDocKeeps
      <2>8. CASE RemoveById(c)
          BY <2>8, RemoveByIdKeeps
      <2>9. CASE RemoveRefLinks(c)
          BY <2>9, RemoveRefLinksKeeps
      <2>10. CASE CallFails(c) \/ WriteFails(c)
          BY <2>10, FailureKeeps
      <2> QED
          BY <2>1, <2>2, <2>3, <2>4, <2>5, <2>6, <2>7, <2>8, <2>9, <2>10
  <1>2. CASE UNCHANGED vars
      <2>1. /\ stored' = stored /\ pc' = pc /\ request' = request /\ copy' = copy
            /\ count' = count /\ loose' = loose
          BY <1>2 DEF vars, esVars, history
      <2>2. Stored' /\ ListsFit' /\ ReferencesHold'
          BY <2>1 DEF Inv, Stored, ListsFit, ReferencesHold, Holds, ToClean, docs, Doc
      <2>3. Shape' /\ AllPrepared'
          BY <2>1 DEF Inv, Shape, HandlerOK, AllPrepared, Prepared, Referring,
                      WritesRefs, Doc, docs
      <2> QED
          BY <2>2, <2>3 DEF Inv
  <1> QED
      BY <1>1, <1>2

\* However handlers overlap and wherever they fail, a document refers to stored
\* documents of its own workspace, but for those whose removal has yet to clean
\* the list, failed, or passed a handler that was about to write the reference.
THEOREM References == Spec => []ReferencesHold
  <1>1. Inv => ReferencesHold
      BY DEF Inv
  <1> QED
      BY <1>1, InitInv, StepInv, PTL DEF Spec

-----------------------------------------------------------------------------
(* Types.                                                                  *)

Syncing == {"hasOld", "deleteIndex", "createNew", "find", "bulk"}

\* A handler past the generation of the slug has one; one that removes or
\* indexes does what it was asked for, and fills the index with what it read
\* of the documents it is about.
HandlerFits(c) ==
    /\ pc[c] \in Steps
    /\ pc[c] \in Idle <=> request[c] = NoRequest
    /\ count[c] \in Nat
    /\ pc[c] \in Saving \ {"slug"} => copy[c].slug \in Slugs
    /\ pc[c] \in Removing => request[c].do = "remove"
    /\ pc[c] \in Syncing => request[c].do = "sync" /\ Doc(c) \in Docs
    /\ pc[c] = "bulk" => /\ DOMAIN copy[c] = About(request[c])
                         /\ \A d \in About(request[c]) : copy[c][d] \in Entries

Documents == [organization : Orgs, name : Names, refs : SUBSET Docs, slug : Slugs]

StoredFits == stored \in [Docs -> Documents \cup {None}]

\* The search service holds entries only in indices that exist.
SearchFits ==
    /\ indices \subseteq Kinds
    /\ DOMAIN entry = Docs
    /\ \A d \in Docs : entry[d] \in Entries
    /\ \A d \in Docs : entry[d] # None => Kind[d] \in indices

HistoryFits ==
    /\ alone \subseteq Calls
    /\ kept \in [Calls -> SUBSET Docs]
    /\ loose \subseteq Docs
    /\ drifted \subseteq Docs

Fits ==
    /\ StoredFits /\ SearchFits /\ HistoryFits
    /\ pc \in [Calls -> Steps] /\ count \in [Calls -> Nat]
    /\ \A c \in Calls : HandlerFits(c)

LEMMA AboutDocs ==
    ASSUME NEW r, r.doc \in Docs
    PROVE  About(r) \in SUBSET Docs
  BY DEF About

LEMMA SearchedFits ==
    ASSUME NEW b, b = None \/ b \in Bodies \/ b \in Documents
    PROVE  Searched(b) \in Entries
  BY DEF Searched, Entries, Bodies, Documents

LEMMA DocumentsAreBodies == Documents \subseteq Bodies
  BY DEF Documents, Bodies

\* A handler at work knows what it is about.
LEMMA DocAtWork ==
    ASSUME Inv, Fits, NEW c \in Calls, pc[c] \notin Idle
    PROVE  /\ Doc(c) \in Docs /\ Kind[Doc(c)] \in Kinds
           /\ About(request[c]) \in SUBSET Docs
  <1>1. pc[c] \in Saving \cup Removing \cup Syncing
      BY DEF Fits, HandlerFits, Steps, Saving, Preparing, Removing, Syncing
  <1>2. Doc(c) \in Docs
      BY <1>1 DEF Inv, Shape, HandlerOK, Fits, HandlerFits
  <1> QED
      BY <1>2, AboutDocs, CatalogueAssumption DEF Doc

LEMMA OverFits ==
    ASSUME Inv, NEW c \in Calls, NEW from, NEW n, NEW body, Goes(c, from, "over", n, body)
    PROVE  HandlerFits(c)'
  <1>1. pc'[c] = "over" /\ request'[c] = NoRequest /\ count'[c] = 0
      BY GoesOn DEF Inv
  <1> QED
      BY <1>1 DEF HandlerFits, Steps, Idle, Saving, Preparing, Removing, Syncing

LEMMA OnFits ==
    ASSUME Inv, Fits, NEW c \in Calls, NEW from, NEW to \in Steps \ Idle, NEW n \in Nat,
           NEW body, Goes(c, from, to, n, body), from \notin Idle,
           to \in Saving \ {"slug"} => body.slug \in Slugs,
           to \in Removing => request[c].do = "remove",
           to \in Syncing => request[c].do = "sync",
           to = "bulk" => /\ DOMAIN body = About(request[c])
                          /\ \A d \in About(request[c]) : body[d] \in Entries
    PROVE  HandlerFits(c)'
  <1>1. pc[c] = from /\ pc'[c] = to /\ request'[c] = request[c] /\ copy'[c] = body /\ count'[c] = n
      BY GoesOn DEF Inv, Idle
  <1>2. request[c] # NoRequest /\ Doc(c) \in Docs
      BY <1>1, DocAtWork DEF Fits, HandlerFits
  <1> QED
      BY <1>1, <1>2 DEF HandlerFits, Doc

LEMMA OthersFit ==
    ASSUME Inv, Fits, NEW c \in Calls, NEW from, NEW to, NEW n, NEW body,
           Goes(c, from, to, n, body), HandlerFits(c)'
    PROVE  \A x \in Calls : HandlerFits(x)'
  <1> SUFFICES ASSUME NEW x \in Calls, x # c PROVE HandlerFits(x)'
      OBVIOUS
  <1>1. /\ pc'[x] = pc[x] /\ request'[x] = request[x]
        /\ copy'[x] = copy[x] /\ count'[x] = count[x]
      BY GoesOn DEF Inv
  <1>2. HandlerFits(x)
      BY DEF Fits
  <1> QED
      BY <1>1, <1>2 DEF HandlerFits, Doc

\* Where a step leads, of a handler that saves or indexes one document.
LEMMA SavingFits ==
    ASSUME Inv, Fits, NEW c \in Calls,
           \/ TrySlug(c) \/ NoSlug(c) \/ Validate(c) \/ CheckRefs(c)
           \/ WriteFails(c) \/ Write(c) \/ HasIndex(c) \/ CreateIndex(c) \/ IndexById(c)
    PROVE  \A x \in Calls : HandlerFits(x)'
  <1> USE DEF Moves
  <1>1. HandlerFits(c) /\ HandlerOK(c)
      BY DEF Fits, Inv, Shape
  <1>2. CASE TrySlug(c) /\ ~Exists(c, count[c])
      <2> DEFINE body == [copy[c] EXCEPT !.slug = count[c]]
      <2>1. Goes(c, "slug", "validate", 0, body) /\ pc[c] = "slug"
          BY <1>2 DEF TrySlug
      <2>2. body.slug \in Slugs
          BY <1>1, <2>1 DEF HandlerOK, Saving, Preparing, Bodies
      <2> HIDE DEF body
      <2>3. HandlerFits(c)'
          BY <2>1, <2>2, OnFits DEF Steps, Idle, Saving, Preparing, Removing, Syncing
      <2> QED
          BY <2>1, <2>3, OthersFit
  <1>3. CASE TrySlug(c) /\ Exists(c, count[c])
      <2>1. Goes(c, "slug", "slug", count[c] + 1, copy[c]) /\ count[c] + 1 \in Nat
          BY <1>1, <1>3 DEF TrySlug, HandlerFits
      <2>2. HandlerFits(c)'
          BY <2>1, OnFits DEF Steps, Idle, Saving, Preparing, Removing, Syncing
      <2> QED
          BY <2>1, <2>2, OthersFit
  <1>4. CASE ~TrySlug(c)
      <2>1. PICK from, to :
               /\ Goes(c, from, to, 0, copy[c])
               /\ \/ to = "over"
                  \/ /\ from \in Saving \ {"slug"}
                     /\ to \in {"check", "write", "hasIndex", "createIndex", "index"}
          <3>1. CASE Validate(c)
              BY <3>1 DEF Validate, Saving, Preparing
          <3>2. CASE CheckRefs(c)
              BY <3>2 DEF CheckRefs, Saving, Preparing
          <3>3. CASE HasIndex(c)
              BY <3>3 DEF HasIndex, Saving, Preparing
          <3>4. CASE NoSlug(c) \/ WriteFails(c) \/ IndexById(c)
              BY <3>4 DEF NoSlug, WriteFails, IndexById
          <3>5. CASE Write(c) \/ CreateIndex(c)
              BY <3>5 DEF Write, CreateIndex, Saving, Preparing
          <3> QED
              BY <1>4, <3>1, <3>2, <3>3, <3>4, <3>5
      <2>2. CASE to = "over"
          BY <2>1, <2>2, OverFits, OthersFit
      <2>3. CASE to # "over"
          <3>1. from = pc[c] /\ copy[c].slug \in Slugs /\ from \notin Idle
              BY <1>1, <2>1, <2>3, GoesOn DEF HandlerFits, Inv, Saving, Preparing, Idle
          <3>2. HandlerFits(c)'
              BY <2>1, <2>3, <3>1, OnFits DEF Steps, Idle, Removing, Syncing
          <3> QED
              BY <2>1, <3>2, OthersFit
      <2> QED
          BY <2>2, <2>3
  <1> QED
      BY <1>2, <1>3, <1>4

LEMMA RemovingFits ==
    ASSUME Inv, Fits, NEW c \in Calls,
           RemoveDoc(c) \/ RemoveById(c) \/ RemoveRefLinks(c) \/ CallFails(c)
    PROVE  \A x \in Calls : HandlerFits(x)'
  <1>1. HandlerFits(c)
      BY DEF Fits
  <1>2. PICK from, to, n, body :
           /\ Goes(c, from, to, n, body)
           /\ \/ to = "over"
              \/ from \in Removing /\ to \in {"unindex", "pull"} /\ n \in {0, count[c] + 1}
      <2>1. CASE RemoveDoc(c)
          BY <2>1 DEF RemoveDoc, Moves, Removing
      <2>2. CASE RemoveById(c)
          <3>1. \/ Goes(c, "unindex", "over", 0, copy[c])
                \/ Goes(c, "unindex", "pull", 0, copy[c])
              BY <2>2 DEF RemoveById, Moves
          <3> QED
              BY <3>1 DEF Removing
      <2>3. CASE RemoveRefLinks(c)
          <3>1. \/ Goes(c, "pull", "over", count[c] + 1, None)
                \/ Goes(c, "pull", "pull", count[c] + 1, None)
              BY <2>3 DEF RemoveRefLinks
          <3> QED
              BY <3>1 DEF Removing
      <2>4. CASE CallFails(c)
          BY <2>4 DEF CallFails, Moves
      <2> QED
          BY <2>1, <2>2, <2>3, <2>4
  <1>3. CASE to = "over"
      BY <1>2, <1>3, OverFits, OthersFit
  <1>4. CASE to # "over"
      <2>1. from = pc[c] /\ from \in Removing /\ from \notin Idle /\ n \in Nat
          BY <1>1, <1>2, <1>4, GoesOn DEF HandlerFits, Inv, Removing, Idle
      <2>2. HandlerFits(c)'
          BY <1>1, <1>2, <1>4, <2>1, OnFits
             DEF HandlerFits, Steps, Idle, Removing, Syncing, Saving, Preparing
      <2> QED
          BY <1>2, <2>2, OthersFit
  <1> QED
      BY <1>3, <1>4

LEMMA SyncingFits ==
    ASSUME Inv, Fits, NEW c \in Calls,
           HasOldIndex(c) \/ DeleteIndex(c) \/ CreateNewIndex(c) \/ FindAll(c) \/ BulkIndex(c)
    PROVE  \A x \in Calls : HandlerFits(x)'
  <1>1. HandlerFits(c)
      BY DEF Fits
  <1>2. CASE FindAll(c)
      <2> DEFINE body == [d \in About(request[c]) |-> Searched(stored[d])]
      <2>1. Goes(c, "find", "bulk", 0, body) /\ pc[c] = "find"
          BY <1>2 DEF FindAll
      <2>2. About(request[c]) \in SUBSET Docs
          BY <2>1, DocAtWork DEF Idle
      <2>3. \A d \in About(request[c]) : body[d] \in Entries
          BY <2>2, SearchedFits DEF Fits, StoredFits
      <2>4. DOMAIN body = About(request[c])
          OBVIOUS
      <2> HIDE DEF body
      <2>5. HandlerFits(c)'
          BY <1>1, <2>1, <2>3, <2>4, OnFits
             DEF HandlerFits, Steps, Idle, Removing, Syncing, Saving, Preparing
      <2> QED
          BY <2>1, <2>5, OthersFit
  <1>3. CASE BulkIndex(c)
      BY <1>3, OverFits, OthersFit DEF BulkIndex, Moves
  <1>4. CASE HasOldIndex(c) \/ DeleteIndex(c) \/ CreateNewIndex(c)
      <2>1. PICK from, to :
               /\ Goes(c, from, to, 0, copy[c])
               /\ from \in Syncing /\ to \in {"deleteIndex", "createNew", "find"}
          <3>1. \/ Goes(c, "hasOld", "deleteIndex", 0, copy[c])
                \/ Goes(c, "hasOld", "createNew", 0, copy[c])
                \/ Goes(c, "deleteIndex", "createNew", 0, copy[c])
                \/ Goes(c, "createNew", "find", 0, copy[c])
              BY <1>4 DEF HasOldIndex, DeleteIndex, CreateNewIndex, Moves
          <3> QED
              BY <3>1 DEF Syncing
      <2>2. from = pc[c] /\ from \notin Idle
          BY <2>1, GoesOn DEF Inv, Syncing, Idle
      <2>3. HandlerFits(c)'
          BY <1>1, <2>1, <2>2, OnFits
             DEF HandlerFits, Steps, Idle, Removing, Syncing, Saving, Preparing
      <2> QED
          BY <2>1, <2>3, OthersFit
  <1> QED
      BY <1>2, <1>3, <1>4
\* How a request starts, and what its first step finds in the copy.
Begins(c, r, q, to, body) ==
    /\ Start(c, q, to, body)
    /\ q.doc = r.doc /\ q.do = r.do
    /\ \/ to = "slug" /\ q.do \in {"save", "update"} /\ body.slug = None
       \/ to = "validate" /\ q.do \in {"save", "update"} /\ body.slug \in Slugs
       \/ to = "remove" /\ q.do = "remove"
       \/ to = "hasOld" /\ q.do = "sync"
    /\ q.do = "save" => body.slug = q.body.slug
    /\ q.do = "update" =>
          /\ q.doc \in docs
          /\ body.organization = stored[q.doc].organization
          /\ "name" \notin DOMAIN q.body => body.name = stored[q.doc].name

LEMMA StartIs ==
    ASSUME Inv, Fits, NEW c \in Calls, NEW r \in Requests,
           Save(c, r) \/ Update(c, r) \/ Remove(c, r) \/ Reindex(c, r)
    PROVE  \E q, to, body : Begins(c, r, q, to, body)
  <1>1. /\ \A f \in DOMAIN r.body : r.body[f] \in Values[f]
        /\ r.do = "save" => DOMAIN r.body = DOMAIN Values
      BY CatalogueAssumption
  <1>2. "slug" \in DOMAIN r.body => r.body.slug \in Slugs \cup {None}
      BY <1>1, CatalogueAssumption DEF Values
  <1>3. CASE Save(c, r)
      <2> DEFINE body == [organization |-> r.organization, name |-> r.body.name,
                          refs |-> r.body.refs, slug |-> r.body.slug]
      <2>1. r.do = "save" /\ Start(c, r, FirstStep(body), body)
          BY <1>3 DEF Save
      <2>2. body.slug \in Slugs \cup {None} /\ body.slug = r.body.slug
          BY <1>1, <1>2, <2>1 DEF Values
      <2> HIDE DEF body
      <2>3. Begins(c, r, r, FirstStep(body), body)
          BY <2>1, <2>2 DEF FirstStep, Begins
      <2> QED
          BY <2>3
  <1>4. CASE Update(c, r)
      <2> DEFINE new == [f \in Modified(r) |-> r.body[f]]
                 old == stored[r.doc]
                 body == [organization |-> old.organization,
                          name |-> IF "name" \in Modified(r) THEN new["name"] ELSE old.name,
                          refs |-> IF "refs" \in Modified(r) THEN new["refs"] ELSE old.refs,
                          slug |-> IF "slug" \in Modified(r) THEN new["slug"] ELSE old.slug]
                 q == [r EXCEPT !.body = new]
      <2>1. r.do = "update" /\ r.doc \in docs /\ Start(c, q, FirstStep(body), body)
          BY <1>4 DEF Update
      <2>2. q.doc = r.doc /\ q.do = r.do
          BY <2>1
      <2>3. body.slug \in Slugs \cup {None}
          <3>1. old.slug \in Slugs
              BY <2>1 DEF docs, Fits, StoredFits, Documents
          <3>2. "slug" \in Modified(r) => new["slug"] \in Slugs \cup {None}
              BY <1>2 DEF Modified
          <3> HIDE DEF new, old
          <3> QED
              BY <3>1, <3>2
      <2>4. body.organization = stored[r.doc].organization
          OBVIOUS
      <2>5. "name" \notin DOMAIN q.body => body.name = stored[r.doc].name
          <3>1. Modified(r) \subseteq DOMAIN q.body
              <4>1. q.body = new \/ q.body = r.body
                  OBVIOUS
              <4> QED
                  BY <4>1 DEF Modified
          <3> HIDE DEF q
          <3> QED
              BY <3>1
      <2> HIDE DEF body, q
      <2>6. Begins(c, r, q, FirstStep(body), body)
          BY <2>1, <2>2, <2>3, <2>4, <2>5 DEF FirstStep, Begins
      <2> QED
          BY <2>6
  <1>5. CASE Remove(c, r) \/ Reindex(c, r)
      <2>1. Begins(c, r, r, "remove", None) \/ Begins(c, r, r, "hasOld", None)
          BY <1>5 DEF Remove, Reindex, Begins
      <2> QED
          BY <2>1
  <1> QED
      BY <1>3, <1>4, <1>5

\* A request that starts holds what the steps to come need.
LEMMA StartFits ==
    ASSUME Inv, Fits, NEW c \in Calls, NEW r \in Requests,
           Save(c, r) \/ Update(c, r) \/ Remove(c, r) \/ Reindex(c, r)
    PROVE  \A x \in Calls : HandlerFits(x)'
  <1>1. r.doc \in Docs
      BY CatalogueAssumption
  <1>2. PICK q, to, body : Begins(c, r, q, to, body)
      BY StartIs
  <1>3. /\ pc'[c] = to /\ request'[c] = q /\ copy'[c] = body /\ count' = count
        /\ \A x \in Calls \ {c} : /\ pc'[x] = pc[x] /\ request'[x] = request[x]
                                  /\ copy'[x] = copy[x]
      BY <1>2 DEF Begins, Start, Inv, Shape
  <1>4. q # NoRequest
      BY <1>2 DEF Begins, NoRequest
  <1>5. HandlerFits(c)'
      <2>1. count[c] \in Nat
          BY DEF Fits, HandlerFits
      <2>2. \/ to = "slug"
            \/ to = "validate" /\ body.slug \in Slugs
            \/ to = "remove" /\ q.do = "remove"
            \/ to = "hasOld" /\ q.do = "sync" /\ q.doc \in Docs
          BY <1>1, <1>2 DEF Begins
      <2> QED
          BY <1>3, <1>4, <2>1, <2>2
             DEF HandlerFits, Doc, Steps, Idle, Removing, Syncing, Saving, Preparing
  <1>6. ASSUME NEW x \in Calls, x # c PROVE HandlerFits(x)'
      <2>1. /\ pc'[x] = pc[x] /\ request'[x] = request[x]
            /\ copy'[x] = copy[x] /\ count'[x] = count[x]
          BY <1>3, <1>6
      <2>2. HandlerFits(x)
          BY DEF Fits
      <2> QED
          BY <2>1, <2>2 DEF HandlerFits, Doc
  <1> QED
      BY <1>5, <1>6

\* The steps of a handler after it has started.
Acts(c) ==
    \/ TrySlug(c) \/ NoSlug(c) \/ Validate(c) \/ CheckRefs(c)
    \/ WriteFails(c) \/ Write(c) \/ HasIndex(c) \/ CreateIndex(c) \/ IndexById(c)
    \/ RemoveDoc(c) \/ RemoveById(c) \/ RemoveRefLinks(c)
    \/ HasOldIndex(c) \/ DeleteIndex(c) \/ CreateNewIndex(c)
    \/ FindAll(c) \/ BulkIndex(c)
    \/ CallFails(c)

Starts(c, r) == Save(c, r) \/ Update(c, r) \/ Remove(c, r) \/ Reindex(c, r)

LEMMA StepIs ==
    ASSUME [Next]_vars
    PROVE  \/ \E c \in Calls, r \in Requests : Starts(c, r)
           \/ \E c \in Calls : Acts(c)
           \/ UNCHANGED vars
  BY DEF Next, Acts, Starts

LEMMA ActsGoes ==
    ASSUME NEW c \in Calls, Acts(c)
    PROVE  /\ \E to, n, body : Goes(c, pc[c], to, n, body)
           /\ pc[c] \notin Idle
           /\ UNCHANGED <<alone, kept>>
  <1>1. CASE TrySlug(c)
      BY <1>1 DEF TrySlug, Goes, Idle
  <1>2. CASE RemoveRefLinks(c)
      BY <1>2 DEF RemoveRefLinks, Goes, Idle
  <1>3. CASE FindAll(c)
      BY <1>3 DEF FindAll, Goes, Idle
  <1>4. CASE CallFails(c)
      BY <1>4 DEF CallFails, Moves, Goes
  <1>5. CASE \E from \in Steps \ Idle : \E to : Moves(c, from, to)
      BY <1>5 DEF Moves, Goes
  <1>6. \/ TrySlug(c) \/ RemoveRefLinks(c) \/ FindAll(c) \/ CallFails(c)
        \/ \E from \in Steps \ Idle : \E to : Moves(c, from, to)
      <2>1. {"slug", "validate", "check", "write", "hasIndex", "createIndex", "index", "remove",
             "unindex", "hasOld", "deleteIndex", "createNew", "bulk"} \subseteq Steps \ Idle
          BY DEF Steps, Idle
      <2> QED
          BY <2>1 DEF Acts, NoSlug, Validate, CheckRefs, WriteFails, Write, HasIndex, CreateIndex,
             IndexById, RemoveDoc, RemoveById, HasOldIndex, DeleteIndex, CreateNewIndex, BulkIndex
  <1> QED
      BY <1>1, <1>2, <1>3, <1>4, <1>5, <1>6

\* Which steps write what.
LEMMA WritesStored ==
    ASSUME NEW c \in Calls, Acts(c)
    PROVE  stored' = stored \/ Write(c) \/ RemoveDoc(c) \/ RemoveRefLinks(c)
  BY DEF Acts, TrySlug, NoSlug, Validate, CheckRefs, WriteFails, HasIndex, CreateIndex, IndexById,
         RemoveById, HasOldIndex, DeleteIndex, CreateNewIndex, FindAll, BulkIndex, CallFails

LEMMA WritesSearch ==
    ASSUME NEW c \in Calls, Acts(c)
    PROVE  UNCHANGED <<indices, entry>>
           \/ CreateIndex(c) \/ IndexById(c) \/ RemoveById(c)
           \/ DeleteIndex(c) \/ CreateNewIndex(c) \/ BulkIndex(c)
  BY DEF Acts, TrySlug, NoSlug, Validate, CheckRefs, WriteFails, Write, HasIndex, RemoveDoc,
         RemoveRefLinks, HasOldIndex, FindAll, CallFails, esVars

LEMMA WritesHistory ==
    ASSUME NEW c \in Calls, Acts(c)
    PROVE  /\ UNCHANGED loose \/ RemoveDoc(c) \/ CallFails(c)
           /\ UNCHANGED drifted \/ BulkIndex(c) \/ CallFails(c)
  BY DEF Acts, TrySlug, NoSlug, Validate, CheckRefs, WriteFails, Write, HasIndex, CreateIndex,
         IndexById, RemoveDoc, RemoveById, RemoveRefLinks, HasOldIndex, DeleteIndex,
         CreateNewIndex, FindAll, BulkIndex, CallFails, esVars

\* A document is written with a slug.
LEMMA StoredStaysFit ==
    ASSUME Inv, Fits, NEW c \in Calls, Acts(c)
    PROVE  StoredFits'
  <1>1. CASE stored' = stored
      BY <1>1 DEF Fits, StoredFits
  <1>2. CASE Write(c)
      <2>1. /\ stored' = [stored EXCEPT ![Doc(c)] = Written(c)] /\ pc[c] = "write" /\ ~Refused(c)
            /\ DOMAIN stored = Docs
          BY <1>2 DEF Write, Moves, Goes, Inv, Stored
      <2>2. /\ Doc(c) \in Docs /\ copy[c] \in Bodies /\ copy[c].slug \in Slugs
            /\ request[c].do \in {"save", "update"}
          BY <2>1 DEF Inv, Shape, HandlerOK, Fits, HandlerFits, Saving, Preparing
      <2>3. copy[c] \in Documents
          BY <2>2 DEF Bodies, Documents
      <2>4. Written(c) \in Documents
          <3>1. CASE request[c].do = "save"
              BY <2>3, <3>1 DEF Written
          <3>2. CASE request[c].do = "update"
              <4> DEFINE old == stored[Doc(c)]
                         a == IF "name" \in DOMAIN request[c].body THEN copy[c].name ELSE old.name
                         b == IF WritesRefs(c) THEN copy[c].refs ELSE old.refs
                         s == IF "slug" \in DOMAIN request[c].body THEN copy[c].slug ELSE old.slug
              <4>1. old \in Documents
                  BY <2>1, <2>2, <3>2 DEF Refused, docs, Fits, StoredFits
              <4>2. Written(c) = [old EXCEPT !.name = a, !.refs = b, !.slug = s]
                  BY <3>2 DEF Written
              <4>3. a \in Names /\ b \in SUBSET Docs /\ s \in Slugs
                  BY <2>3, <4>1 DEF Documents
              <4> HIDE DEF old, a, b, s
              <4> QED
                  BY <4>1, <4>2, <4>3 DEF Documents
          <3> QED
              BY <2>2, <3>1, <3>2
      <2> QED
          BY <2>1, <2>2, <2>4 DEF Fits, StoredFits
  <1>3. CASE RemoveDoc(c)
      BY <1>3 DEF RemoveDoc, Fits, StoredFits, Inv, Stored
  <1>4. CASE RemoveRefLinks(c)
      <2>3. stored' = [x \in Docs |-> stored'[x]]
          BY <1>4 DEF RemoveRefLinks
      <2> SUFFICES ASSUME NEW d \in Docs PROVE stored'[d] = None \/ stored'[d] \in Documents
          BY <2>3 DEF StoredFits
      <2>1. \/ stored'[d] = stored[d]
            \/ d \in docs /\ stored'[d] = [stored[d] EXCEPT !.refs = @ \ {Doc(c)}]
          BY <1>4 DEF RemoveRefLinks
      <2>2. ASSUME NEW b \in Documents, NEW e
            PROVE  [b EXCEPT !.refs = @ \ {e}] \in Documents
          <3>1. b.refs \ {e} \in SUBSET Docs
              BY DEF Documents
          <3> DEFINE left == b.refs \ {e}
          <3>2. [b EXCEPT !.refs = @ \ {e}] = [b EXCEPT !.refs = left]
              OBVIOUS
          <3> HIDE DEF left
          <3>3. [b EXCEPT !.refs = left] \in Documents
              BY <3>1 DEF Documents, left
          <3> QED
              BY <3>2, <3>3
      <2>4. stored[d] = None \/ stored[d] \in Documents
          BY DEF Fits, StoredFits
      <2>5. CASE stored'[d] = stored[d]
          BY <2>4, <2>5
      <2>6. CASE d \in docs /\ stored'[d] = [stored[d] EXCEPT !.refs = @ \ {Doc(c)}]
          <3>1. stored[d] \in Documents
              BY <2>4, <2>6 DEF docs
          <3> QED
              BY <2>2, <2>6, <3>1
      <2> QED
          BY <2>1, <2>5, <2>6
  <1> QED
      BY <1>1, <1>2, <1>3, <1>4, WritesStored

\* An entry is written to an index that exists from then on.
LEMMA SearchStaysFit ==
    ASSUME Inv, Fits, NEW c \in Calls, Acts(c)
    PROVE  SearchFits'
  <1> DEFINE K == Kind[Doc(c)]
  <1>1. SearchFits /\ HandlerFits(c) /\ HandlerOK(c)
      BY DEF Fits, Inv, Shape
  <1>2. Doc(c) \in Docs /\ K \in Kinds
      BY ActsGoes, DocAtWork
  <1> HIDE DEF K
  <1>3. CASE UNCHANGED <<indices, entry>>
      BY <1>1, <1>3 DEF SearchFits
  <1>4. CASE CreateIndex(c) \/ CreateNewIndex(c)
      <2>1. indices' = indices \cup {K} /\ UNCHANGED entry
          BY <1>4 DEF CreateIndex, CreateNewIndex, K
      <2> QED
          BY <1>1, <1>2, <2>1 DEF SearchFits
  <1>5. CASE IndexById(c)
      <2>1. /\ entry' = [entry EXCEPT ![Doc(c)] = Searched(copy[c])]
            /\ indices' = indices \cup {K} /\ pc[c] = "index"
          BY <1>5 DEF IndexById, Moves, Goes, K
      <2>2. Searched(copy[c]) \in Entries
          BY <1>1, <2>1, SearchedFits DEF HandlerOK, Saving
      <2> QED
          BY <1>1, <1>2, <2>1, <2>2 DEF SearchFits, K
  <1>6. CASE RemoveById(c)
      <2>1. entry' = [entry EXCEPT ![Doc(c)] = None] /\ UNCHANGED indices
          BY <1>6 DEF RemoveById
      <2>2. None \in Entries
          BY DEF Entries
      <2> QED
          BY <1>1, <1>2, <2>1, <2>2 DEF SearchFits
  <1>7. CASE DeleteIndex(c)
      <2>1. /\ indices' = indices \ {K}
            /\ entry' = [d \in Docs |-> IF Kind[d] = K THEN None ELSE entry[d]]
          BY <1>7 DEF DeleteIndex, K
      <2>2. None \in Entries
          BY DEF Entries
      <2> QED
          BY <1>1, <2>1, <2>2 DEF SearchFits
  <1>8. CASE BulkIndex(c)
      <2>1. /\ entry' = BulkIndexed(c) /\ pc[c] = "bulk"
            /\ indices' = IF \A d \in DOMAIN copy[c] : copy[c][d] = None THEN indices
                          ELSE indices \cup {K}
          BY <1>8 DEF BulkIndex, Moves, Goes, K
      <2>2. /\ DOMAIN copy[c] = About(request[c]) /\ request[c].do = "sync"
            /\ \A d \in About(request[c]) : copy[c][d] \in Entries
          BY <1>1, <2>1 DEF HandlerFits, Syncing
      <2>3. \A d \in DOMAIN copy[c] : Kind[d] = K
          BY <2>2 DEF About, K, Doc
      <2>4. \A d \in Docs : \/ entry'[d] = entry[d]
                            \/ /\ d \in DOMAIN copy[c] /\ copy[c][d] # None
                               /\ entry'[d] = copy[c][d]
          BY <2>1 DEF BulkIndexed
      <2>5. DOMAIN entry' = Docs
          BY <2>1 DEF BulkIndexed
      <2>6. indices \subseteq indices' /\ indices' \subseteq Kinds
          BY <1>1, <1>2, <2>1 DEF SearchFits
      <2>7. ASSUME NEW d \in Docs PROVE entry'[d] \in Entries /\ (entry'[d] # None => Kind[d] \in indices')
          <3>1. CASE entry'[d] = entry[d]
              BY <1>1, <2>6, <3>1 DEF SearchFits
          <3>2. CASE d \in DOMAIN copy[c] /\ copy[c][d] # None /\ entry'[d] = copy[c][d]
              BY <2>1, <2>2, <2>3, <3>2
          <3> QED
              BY <2>4, <3>1, <3>2
      <2> QED
          BY <2>5, <2>6, <2>7 DEF SearchFits
  <1> QED
      BY <1>3, <1>4, <1>5, <1>6, <1>7, <1>8, WritesSearch

LEMMA HistoryStaysFit ==
    ASSUME Inv, Fits, NEW c \in Calls, Acts(c)
    PROVE  HistoryFits'
  <1>1. HistoryFits /\ UNCHANGED <<alone, kept>>
      BY ActsGoes DEF Fits
  <1>2. About(request[c]) \in SUBSET Docs /\ Doc(c) \in Docs
      BY ActsGoes, DocAtWork
  <1>3. loose' \subseteq Docs
      <2>1. CASE RemoveDoc(c)
          <3>1. \A x \in Referring : copy[x].refs \subseteq Docs
              BY Bodied DEF Referring, Inv, Shape, HandlerOK, Saving, Preparing
          <3>2. \A x \in Referring : \A d : AboutToRefer(x, d) \subseteq Docs
              BY <3>1 DEF AboutToRefer
          <3>3. loose' = loose \cup UNION {AboutToRefer(x, Doc(c)) : x \in Referring}
              BY <2>1 DEF RemoveDoc
          <3>4. UNION {AboutToRefer(x, Doc(c)) : x \in Referring} \subseteq Docs
              BY <3>2
          <3> QED
              BY <1>1, <3>3, <3>4 DEF HistoryFits
      <2>2. CASE CallFails(c)
          BY <1>1, <1>2, <2>2 DEF CallFails, HistoryFits
      <2> QED
          BY <1>1, <2>1, <2>2, WritesHistory DEF HistoryFits
  <1>4. drifted' \subseteq Docs
      <2>1. CASE BulkIndex(c)
          BY <1>1, <2>1 DEF BulkIndex, HistoryFits
      <2>2. CASE CallFails(c)
          BY <1>1, <1>2, <2>2 DEF CallFails, HistoryFits
      <2> QED
          BY <1>1, <2>1, <2>2, WritesHistory DEF HistoryFits
  <1> QED
      BY <1>1, <1>3, <1>4 DEF HistoryFits

LEMMA NextFits == Inv /\ Fits /\ [Next]_vars => Fits'
  <1> SUFFICES ASSUME Inv, Fits, [Next]_vars PROVE Fits'
      OBVIOUS
  <1>1. ASSUME NEW c \in Calls, NEW r \in Requests, Starts(c, r) PROVE Fits'
      <2>1. \A x \in Calls : HandlerFits(x)'
          BY <1>1, StartFits DEF Starts
      <2>2. r.doc \in Docs
          BY CatalogueAssumption
      <2>3. PICK q, to, body : Start(c, q, to, body) /\ q.doc = r.doc
          BY <1>1, StartIs DEF Starts, Begins
      <2>4. /\ UNCHANGED <<stored, indices, entry, loose>>
            /\ alone' \subseteq {c}
            /\ kept' = [x \in Calls |-> IF x = c THEN About(q) \ Busy ELSE kept[x] \ About(q)]
            /\ drifted' = drifted \cup (About(q) \cap Busy)
          BY <2>3 DEF Start, esVars
      <2>5. About(q) \in SUBSET Docs
          BY <2>2, <2>3, AboutDocs
      <2>6. HistoryFits'
          BY <2>4, <2>5 DEF Fits, HistoryFits
      <2>7. StoredFits' /\ SearchFits'
          BY <2>4 DEF Fits, StoredFits, SearchFits
      <2>8. /\ pc' = [pc EXCEPT ![c] = to] /\ UNCHANGED count
            /\ pc'[c] \in Steps
          BY <2>1, <2>3 DEF Start, HandlerFits
      <2>9. pc' \in [Calls -> Steps] /\ count' \in [Calls -> Nat]
          BY <2>8 DEF Fits
      <2> QED
          BY <2>1, <2>6, <2>7, <2>9 DEF Fits
  <1>2. ASSUME NEW c \in Calls, Acts(c) PROVE Fits'
      <2>1. \A x \in Calls : HandlerFits(x)'
          BY <1>2, SavingFits, RemovingFits, SyncingFits DEF Acts
      <2>2. PICK to, n, body : Goes(c, pc[c], to, n, body)
          BY <1>2, ActsGoes
      <2>3. /\ pc' = [pc EXCEPT ![c] = pc'[c]] /\ pc'[c] \in Steps
            /\ count' = [count EXCEPT ![c] = count'[c]] /\ count'[c] \in Nat
          BY <2>1, <2>2 DEF Goes, Fits, HandlerFits
      <2>4. pc' \in [Calls -> Steps] /\ count' \in [Calls -> Nat]
          BY <2>3 DEF Fits
      <2> QED
          BY <1>2, <2>1, <2>4, StoredStaysFit, SearchStaysFit, HistoryStaysFit DEF Fits
  <1>3. CASE UNCHANGED vars
      BY <1>3 DEF vars, esVars, history, Fits, StoredFits, SearchFits, HistoryFits,
                  HandlerFits, Doc
  <1> QED
      BY <1>1, <1>2, <1>3, StepIs

LEMMA InitFits == Init => Fits
  <1> SUFFICES ASSUME Init PROVE Fits
      OBVIOUS
  <1>1. StoredFits
      <2>1. PICK made \in [Docs -> {r \in Requests : r.do = "save"} \cup {None}],
                 slug \in [Docs -> Slugs] :
                stored = [d \in Docs |->
                   IF made[d] = None THEN None
                   ELSE [organization |-> made[d].organization,
                         name |-> made[d].body.name, refs |-> made[d].body.refs,
                         slug |-> slug[d]]]
          BY DEF Init
      <2>2. ASSUME NEW d \in Docs, made[d] # None PROVE stored[d] \in Documents
          <3> DEFINE r == made[d]
          <3>1. r \in Requests /\ r.do = "save"
              BY <2>2
          <3>2. r.organization \in Orgs /\ DOMAIN r.body = DOMAIN Values
                /\ \A f \in DOMAIN r.body : r.body[f] \in Values[f]
              BY <3>1, CatalogueAssumption
          <3>3. r.body.name \in Names /\ r.body.refs \in SUBSET Docs
              BY <3>2 DEF Values
          <3>4. stored[d] = [organization |-> r.organization, name |-> r.body.name,
                             refs |-> r.body.refs, slug |-> slug[d]]
              BY <2>1, <2>2
          <3> QED
              BY <3>2, <3>3, <3>4 DEF Documents
      <2> QED
          BY <2>1, <2>2 DEF StoredFits
  <1>2. SearchFits
      <2>1. \A d \in Docs : Searched(stored[d]) \in Entries
          BY <1>1, SearchedFits DEF StoredFits
      <2>2. /\ indices \subseteq Kinds /\ entry = [d \in Docs |-> Searched(stored[d])]
            /\ \A d \in docs : Kind[d] \in indices
          BY DEF Init
      <2>3. \A d \in Docs : entry[d] # None => d \in docs
          BY <2>2 DEF Searched, docs
      <2> QED
          BY <2>1, <2>2, <2>3 DEF SearchFits
  <1>3. HistoryFits
      BY DEF Init, HistoryFits
  <1>4. /\ pc \in [Calls -> Steps] /\ count \in [Calls -> Nat]
        /\ \A c \in Calls : HandlerFits(c)
      BY DEF Init, HandlerFits, Steps, Idle, Saving, Preparing, Removing, Syncing
  <1> QED
      BY <1>1, <1>2, <1>3, <1>4 DEF Fits

LEMMA SpecInv == Spec => [](Inv /\ Fits)
  <1> QED
      BY InitInv, StepInv, InitFits, NextFits, PTL DEF Spec

\* Every variable keeps its type, a stored document has a slug, and only a
\* handler that reads for an index holds more than one document.
THEOREM TypeCorrect == Spec => []TypeOK
  <1>1. Inv /\ Fits => TypeOK
      <2> SUFFICES ASSUME Inv, Fits PROVE TypeOK
          OBVIOUS
      <2>1. stored \in [Docs -> [organization : Orgs, name : Names,
                                 refs : SUBSET Docs, slug : Slugs] \cup {None}]
          BY DEF Fits, StoredFits, Documents
      <2>2. /\ indices \subseteq Kinds /\ DOMAIN entry = Docs
            /\ \A d \in Docs : entry[d] = None \/ entry[d] \in Entries
            /\ alone \subseteq Calls /\ kept \in [Calls -> SUBSET Docs]
            /\ loose \subseteq Docs /\ drifted \subseteq Docs
          BY DEF Fits, SearchFits, HistoryFits
      <2>3. /\ pc \in [Calls -> Steps] /\ count \in [Calls -> Nat]
            /\ DOMAIN request = Calls /\ DOMAIN copy = Calls
          BY DEF Fits, Inv, Shape
      <2>4. ASSUME NEW c \in Calls
            PROVE  /\ (pc[c] \in Idle) = (request[c] = NoRequest)
                   /\ pc[c] \in {"slug", "validate", "check", "write", "hasIndex",
                                 "createIndex", "index"} => copy[c] \in Bodies
                   /\ pc[c] = "pull" => count[c] < Len(ListedBy[Kind[Doc(c)]])
          BY DEF Fits, HandlerFits, Inv, Shape, HandlerOK, Saving, Preparing
      <2> QED
          BY <2>1, <2>2, <2>3, <2>4 DEF TypeOK
  <1> QED
      BY <1>1, SpecInv, PTL
-----------------------------------------------------------------------------
(* The search index.  A handler has the documents it keeps to itself, and  *)
(* every other document it works on has drifted.                           *)

KeptAlone ==
    \A c \in Calls :
        /\ \A d \in Works(c) \ kept[c] : d \in drifted
        /\ pc[c] \notin Idle =>
              \A d \in kept[c] : d \in Works(c) /\ \A x \in Calls \ {c} : d \notin Works(x)

Settled(d) == d \in drifted \/ entry[d] = Searched(stored[d])

\* What the search service holds of a document while handler c has it to
\* itself: the same as the database until the handler writes to either, then
\* what the handler is about to make the same again.
Between(c, d) ==
    /\ pc[c] \in Preparing \cup {"remove", "pull", "hasOld", "deleteIndex"} =>
          Settled(d)
    /\ pc[c] \in Preparing /\ request[c].do = "update" =>
          /\ d \in docs
          /\ stored[d].organization = copy[c].organization
          /\ "name" \notin DOMAIN request[c].body => stored[d].name = copy[c].name
    /\ pc[c] \in {"hasIndex", "createIndex", "index"} =>
          Searched(copy[c]) = Searched(stored[d])
    /\ pc[c] = "unindex" => stored[d] = None
    /\ pc[c] \in {"createNew", "find", "bulk"} => entry[d] = None
    /\ pc[c] = "bulk" => copy[c][d] = Searched(stored[d])

IndexInv ==
    /\ KeptAlone
    /\ \A c \in Calls : pc[c] \notin Idle => \A d \in kept[c] : Between(c, d)
    /\ IndexIsCurrent

\* What the index and another handler see of a document.
Same(d) ==
    /\ entry'[d] = entry[d]
    /\ stored'[d] = None <=> stored[d] = None
    /\ stored[d] # None => /\ stored'[d].organization = stored[d].organization
                           /\ stored'[d].name = stored[d].name
    /\ d \in drifted' <=> d \in drifted

LEMMA SameSearched ==
    ASSUME NEW d, Same(d)
    PROVE  Searched(stored'[d]) = Searched(stored[d])
  BY DEF Same, Searched

LEMMA AboutDoc ==
    ASSUME Inv, Fits, NEW c \in Calls, pc[c] \notin Idle
    PROVE  /\ Works(c) = About(request[c]) /\ Doc(c) \in Works(c)
           /\ request[c].do # "sync" => Works(c) = {Doc(c)}
           /\ request[c].do = "sync" => Works(c) = {d \in Docs : Kind[d] = Kind[Doc(c)]}
  BY DocAtWork DEF Works, About, Doc

\* A removal takes the document off lists, and off nothing that is searched.
LEMMA LinksAside ==
    ASSUME Inv, Fits, NEW c \in Calls, RemoveRefLinks(c), NEW d \in Docs
    PROVE  Same(d)
  <1>1. \/ stored'[d] = stored[d]
        \/ d \in docs /\ stored'[d] = [stored[d] EXCEPT !.refs = @ \ {Doc(c)}]
      BY DEF RemoveRefLinks
  <1>2. UNCHANGED <<entry, drifted>>
      BY DEF RemoveRefLinks, esVars
  <1>3. ASSUME d \in docs, stored'[d] = [stored[d] EXCEPT !.refs = @ \ {Doc(c)}]
        PROVE  /\ stored'[d] # None /\ stored[d] # None
               /\ stored'[d].organization = stored[d].organization
               /\ stored'[d].name = stored[d].name
      <2>1. stored[d] \in Documents
          BY <1>3 DEF docs, Fits, StoredFits
      <2> DEFINE left == stored[d].refs \ {Doc(c)}
      <2>2. left \in SUBSET Docs
          BY <2>1 DEF Documents
      <2>3. stored'[d] = [stored[d] EXCEPT !.refs = left]
          BY <1>3
      <2> HIDE DEF left
      <2>4. stored'[d] \in Documents
          BY <2>1, <2>2, <2>3 DEF Documents
      <2>5. /\ stored'[d].organization = stored[d].organization
            /\ stored'[d].name = stored[d].name
          BY <2>1, <2>3 DEF Documents
      <2>6. None \notin Documents
          BY DocumentsAreBodies, CatalogueAssumption
      <2> QED
          BY <2>1, <2>4, <2>5, <2>6
  <1> QED
      BY <1>1, <1>2, <1>3 DEF Same

\* A handler leaves the documents alone that it does not work on.
LEMMA OthersSame ==
    ASSUME Inv, Fits, KeptAlone, NEW c \in Calls, Acts(c), NEW d \in Docs \ Works(c)
    PROVE  Same(d)
  <1>1. /\ pc[c] \notin Idle /\ Works(c) = About(request[c]) /\ Doc(c) \in Works(c)
        /\ request[c].do = "sync" => Works(c) = {x \in Docs : Kind[x] = Kind[Doc(c)]}
      BY ActsGoes, AboutDoc
  <1>2. d # Doc(c) /\ d \notin kept[c]
      BY <1>1 DEF KeptAlone
  <1>3. CASE RemoveRefLinks(c)
      BY <1>3, LinksAside
  <1>4. CASE ~RemoveRefLinks(c)
      <2>1. stored'[d] = stored[d]
          <3>1. stored' = stored \/ Write(c) \/ RemoveDoc(c)
              BY <1>4, WritesStored
          <3> QED
              BY <1>2, <3>1 DEF Write, RemoveDoc, Fits, StoredFits
      <2>2. entry'[d] = entry[d]
          <3>1. CASE UNCHANGED entry
              BY <3>1
          <3>2. CASE IndexById(c) \/ RemoveById(c)
              BY <1>2, <3>2 DEF IndexById, RemoveById, Fits, SearchFits
          <3>3. CASE DeleteIndex(c)
              <4>1. request[c].do = "sync"
                  BY <3>3 DEF DeleteIndex, Moves, Goes, Fits, HandlerFits, Syncing
              <4> QED
                  BY <1>1, <3>3, <4>1 DEF DeleteIndex
          <3>4. CASE BulkIndex(c)
              <4>1. DOMAIN copy[c] = About(request[c])
                  BY <3>4 DEF BulkIndex, Moves, Goes, Fits, HandlerFits
              <4> QED
                  BY <1>1, <3>4, <4>1 DEF BulkIndex, BulkIndexed
          <3> QED
              BY <3>1, <3>2, <3>3, <3>4, WritesSearch DEF CreateIndex, CreateNewIndex
      <2>3. d \in drifted' <=> d \in drifted
          <3>1. UNCHANGED drifted \/ BulkIndex(c) \/ CallFails(c)
              BY WritesHistory
          <3> QED
              BY <1>1, <1>2, <3>1 DEF BulkIndex, CallFails
      <2> QED
          BY <2>1, <2>2, <2>3 DEF Same
  <1> QED
      BY <1>3, <1>4
LEMMA KeptStays ==
    ASSUME Inv, Fits, KeptAlone, NEW c \in Calls, Acts(c)
    PROVE  KeptAlone'
  <1>1. /\ pc[c] \notin Idle /\ kept' = kept
        /\ \A x \in Calls \ {c} : pc'[x] = pc[x] /\ Works(x)' = Works(x)
        /\ pc'[c] \in Idle => Works(c)' = {}
        /\ pc'[c] \notin Idle => Works(c)' = Works(c)
      <2>1. PICK to, n, body : Goes(c, pc[c], to, n, body)
          BY ActsGoes
      <2>2. /\ pc'[c] = to
            /\ request'[c] = IF to = "over" THEN NoRequest ELSE request[c]
            /\ \A x \in Calls \ {c} : pc'[x] = pc[x] /\ request'[x] = request[x]
          BY <2>1, GoesOn DEF Inv
      <2>3. \A x \in Calls \ {c} : Works(x)' = Works(x)
          BY <2>2 DEF Works, About
      <2>4. to \in Idle => Works(c)' = {}
          BY <2>2 DEF Works
      <2>5. to \notin Idle => Works(c)' = Works(c)
          BY <2>2, ActsGoes DEF Works, About, Idle
      <2>6. pc[c] \notin Idle /\ kept' = kept
          BY ActsGoes
      <2> QED
          BY <2>2, <2>3, <2>4, <2>5, <2>6
  <1>2. /\ drifted \ kept[c] \subseteq drifted'
        /\ ~BulkIndex(c) => drifted \subseteq drifted'
      BY WritesHistory DEF BulkIndex, CallFails
  <1>3. BulkIndex(c) => Works(c)' = {}
      <2>1. ASSUME BulkIndex(c) PROVE pc'[c] = "over"
          BY <2>1, GoesOn DEF BulkIndex, Moves, Inv
      <2> QED
          BY <1>1, <2>1 DEF Idle
  <1>4. ASSUME NEW x \in Calls, NEW d \in Works(x)' \ kept'[x] PROVE d \in drifted'
      <2>1. d \in Works(x) \ kept[x]
          BY <1>1, <1>4
      <2>2. d \in drifted
          BY <2>1 DEF KeptAlone
      <2>3. ASSUME BulkIndex(c) PROVE d \notin kept[c]
          <3>1. x # c
              BY <1>3, <1>4, <2>3
          <3> QED
              BY <1>1, <2>1, <3>1 DEF KeptAlone
      <2> QED
          BY <1>2, <2>2, <2>3
  <1>5. ASSUME NEW x \in Calls, pc'[x] \notin Idle, NEW d \in kept'[x]
        PROVE  d \in Works(x)' /\ \A y \in Calls \ {x} : d \notin Works(y)'
      BY <1>1, <1>5 DEF KeptAlone
  <1> QED
      BY <1>4, <1>5 DEF KeptAlone

\* A handler that goes on has made the next step possible, and one that is over
\* has made the index current.
After(c, d) ==
    /\ pc'[c] \in Idle => Settled(d)'
    /\ pc'[c] \notin Idle => Between(c, d)'

LEMMA SettledStays ==
    ASSUME NEW d, Same(d), Settled(d)
    PROVE  Settled(d)'
  BY SameSearched DEF Settled, Same

\* The handler that works on a document, when it saves it.
LEMMA SavingAfter ==
    ASSUME Inv, Fits, KeptAlone, NEW c \in Calls, NEW d \in kept[c], Between(c, d),
           \/ TrySlug(c) \/ NoSlug(c) \/ Validate(c) \/ CheckRefs(c)
           \/ WriteFails(c) \/ Write(c) \/ HasIndex(c) \/ CreateIndex(c) \/ IndexById(c)
    PROVE  After(c, d)
  <1> USE DEF Moves
  <1>1. /\ d \in Docs /\ HandlerFits(c) /\ HandlerOK(c) /\ Shape
      BY DEF Fits, HistoryFits, Inv, Shape
  <1>2. pc[c] \in Saving
      BY DEF TrySlug, NoSlug, Validate, CheckRefs, WriteFails, Write, HasIndex, CreateIndex,
             IndexById, Goes, Saving, Preparing
  <1>3. d = Doc(c) /\ request[c].do \in {"save", "update"} /\ copy[c] \in Bodies
      <2>1. request[c].do \in {"save", "update"} /\ pc[c] \notin Idle /\ copy[c] \in Bodies
          BY <1>1, <1>2 DEF HandlerOK, Saving, Preparing, Idle
      <2>2. d \in Works(c)
          BY <2>1 DEF KeptAlone
      <2> QED
          BY <2>1, <2>2, AboutDoc
  <1>4. CASE TrySlug(c) /\ ~Exists(c, count[c])
      <2> DEFINE body == [copy[c] EXCEPT !.slug = count[c]]
      <2>1. Goes(c, "slug", "validate", 0, body) /\ UNCHANGED <<stored, entry, drifted>>
          BY <1>4 DEF TrySlug, esVars
      <2>2. body.organization = copy[c].organization /\ body.name = copy[c].name
          BY <1>3 DEF Bodies
      <2> HIDE DEF body
      <2>3. /\ pc[c] = "slug" /\ pc'[c] = "validate" /\ copy'[c] = body
            /\ request'[c] = request[c]
          BY <1>1, <2>1, GoesOn
      <2> QED
          BY <2>1, <2>2, <2>3 DEF After, Between, Settled, docs, Idle, Preparing
  <1>5. CASE TrySlug(c) /\ Exists(c, count[c])
      <2>1. Goes(c, "slug", "slug", count[c] + 1, copy[c]) /\ UNCHANGED <<stored, entry, drifted>>
          BY <1>5 DEF TrySlug, esVars
      <2>2. /\ pc[c] = "slug" /\ pc'[c] = "slug" /\ copy'[c] = copy[c]
            /\ request'[c] = request[c]
          BY <1>1, <2>1, GoesOn
      <2> QED
          BY <2>1, <2>2 DEF After, Between, Settled, docs, Idle, Preparing
  <1>6. CASE NoSlug(c) \/ Validate(c) \/ CheckRefs(c) \/ WriteFails(c)
      <2>1. PICK from \in Preparing, to \in {"over", "check", "write"} :
               Goes(c, from, to, 0, copy[c])
          BY <1>6 DEF NoSlug, Validate, CheckRefs, WriteFails, Preparing
      <2>2. UNCHANGED <<stored, entry, drifted>>
          BY <1>6 DEF NoSlug, Validate, CheckRefs, WriteFails, esVars
      <2>3. /\ pc[c] = from /\ pc'[c] = to
            /\ to # "over" => copy'[c] = copy[c] /\ request'[c] = request[c]
          BY <1>1, <2>1, GoesOn
      <2> QED
          BY <2>2, <2>3 DEF After, Between, Settled, docs, Idle, Preparing
  <1>7. CASE Write(c)
      <2>1. /\ Goes(c, "write", "hasIndex", 0, copy[c])
            /\ stored' = [stored EXCEPT ![d] = Written(c)]
          BY <1>3, <1>7 DEF Write
      <2>2. pc[c] = "write" /\ pc'[c] = "hasIndex" /\ copy'[c] = copy[c]
          BY <1>1, <2>1, GoesOn
      <2>3. Searched(copy[c]) = Searched(Written(c))
          <3>1. CASE request[c].do = "save"
              BY <3>1 DEF Written
          <3>2. CASE request[c].do = "update"
              <4> DEFINE old == stored[d]
                         a == IF "name" \in DOMAIN request[c].body THEN copy[c].name ELSE old.name
                         b == IF WritesRefs(c) THEN copy[c].refs ELSE old.refs
                         s == IF "slug" \in DOMAIN request[c].body THEN copy[c].slug ELSE old.slug
                         new == [old EXCEPT !.name = a, !.refs = b, !.slug = s]
              <4>1. old # None /\ old \in Documents /\ old.organization = copy[c].organization
                  BY <1>1, <2>2, <3>2 DEF Between, docs, Fits, StoredFits, Preparing
              <4>2. a = copy[c].name
                  BY <2>2, <3>2 DEF Between, Preparing
              <4>3. Written(c) = new
                  BY <1>3, <3>2 DEF Written
              <4> HIDE DEF a, b, s, old
              <4>4. new.organization = old.organization /\ new.name = a
                  BY <4>1 DEF Documents
              <4>5. new # None
                  <5>1. b \in SUBSET Docs /\ s \in Slugs /\ a \in Names
                      BY <1>3, <4>1, <4>2, <1>1, <2>2 DEF HandlerFits, Saving, Preparing, Bodies,
                         Documents, b, s, old
                  <5>2. new \in Documents
                      BY <4>1, <5>1 DEF Documents
                  <5> QED
                      BY <5>2, DocumentsAreBodies, CatalogueAssumption
              <4>6. copy[c] # None
                  BY <1>3, CatalogueAssumption
              <4> HIDE DEF new
              <4> QED
                  BY <4>1, <4>2, <4>3, <4>4, <4>5, <4>6 DEF Searched
          <3> QED
              BY <1>3, <3>1, <3>2
      <2>4. stored'[d] = Written(c)
          BY <1>1, <2>1 DEF Fits, StoredFits
      <2> QED
          BY <2>2, <2>3, <2>4 DEF After, Between, Idle, Preparing
  <1>8. CASE HasIndex(c) \/ CreateIndex(c)
      <2>1. PICK from \in {"hasIndex", "createIndex"}, to \in {"createIndex", "index"} :
               Goes(c, from, to, 0, copy[c])
          BY <1>8 DEF HasIndex, CreateIndex
      <2>2. UNCHANGED stored
          BY <1>8 DEF HasIndex, CreateIndex
      <2>3. pc[c] = from /\ pc'[c] = to /\ copy'[c] = copy[c]
          BY <1>1, <2>1, GoesOn
      <2> QED
          BY <2>2, <2>3 DEF After, Between, Idle, Preparing
  <1>9. CASE IndexById(c)
      <2>1. /\ pc[c] = "index" /\ pc'[c] = "over" /\ UNCHANGED stored
            /\ entry' = [entry EXCEPT ![d] = Searched(copy[c])]
          BY <1>1, <1>3, <1>9, GoesOn DEF IndexById
      <2>2. entry'[d] = Searched(stored'[d])
          BY <1>1, <2>1 DEF Between, Fits, SearchFits
      <2> QED
          BY <2>1, <2>2 DEF After, Settled, Idle
  <1> QED
      BY <1>4, <1>5, <1>6, <1>7, <1>8, <1>9
\* The handler that works on a document, when it removes or indexes it, and a
\* handler that fails.
LEMMA RemovingAfter ==
    ASSUME Inv, Fits, KeptAlone, NEW c \in Calls, NEW d \in kept[c], Between(c, d),
           RemoveDoc(c) \/ RemoveById(c) \/ RemoveRefLinks(c) \/ CallFails(c)
    PROVE  After(c, d)
  <1> USE DEF Moves
  <1>1. /\ d \in Docs /\ Shape /\ pc[c] \notin Idle
        /\ pc[c] \in Removing => d = Doc(c)
      <2>1. pc[c] \notin Idle
          BY ActsGoes DEF Acts
      <2>2. pc[c] \in Removing => request[c].do # "sync"
          BY DEF Fits, HandlerFits
      <2> QED
          BY <2>1, <2>2, AboutDoc DEF Fits, HistoryFits, Inv, KeptAlone
  <1>2. CASE RemoveDoc(c)
      <2>1. /\ pc[c] = "remove" /\ pc'[c] = "unindex" /\ stored' = [stored EXCEPT ![Doc(c)] = None]
          BY <1>1, <1>2, GoesOn DEF RemoveDoc
      <2>2. stored'[d] = None
          BY <1>1, <2>1 DEF Fits, StoredFits, Removing
      <2> QED
          BY <2>1, <2>2 DEF After, Between, Idle, Preparing
  <1>3. CASE RemoveById(c)
      <2>1. /\ pc[c] = "unindex" /\ entry' = [entry EXCEPT ![Doc(c)] = None] /\ UNCHANGED stored
            /\ pc'[c] \in {"over", "pull"}
          BY <1>1, <1>3, GoesOn DEF RemoveById
      <2>2. entry'[d] = Searched(stored'[d])
          BY <1>1, <2>1 DEF Fits, SearchFits, Removing, Between, Searched
      <2> QED
          BY <2>1, <2>2 DEF After, Between, Settled, Idle, Preparing
  <1>4. CASE RemoveRefLinks(c)
      <2>1. pc[c] = "pull" /\ pc'[c] \in {"over", "pull"}
          BY <1>1, <1>4, GoesOn DEF RemoveRefLinks
      <2>2. Settled(d)
          BY <2>1 DEF Between
      <2>3. Settled(d)'
          BY <1>1, <1>4, <2>2, LinksAside, SettledStays
      <2> QED
          BY <2>1, <2>3 DEF After, Between, Idle, Preparing
  <1>5. CASE CallFails(c)
      <2>1. /\ pc'[c] = "over" /\ UNCHANGED <<stored, entry>> /\ d \in About(request[c])
            /\ drifted' = IF pc[c] \in BehindSearch THEN drifted \cup About(request[c]) ELSE drifted
          BY <1>1, <1>5, GoesOn, AboutDoc DEF CallFails, esVars, KeptAlone
      <2>2. pc[c] \notin BehindSearch => Settled(d)
          BY <1>1 DEF Between, BehindSearch, Preparing, Fits, HandlerFits, Steps
      <2> QED
          BY <2>1, <2>2 DEF After, Settled, Idle
  <1> QED
      BY <1>2, <1>3, <1>4, <1>5

LEMMA SyncingAfter ==
    ASSUME Inv, Fits, KeptAlone, NEW c \in Calls, NEW d \in kept[c], Between(c, d),
           HasOldIndex(c) \/ DeleteIndex(c) \/ CreateNewIndex(c) \/ FindAll(c) \/ BulkIndex(c)
    PROVE  After(c, d)
  <1> USE DEF Moves
  <1>1. pc[c] \in Syncing /\ pc[c] \notin Idle
      BY DEF HasOldIndex, DeleteIndex, CreateNewIndex, FindAll, BulkIndex, Goes, Syncing, Idle
  <1>2. /\ d \in Docs /\ Shape /\ d \in About(request[c]) /\ Kind[d] = Kind[Doc(c)]
        /\ HandlerFits(c)
      <2>1. request[c].do = "sync"
          BY <1>1 DEF Fits, HandlerFits
      <2> QED
          BY <1>1, <2>1, AboutDoc DEF Fits, HistoryFits, Inv, KeptAlone
  <1>3. CASE HasOldIndex(c)
      <2>1. /\ pc[c] = "hasOld" /\ UNCHANGED <<stored, entry, drifted>>
            /\ pc'[c] = IF Kind[d] \in indices THEN "deleteIndex" ELSE "createNew"
          BY <1>2, <1>3, GoesOn DEF HasOldIndex, esVars
      <2>2. Kind[d] \notin indices => entry[d] = None
          BY <1>2 DEF Fits, SearchFits
      <2> QED
          BY <2>1, <2>2 DEF After, Between, Settled, Idle, Preparing
  <1>4. CASE DeleteIndex(c)
      <2>1. /\ pc'[c] = "createNew"
            /\ entry' = [x \in Docs |-> IF Kind[x] = Kind[Doc(c)] THEN None ELSE entry[x]]
          BY <1>2, <1>4, GoesOn DEF DeleteIndex
      <2>2. entry'[d] = None
          BY <1>2, <2>1
      <2> QED
          BY <2>1, <2>2 DEF After, Between, Idle, Preparing
  <1>5. CASE CreateNewIndex(c)
      <2>1. pc[c] = "createNew" /\ pc'[c] = "find" /\ UNCHANGED entry
          BY <1>2, <1>5, GoesOn DEF CreateNewIndex
      <2> QED
          BY <2>1 DEF After, Between, Idle, Preparing
  <1>6. CASE FindAll(c)
      <2>1. /\ pc[c] = "find" /\ pc'[c] = "bulk" /\ UNCHANGED <<stored, entry>>
            /\ copy'[c] = [x \in About(request[c]) |-> Searched(stored[x])]
          BY <1>2, <1>6, GoesOn DEF FindAll, esVars
      <2>2. copy'[c][d] = Searched(stored'[d])
          BY <1>2, <2>1
      <2> QED
          BY <2>1, <2>2 DEF After, Between, Idle, Preparing
  <1>7. CASE BulkIndex(c)
      <2>1. /\ pc[c] = "bulk" /\ pc'[c] = "over" /\ UNCHANGED stored /\ entry' = BulkIndexed(c)
          BY <1>2, <1>7, GoesOn DEF BulkIndex
      <2>2. /\ DOMAIN copy[c] = About(request[c]) /\ entry[d] = None
            /\ copy[c][d] = Searched(stored[d])
          BY <1>2, <2>1 DEF HandlerFits, Between
      <2>3. entry'[d] = copy[c][d]
          BY <1>2, <2>1, <2>2 DEF BulkIndexed
      <2> QED
          BY <2>1, <2>2, <2>3 DEF After, Settled, Idle
  <1> QED
      BY <1>3, <1>4, <1>5, <1>6, <1>7

\* The step of a handler.
LEMMA ActsIndex ==
    ASSUME Inv, Fits, IndexInv, NEW c \in Calls, Acts(c)
    PROVE  IndexInv'
  <1>1. KeptAlone /\ KeptAlone' /\ kept' = kept /\ pc[c] \notin Idle
      BY KeptStays, ActsGoes DEF IndexInv
  <1>2. \A d \in kept[c] : After(c, d)
      BY <1>1, SavingAfter, RemovingAfter, SyncingAfter DEF Acts, IndexInv
  <1>3. PICK to, n, body : Goes(c, pc[c], to, n, body)
      BY ActsGoes
  <1>4. /\ pc'[c] \notin Idle => request'[c] = request[c]
        /\ \A x \in Calls \ {c} : /\ pc'[x] = pc[x] /\ request'[x] = request[x]
                                  /\ copy'[x] = copy[x]
      BY <1>3, GoesOn DEF Inv, Idle
  <1>5. ASSUME NEW x \in Calls, pc'[x] \notin Idle, NEW d \in kept'[x]
        PROVE  Between(x, d)'
      <2>1. CASE x = c
          BY <1>1, <1>2, <1>5, <2>1 DEF After
      <2>2. CASE x # c
          <3>1. /\ pc'[x] = pc[x] /\ request'[x] = request[x] /\ copy'[x] = copy[x]
                /\ Between(x, d)
              BY <1>1, <1>4, <1>5, <2>2 DEF IndexInv
          <3>2. d \in Docs \ Works(c)
              BY <1>1, <1>4, <1>5, <2>2 DEF KeptAlone, Fits, HistoryFits
          <3>3. Same(d)
              BY <1>1, <3>2, OthersSame
          <3>4. /\ Settled(d) => Settled(d)'
                /\ Searched(stored'[d]) = Searched(stored[d]) /\ entry'[d] = entry[d]
                /\ stored'[d] = None <=> stored[d] = None
                /\ d \in docs => /\ d \in docs' /\ stored'[d].organization = stored[d].organization
                                 /\ stored'[d].name = stored[d].name
              BY <3>2, <3>3, SameSearched, SettledStays DEF Same, docs
          <3> QED
              BY <3>1, <3>4 DEF Between
      <2> QED
          BY <2>1, <2>2
  <1>6. ASSUME NEW d \in Docs \ (Busy' \cup drifted') PROVE Settled(d)'
      <2>1. CASE d \in Works(c)
          <3>1. pc'[c] \in Idle
              <4>1. pc'[c] \notin Idle => Works(c)' = Works(c)
                  BY <1>1, <1>4 DEF Works, About
              <4> QED
                  BY <1>6, <2>1, <4>1 DEF Busy
          <3>2. d \in kept[c]
              <4>1. SUFFICES ASSUME d \notin kept[c] PROVE FALSE
                  OBVIOUS
              <4>2. d \in drifted
                  BY <1>1, <2>1, <4>1 DEF KeptAlone
              <4>3. d \in drifted'
                  BY <4>1, <4>2, WritesHistory DEF BulkIndex, CallFails
              <4> QED
                  BY <1>6, <4>3
          <3> QED
              BY <1>2, <3>1, <3>2 DEF After
      <2>2. CASE d \notin Works(c)
          <3>1. d \in Docs \ Works(c)
              BY <1>6, <2>2
          <3>2. Same(d)
              BY <1>1, <3>1, OthersSame
          <3>3. \A x \in Calls \ {c} : Works(x)' = Works(x)
              BY <1>4 DEF Works, About
          <3>4. d \notin Busy
              BY <1>6, <2>2, <3>3 DEF Busy
          <3>5. Settled(d)
              BY <3>1, <3>4 DEF IndexInv, IndexIsCurrent, Settled
          <3> QED
              BY <3>1, <3>2, <3>5, SettledStays
      <2> QED
          BY <2>1, <2>2
  <1>7. IndexIsCurrent'
      BY <1>6 DEF IndexIsCurrent, Settled
  <1> QED
      BY <1>1, <1>5, <1>7 DEF IndexInv
\* A request takes its documents from the handlers that had them to themselves.
LEMMA StartIndex ==
    ASSUME Inv, Fits, IndexInv, NEW c \in Calls, NEW r \in Requests, Starts(c, r)
    PROVE  IndexInv'
  <1>1. PICK q, to, body : Begins(c, r, q, to, body)
      BY StartIs DEF Starts
  <1>2. /\ pc[c] = "idle" /\ UNCHANGED <<stored, entry>>
        /\ kept' = [x \in Calls |-> IF x = c THEN About(q) \ Busy ELSE kept[x] \ About(q)]
        /\ drifted' = drifted \cup (About(q) \cap Busy)
        /\ pc'[c] = to /\ request'[c] = q /\ copy'[c] = body
        /\ \A x \in Calls \ {c} : /\ pc'[x] = pc[x] /\ request'[x] = request[x]
                                  /\ copy'[x] = copy[x]
      BY <1>1 DEF Begins, Start, esVars, Inv, Shape
  <1>3. to \in {"slug", "validate", "remove", "hasOld"} /\ to \notin Idle
      BY <1>1 DEF Begins, Idle
  <1>4. /\ Works(c) = {} /\ Works(c)' = About(q)
        /\ \A x \in Calls \ {c} : Works(x)' = Works(x)
      BY <1>2, <1>3 DEF Works, About, Idle
  <1>5. KeptAlone'
      <2>1. ASSUME NEW x \in Calls, NEW d \in Works(x)' \ kept'[x] PROVE d \in drifted'
          <3>1. CASE x = c
              BY <1>2, <1>4, <2>1, <3>1
          <3>2. CASE x # c
              <4>1. d \in Works(x) /\ d \in Busy
                  BY <1>4, <2>1, <3>2 DEF Busy
              <4>2. d \in kept[x] => d \in About(q)
                  BY <1>2, <2>1, <3>2
              <4> QED
                  BY <1>2, <4>1, <4>2 DEF IndexInv, KeptAlone
          <3> QED
              BY <3>1, <3>2
      <2>2. ASSUME NEW x \in Calls, pc'[x] \notin Idle, NEW d \in kept'[x]
            PROVE  d \in Works(x)' /\ \A y \in Calls \ {x} : d \notin Works(y)'
          <3>1. CASE x = c
              BY <1>2, <1>4, <2>2, <3>1 DEF Busy
          <3>2. CASE x # c
              <4>1. d \in kept[x] /\ d \notin About(q) /\ pc[x] \notin Idle
                  BY <1>2, <2>2, <3>2
              <4>2. d \in Works(x) /\ \A y \in Calls \ {x} : d \notin Works(y)
                  BY <4>1 DEF IndexInv, KeptAlone
              <4> QED
                  BY <1>4, <3>2, <4>1, <4>2
          <3> QED
              BY <3>1, <3>2
      <2> QED
          BY <2>1, <2>2 DEF KeptAlone
  <1>6. ASSUME NEW x \in Calls, pc'[x] \notin Idle, NEW d \in kept'[x]
        PROVE  Between(x, d)'
      <2>1. CASE x = c
          <3>1. d \in About(q) \ Busy
              BY <1>2, <2>1, <1>6
          <3>2. d \in Docs
              BY <1>1, <3>1, AboutDocs, CatalogueAssumption DEF Begins
          <3>3. Settled(d) /\ Settled(d)'
              BY <1>2, <3>1, <3>2 DEF IndexInv, IndexIsCurrent, Settled
          <3>4. q.do = "update" => d = q.doc
              BY <3>1 DEF About
          <3> QED
              BY <1>1, <1>2, <1>3, <2>1, <3>3, <3>4 DEF Between, Begins, docs, Preparing
      <2>2. CASE x # c
          <3>1. Between(x, d)
              BY <1>2, <1>6, <2>2 DEF IndexInv
          <3>2. Settled(d) => Settled(d)'
              BY <1>2 DEF Settled
          <3> QED
              BY <1>2, <2>2, <3>1, <3>2 DEF Between, docs
      <2> QED
          BY <2>1, <2>2
  <1>7. IndexIsCurrent'
      <2>1. Busy \subseteq Busy'
          BY <1>4 DEF Busy
      <2> QED
          BY <1>2, <2>1 DEF IndexInv, IndexIsCurrent
  <1> QED
      BY <1>5, <1>6, <1>7 DEF IndexInv

LEMMA IndexInduction ==
    /\ Init => IndexInv
    /\ Inv /\ Fits /\ IndexInv /\ [Next]_vars => IndexInv'
  <1>1. Init => IndexInv
      BY DEF Init, IndexInv, KeptAlone, IndexIsCurrent, Works, Idle
  <1>2. ASSUME Inv, Fits, IndexInv, [Next]_vars PROVE IndexInv'
      <2>1. CASE UNCHANGED vars
          <3>1. /\ stored' = stored /\ entry' = entry /\ pc' = pc /\ request' = request
                /\ copy' = copy /\ kept' = kept /\ drifted' = drifted
              BY <2>1 DEF vars, esVars, history
          <3>2. KeptAlone' /\ IndexIsCurrent'
              BY <1>2, <3>1 DEF IndexInv, KeptAlone, IndexIsCurrent, Busy, Works, About
          <3>3. \A c \in Calls : \A d : Between(c, d)' <=> Between(c, d)
              BY <3>1 DEF Between, Settled, docs
          <3> QED
              BY <1>2, <3>1, <3>2, <3>3 DEF IndexInv
      <2> QED
          BY <1>2, <2>1, StepIs, StartIndex, ActsIndex
  <1> QED
      BY <1>1, <1>2

\* The search service is as the database is, for every document that no handler
\* works on, unless handlers overlapped on it or one failed between the two and
\* no reindex has had it to itself since.
THEOREM IndexCurrent == Spec => []IndexIsCurrent
  <1>1. IndexInv => IndexIsCurrent
      BY DEF IndexInv
  <1>2. Spec => []IndexInv
      BY IndexInduction, SpecInv, PTL DEF Spec
  <1> QED
      BY <1>1, <1>2, PTL
-----------------------------------------------------------------------------
(* Slugs.  While a handler is alone, no other changes what is stored.      *)

AloneOK(c) ==
    /\ \A x \in Calls \ {c} : pc[x] \in Idle
    /\ pc[c] = "slug" => \A n \in 0 .. (count[c] - 1) : Exists(c, n)
    /\ pc[c] \in {"validate", "check", "write"} /\ request[c].do = "save"
          /\ request[c].body.slug = None => ~Exists(c, copy[c].slug)
    /\ pc[c] \in Preparing /\ request[c].do = "update" => Doc(c) \in docs

AloneInv == \A c \in alone : AloneOK(c)

\* A handler that is alone has found the candidates taken that it went past,
\* and nobody takes the one it has chosen.
LEMMA ActsAlone ==
    ASSUME Inv, Fits, AloneInv, NEW c \in Calls, Acts(c)
    PROVE  AloneInv'
  <1> USE DEF Moves
  <1>1. /\ alone' = alone /\ pc[c] \notin Idle /\ alone \subseteq Calls /\ Shape
      BY ActsGoes DEF Fits, HistoryFits, Inv
  <1>2. SUFFICES ASSUME NEW x \in alone PROVE AloneOK(x)'
      BY <1>1 DEF AloneInv
  <1>3. x = c /\ AloneOK(c)
      BY <1>1 DEF AloneInv, AloneOK
  <1>4. PICK to, n, body : Goes(c, pc[c], to, n, body)
      BY ActsGoes
  <1>5. /\ pc'[c] = to
        /\ \A y \in Calls \ {c} : pc'[y] \in Idle
      BY <1>1, <1>3, <1>4, GoesOn DEF AloneOK
  <1>6. CASE to \notin Preparing
      BY <1>3, <1>5, <1>6 DEF AloneOK, Preparing
  <1>7. CASE TrySlug(c) /\ ~Exists(c, count[c])
      <2> DEFINE new == [copy[c] EXCEPT !.slug = count[c]]
      <2>1. Goes(c, "slug", "validate", 0, new) /\ UNCHANGED stored /\ pc[c] = "slug"
          BY <1>7 DEF TrySlug
      <2>2. new.slug = count[c] /\ new.organization = copy[c].organization
          BY <2>1 DEF Inv, Shape, HandlerOK, Saving, Preparing, Bodies
      <2> HIDE DEF new
      <2>3. /\ pc'[c] = "validate" /\ copy'[c] = new /\ request'[c] = request[c]
          BY <1>1, <2>1, GoesOn
      <2>4. ~Exists(c, copy[c].slug)'
          BY <1>7, <2>1, <2>2, <2>3 DEF Exists, docs, Doc
      <2> QED
          BY <1>3, <1>5, <2>1, <2>3, <2>4 DEF AloneOK, docs, Doc, Preparing
  <1>8. CASE TrySlug(c) /\ Exists(c, count[c])
      <2>1. Goes(c, "slug", "slug", count[c] + 1, copy[c]) /\ UNCHANGED stored /\ pc[c] = "slug"
          BY <1>8 DEF TrySlug
      <2>2. /\ pc'[c] = "slug" /\ copy'[c] = copy[c] /\ request'[c] = request[c]
            /\ count'[c] = count[c] + 1 /\ count[c] \in Nat
          BY <1>1, <2>1, GoesOn DEF Fits
      <2>3. \A m \in 0 .. count[c] : Exists(c, m)
          BY <1>3, <1>8, <2>1, <2>2 DEF AloneOK
      <2>4. \A m : Exists(c, m)' <=> Exists(c, m)
          BY <2>1, <2>2 DEF Exists, docs, Doc
      <2>5. \A m \in 0 .. (count'[c] - 1) : Exists(c, m)'
          BY <2>2, <2>3, <2>4
      <2> QED
          BY <1>3, <1>5, <2>1, <2>2, <2>5 DEF AloneOK, docs, Doc, Preparing
  <1>9. CASE Validate(c) \/ CheckRefs(c)
      <2>1. PICK from \in {"validate", "check"}, next \in {"over", "check", "write"} :
               Goes(c, from, next, 0, copy[c])
          BY <1>9 DEF Validate, CheckRefs
      <2>2. UNCHANGED stored
          BY <1>9 DEF Validate, CheckRefs
      <2>3. /\ pc[c] = from /\ pc'[c] = next
            /\ next # "over" => copy'[c] = copy[c] /\ request'[c] = request[c]
          BY <1>1, <2>1, GoesOn
      <2>4. next # "over" => (Exists(c, copy[c].slug)' <=> Exists(c, copy[c].slug))
          BY <2>2, <2>3 DEF Exists, docs, Doc
      <2> QED
          BY <1>3, <1>5, <2>2, <2>3, <2>4 DEF AloneOK, docs, Doc, Preparing
  <1>10. CASE ~TrySlug(c) /\ ~Validate(c) /\ ~CheckRefs(c)
      <2>1. pc'[c] \notin Preparing
          <3>1. CASE HasIndex(c) \/ RemoveById(c) \/ RemoveRefLinks(c) \/ HasOldIndex(c)
              BY <1>1, <3>1, GoesOn DEF HasIndex, RemoveById, RemoveRefLinks, HasOldIndex, Preparing
          <3>2. CASE \/ NoSlug(c) \/ WriteFails(c) \/ IndexById(c) \/ BulkIndex(c) \/ CallFails(c)
              BY <1>1, <3>2, GoesOn
                 DEF NoSlug, WriteFails, IndexById, BulkIndex, CallFails, Preparing
          <3>3. CASE Write(c) \/ CreateIndex(c) \/ RemoveDoc(c)
              BY <1>1, <3>3, GoesOn DEF Write, CreateIndex, RemoveDoc, Preparing
          <3>4. CASE DeleteIndex(c) \/ CreateNewIndex(c) \/ FindAll(c)
              BY <1>1, <3>4, GoesOn DEF DeleteIndex, CreateNewIndex, FindAll, Preparing
          <3> QED
              BY <1>10, <3>1, <3>2, <3>3, <3>4 DEF Acts
      <2> QED
          BY <1>5, <1>6, <2>1
  <1> QED
      BY <1>7, <1>8, <1>9, <1>10

LEMMA StartAlone ==
    ASSUME Inv, Fits, NEW c \in Calls, NEW r \in Requests, Starts(c, r)
    PROVE  AloneInv'
  <1>1. PICK q, to, body : Begins(c, r, q, to, body)
      BY StartIs DEF Starts
  <1>2. /\ pc[c] = "idle" /\ stored' = stored
        /\ alone' = IF \A x \in Calls : pc[x] \in Idle THEN {c} ELSE {}
        /\ pc'[c] = to /\ request'[c] = q /\ copy'[c] = body /\ count' = count
        /\ \A x \in Calls \ {c} : pc'[x] = pc[x]
      BY <1>1 DEF Begins, Start, Inv, Shape
  <1>3. CASE alone' = {}
      BY <1>3 DEF AloneInv
  <1>4. CASE alone' = {c} /\ \A x \in Calls : pc[x] \in Idle
      <2>1. \A x \in Calls \ {c} : pc'[x] \in Idle
          BY <1>2, <1>4
      <2>2. count'[c] = 0
          BY <1>2 DEF Inv, Shape, HandlerOK
      <2>3. to \in {"validate", "check", "write"} => body.slug # None
          BY <1>1, CatalogueAssumption DEF Begins
      <2>4. q.do = "save" => body.slug = q.body.slug
          BY <1>1 DEF Begins
      <2>5. q.do = "update" => q.doc \in docs'
          BY <1>1, <1>2 DEF Begins, docs
      <2>6. \A m \in 0 .. (count'[c] - 1) : FALSE
          BY <2>2
      <2>7. AloneOK(c)'
          BY <1>2, <2>1, <2>3, <2>4, <2>5, <2>6 DEF AloneOK, Doc
      <2> QED
          BY <1>4, <2>7 DEF AloneInv
  <1> QED
      BY <1>2, <1>3, <1>4

LEMMA AloneInduction ==
    /\ Init => AloneInv
    /\ Inv /\ Fits /\ AloneInv /\ [Next]_vars => AloneInv'
  <1>1. Init => AloneInv
      BY DEF Init, AloneInv
  <1>2. ASSUME Inv, Fits, AloneInv, [Next]_vars PROVE AloneInv'
      <2>1. CASE UNCHANGED vars
          BY <1>2, <2>1 DEF vars, esVars, history, AloneInv, AloneOK, Exists, docs, Doc
      <2> QED
          BY <1>2, <2>1, StepIs, StartAlone, ActsAlone
  <1> QED
      BY <1>1, <1>2

\* A handler that has no other beside it is refused a slug only when every
\* candidate but the last is taken, and the unique index never refuses the one
\* it was given.
THEOREM SlugFound == Spec => SlugIsFound
  <1>1. ASSUME Inv, Fits, AloneInv, NEW c \in alone, NoSlug(c),
               NEW n \in 0 .. MaxAttempts - 1
        PROVE  \E d \in docs : /\ stored[d].slug = n
                               /\ Kind[d] = Kind[Doc(c)]
                               /\ stored[d].organization = copy[c].organization
      <2>1. pc[c] = "slug" /\ count[c] = MaxAttempts
          BY <1>1 DEF NoSlug, Moves, Goes
      <2>2. Exists(c, n)
          BY <1>1, <2>1 DEF AloneInv, AloneOK
      <2> QED
          BY <2>2 DEF Exists
  <1>2. ASSUME Inv, Fits, AloneInv, NEW c \in alone, WriteFails(c),
               request[c].body.slug = None
        PROVE  Doc(c) \in docs
      <2>1. pc[c] = "write" /\ Refused(c) /\ AloneOK(c) /\ c \in Calls
          BY <1>2 DEF WriteFails, Moves, Goes, AloneInv, Fits, HistoryFits
      <2>2. request[c].do \in {"save", "update"}
          BY <1>2, <2>1 DEF Inv, Shape, HandlerOK, Saving, Preparing
      <2>3. CASE request[c].do = "save"
          <3>1. ~Taken(Doc(c), copy[c].organization, copy[c].slug)
              BY <1>2, <2>1, <2>3 DEF AloneOK, Exists, Taken
          <3> QED
              BY <2>1, <2>3, <3>1 DEF Refused
      <2>4. CASE request[c].do = "update"
          BY <2>1, <2>4 DEF AloneOK, Preparing
      <2> QED
          BY <2>2, <2>3, <2>4
  <1> DEFINE Found == \A c \in alone :
          /\ NoSlug(c) => \A n \in 0 .. MaxAttempts - 1 :
                             \E d \in docs : /\ stored[d].slug = n
                                             /\ Kind[d] = Kind[Doc(c)]
                                             /\ stored[d].organization = copy[c].organization
          /\ WriteFails(c) => \/ request[c].body.slug # None
                              \/ Doc(c) \in docs
  <1>3. Inv /\ Fits /\ AloneInv => Found
      BY <1>1, <1>2
  <1>4. Spec => [](Inv /\ Fits /\ AloneInv)
      BY AloneInduction, SpecInv, PTL DEF Spec
  <1>5. SlugIsFound <=> [][Found]_vars
      BY DEF SlugIsFound
  <1> HIDE DEF Found
  <1> QED
      BY <1>3, <1>4, <1>5, PTL

=============================================================================
