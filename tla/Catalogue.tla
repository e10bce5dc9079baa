------------------------------ MODULE Catalogue ------------------------------
(***************************************************************************)
(* Layers, widgets and dashboards: the references between them, their      *)
(* slugs, and the search index.                                            *)
(*                                                                         *)
(* A document is stored in MongoDB and a part of it in Elasticsearch, and  *)
(* it lists the ids of others: layers list layers, widgets list layers,    *)
(* dashboards list layers and widgets.  The hooks of the models keep the   *)
(* three in step, with a call of its own for each thing they do: handlers  *)
(* interleave between any two calls, and any call may fail.                *)
(*                                                                         *)
(* The hooks that count and compare versions are those of Locations.  Here *)
(* an edit that they refuse is a call that fails.                          *)
(***************************************************************************)
EXTENDS Naturals, Sequences, FiniteSets

CONSTANTS
    Docs,         \* the _ids of documents
    Kind,         \* the model of each
    Calls,        \* handlers
    Orgs,         \* workspaces
    Names,        \* names; all of them have the same slug
    Requests,     \* what clients ask for
    MaxAttempts,  \* of the generation of a slug; 10 in the code
    None          \* no value

Kinds == {"Layer", "Widget", "Dashboard"}

\* A slug is that of the name and a counter, 0 when there is none.
Slugs == 0 .. MaxAttempts

\* The fields that a request may carry.  A slug that is None is generated.
Values == [name |-> Names, refs |-> SUBSET Docs, slug |-> Slugs \cup {None}]

\* Documents, which have a slug when they are stored.
Bodies == [organization : Orgs, name : Names, refs : SUBSET Docs,
           slug : Slugs \cup {None}]

ASSUME CatalogueAssumption ==
    /\ Kind \in [Docs -> Kinds]
    /\ MaxAttempts \in Nat
    /\ None \notin Docs \cup Calls \cup Orgs \cup Names \cup Slugs /\ None \notin Bodies
    /\ \A r \in Requests :
          /\ r.do \in {"save", "update", "remove", "sync"}
          /\ r.doc \in Docs
          /\ r.organization \in Orgs
          /\ DOMAIN r.body \subseteq DOMAIN Values
          /\ \A f \in DOMAIN r.body : r.body[f] \in Values[f]
          /\ r.do = "save" => DOMAIN r.body = DOMAIN Values

VARIABLES
    stored,   \* the documents, None when there is none with the _id
    indices,  \* the search indices that exist, one for each model
    entry,    \* the document that the search service holds under each _id
    pc,       \* where each handler is
    request,  \* what it was asked for
    copy,     \* the document it saves, with the change made to it, or the
              \* documents it has read to index them
    count,    \* the candidates for a slug it has tried, or the collections it
              \* has taken a removed document off
    alone,    \* history: handlers that have had no other beside them
    kept,     \* history: the documents each has had to itself
    loose,    \* history: documents removed by a handler that failed, or while
              \* another was about to write a reference to them, and those that
              \* a document removed meanwhile was about to refer to
    drifted   \* history: documents on which handlers overlapped, or one failed
              \* between the database and the search service

esVars == <<indices, entry>>
history == <<alone, kept, loose, drifted>>
vars == <<stored, esVars, pc, request, copy, count, history>>

-----------------------------------------------------------------------------

\* The models of the documents that a model lists.
Lists == [Layer |-> {"Layer"}, Widget |-> {"Layer"},
          Dashboard |-> {"Layer", "Widget"}]

\* Mistake: widgets keep a layer that is removed.
ListedByOthers ==
    [Layer |-> <<"Dashboard", "Layer">>, Widget |-> <<"Dashboard">>,
     Dashboard |-> <<>>]

\* The models that list it, in the order in which a removal cleans them.
ListedBy ==
    [Layer |-> <<"Widget", "Dashboard", "Layer">>, Widget |-> <<"Dashboard">>,
     Dashboard |-> <<>>]

Entries == [organization : Orgs, name : Names] \cup {None}
NoRequest == [do |-> "none"]

docs == {d \in Docs : stored[d] # None}
Idle == {"idle", "over"}
Doc(c) == request[c].doc

\* The documents that a request is about, those handler c works on, and those
\* some handler works on.
About(r) == IF r.do = "sync" THEN {d \in Docs : Kind[d] = Kind[r.doc]} ELSE {r.doc}
Works(c) == IF pc[c] \in Idle THEN {} ELSE About(request[c])
Busy == UNION {Works(c) : c \in Calls}

\* The part of a document that is searched.
Searched(body) == IF body = None THEN None
                  ELSE [organization |-> body.organization, name |-> body.name]

\* The unique index: a slug is taken in a model and a workspace.
Taken(d, o, slug) ==
    \E x \in docs \ {d} : /\ Kind[x] = Kind[d]
                          /\ stored[x].organization = o
                          /\ stored[x].slug = slug

\* A reference is to a stored document of the same workspace.
Holds(d, r) == r \in docs /\ stored[r].organization = stored[d].organization

Init ==
    /\ \E made \in [Docs -> {r \in Requests : r.do = "save"} \cup {None}],
          slug \in [Docs -> Slugs] :
          /\ \A d \in Docs : made[d] # None => made[d].doc = d
          /\ \A d \in Docs : made[d] = None => slug[d] = 0
          /\ stored = [d \in Docs |->
                IF made[d] = None THEN None
                ELSE [organization |-> made[d].organization,
                      name |-> made[d].body.name, refs |-> made[d].body.refs,
                      slug |-> slug[d]]]
    /\ \A d \in docs : /\ \A r \in stored[d].refs : Holds(d, r) /\ Kind[r] \in Lists[Kind[d]]
                       /\ ~Taken(d, stored[d].organization, stored[d].slug)
    /\ indices \in SUBSET Kinds
    /\ \A d \in docs : Kind[d] \in indices
    /\ entry = [d \in Docs |-> Searched(stored[d])]
    /\ pc = [c \in Calls |-> "idle"]
    /\ request = [c \in Calls |-> NoRequest]
    /\ copy = [c \in Calls |-> None]
    /\ count = [c \in Calls |-> 0]
    /\ alone = {}
    /\ kept = [c \in Calls |-> {}]
    /\ loose = {}
    /\ drifted = {}

-----------------------------------------------------------------------------
(* Requests.                                                               *)

Start(c, r, to, body) ==
    /\ pc[c] = "idle"
    /\ pc' = [pc EXCEPT ![c] = to]
    /\ request' = [request EXCEPT ![c] = r]
    /\ copy' = [copy EXCEPT ![c] = body]
    /\ alone' = IF \A x \in Calls : pc[x] \in Idle THEN {c} ELSE {}
    /\ kept' = [x \in Calls |-> IF x = c THEN About(r) \ Busy
                                ELSE kept[x] \ About(r)]
    /\ drifted' = drifted \cup (About(r) \cap Busy)
    /\ UNCHANGED <<stored, esVars, count, loose>>

\* Mistake: a document that comes without a slug stays without one.
FirstStepWithSlug(body) == "validate"

\* pre('validate'): a document without a slug is given one.
FirstStep(body) == IF body.slug = None THEN "slug" ELSE "validate"

\* POST.
Save(c, r) ==
    LET body == [organization |-> r.organization, name |-> r.body.name,
                 refs |-> r.body.refs, slug |-> r.body.slug] IN
    /\ r.do = "save"
    /\ Start(c, r, FirstStep(body), body)

\* The fields of a request that differ from those of the document.
Modified(r) == {f \in DOMAIN r.body : r.body[f] # stored[r.doc][f]}

\* PUT, of a document of the workspace.
Update(c, r) ==
    LET new == [f \in Modified(r) |-> r.body[f]]
        old == stored[r.doc]
        body == [organization |-> old.organization,
                 name |-> IF "name" \in Modified(r) THEN new["name"] ELSE old.name,
                 refs |-> IF "refs" \in Modified(r) THEN new["refs"] ELSE old.refs,
                 slug |-> IF "slug" \in Modified(r) THEN new["slug"] ELSE old.slug]
    IN
    /\ r.do = "update"
    /\ r.doc \in docs
    /\ old.organization = r.organization
    /\ Start(c, [r EXCEPT !.body = new], FirstStep(body), body)

\* DELETE, of a document of the workspace.
Remove(c, r) ==
    /\ r.do = "remove"
    /\ r.doc \in docs
    /\ stored[r.doc].organization = r.organization
    /\ Start(c, r, "remove", None)

\* The part of /operations/reindex for one model.
Reindex(c, r) ==
    /\ r.do = "sync"
    /\ Start(c, r, "hasOld", None)

\* A handler goes on, or is over and forgets its request.
Goes(c, from, to, n, body) ==
    /\ pc[c] = from
    /\ pc' = [pc EXCEPT ![c] = to]
    /\ request' = IF to = "over" THEN [request EXCEPT ![c] = NoRequest] ELSE request
    /\ copy' = [copy EXCEPT ![c] = IF to = "over" THEN None ELSE body]
    /\ count' = [count EXCEPT ![c] = IF to = "over" THEN 0 ELSE n]
    /\ UNCHANGED <<alone, kept>>

Moves(c, from, to) == Goes(c, from, to, 0, copy[c])

-----------------------------------------------------------------------------
(* The hooks around a save, in their order.                                *)

\* Mistake: the slugs of all workspaces are searched.
ExistsAnywhere(c, slug) ==
    \E x \in docs : Kind[x] = Kind[Doc(c)] /\ stored[x].slug = slug

\* isUnique, which does not leave out the document itself.
Exists(c, slug) ==
    \E x \in docs : /\ Kind[x] = Kind[Doc(c)]
                    /\ stored[x].organization = copy[c].organization
                    /\ stored[x].slug = slug

\* getUniqueSlug, one candidate at a time.  The attempts are counted before
\* the last candidate is tested, so that it is refused, unique or not.
TrySlug(c) ==
    LET unique == ~Exists(c, count[c])
        last == count[c] = MaxAttempts IN
    /\ pc[c] = "slug" /\ ~last
    /\ IF unique THEN Goes(c, "slug", "validate", 0, [copy[c] EXCEPT !.slug = count[c]])
                 ELSE Goes(c, "slug", "slug", count[c] + 1, copy[c])
    /\ UNCHANGED <<stored, esVars, loose, drifted>>

NoSlug(c) ==
    /\ Moves(c, "slug", "over")
    /\ count[c] = MaxAttempts
    /\ UNCHANGED <<stored, esVars, loose, drifted>>

WritesRefs(c) == "refs" \in DOMAIN request[c].body

\* The documents that are listed anew exist, each in a model that may be.
Validate(c) ==
    /\ Moves(c, "validate",
             IF WritesRefs(c) => copy[c].refs \subseteq
                   {x \in docs : Kind[x] \in Lists[Kind[Doc(c)]]}
             THEN "check" ELSE "over")
    /\ UNCHANGED <<stored, esVars, loose, drifted>>

\* checkWorkspaceRefs, of every reference that is found.
AreOfWorkspace(c) ==
    \A x \in copy[c].refs \cap docs : stored[x].organization = copy[c].organization

CheckRefs(c) ==
    /\ Moves(c, "check", IF AreOfWorkspace(c) THEN "write" ELSE "over")
    /\ UNCHANGED <<stored, esVars, loose, drifted>>

\* A document is inserted unless its _id or its slug is taken.  An update
\* writes the fields that changed, and fails when the document is gone.
Refused(c) ==
    \/ (Doc(c) \in docs) = (request[c].do = "save")
    \/ Taken(Doc(c), copy[c].organization, copy[c].slug)

Written(c) ==
    IF request[c].do = "save" THEN copy[c]
    ELSE LET old == stored[Doc(c)] IN
         [old EXCEPT
            !.name = IF "name" \in DOMAIN request[c].body THEN copy[c].name ELSE @,
            !.refs = IF WritesRefs(c) THEN copy[c].refs ELSE @,
            !.slug = IF "slug" \in DOMAIN request[c].body THEN copy[c].slug ELSE @]

WriteFails(c) ==
    /\ Moves(c, "write", "over")
    /\ Refused(c)
    /\ UNCHANGED <<stored, esVars, loose, drifted>>

Write(c) ==
    /\ Moves(c, "write", "hasIndex")
    /\ ~Refused(c)
    /\ stored' = [stored EXCEPT ![Doc(c)] = Written(c)]
    /\ UNCHANGED <<esVars, loose, drifted>>

\* Post-save: the document as it was saved is indexed.
HasIndex(c) ==
    /\ Moves(c, "hasIndex",
             IF Kind[Doc(c)] \in indices THEN "index" ELSE "createIndex")
    /\ UNCHANGED <<stored, esVars, loose, drifted>>

CreateIndex(c) ==
    /\ Moves(c, "createIndex", "index")
    /\ Kind[Doc(c)] \notin indices
    /\ indices' = indices \cup {Kind[Doc(c)]}
    /\ UNCHANGED <<stored, entry, loose, drifted>>

\* The search service creates an index that is missing.
IndexById(c) ==
    /\ Moves(c, "index", "over")
    /\ entry' = [entry EXCEPT ![Doc(c)] = Searched(copy[c])]
    /\ indices' = indices \cup {Kind[Doc(c)]}
    /\ UNCHANGED <<stored, loose, drifted>>

-----------------------------------------------------------------------------
(* Removal: the document, then its entry, then the references to it.       *)

\* Handlers that are about to write references.
Referring ==
    {c \in Calls : pc[c] \in {"slug", "validate", "check", "write"} /\ WritesRefs(c)}

\* The references that a handler may yet write, though d is removed: one to d
\* that was validated, and those of d, should its _id be taken again.
AboutToRefer(c, d) ==
    {r \in copy[c].refs : \/ r = d /\ pc[c] \in {"check", "write"}
                          \/ Doc(c) = d /\ request[c].do = "update"}

RemoveDoc(c) ==
    LET d == Doc(c) IN
    /\ Moves(c, "remove", "unindex")
    /\ stored' = [stored EXCEPT ![d] = None]
    /\ loose' = loose \cup UNION {AboutToRefer(x, d) : x \in Referring}
    /\ UNCHANGED <<esVars, drifted>>

\* It fails when there is no entry to remove.
RemoveById(c) ==
    LET d == Doc(c) IN
    /\ pc[c] = "unindex" /\ entry[d] # None
    /\ Moves(c, "unindex", IF ListedBy[Kind[d]] = <<>> THEN "over" ELSE "pull")
    /\ entry' = [entry EXCEPT ![d] = None]
    /\ UNCHANGED <<stored, indices, loose, drifted>>

\* updateMany: the document is taken off the lists of one collection.
RemoveRefLinks(c) ==
    LET d == Doc(c)
        lists == ListedBy[Kind[d]] IN
    /\ pc[c] = "pull"
    /\ Goes(c, "pull", IF count[c] + 1 = Len(lists) THEN "over" ELSE "pull",
            count[c] + 1, None)
    /\ stored' = [x \in Docs |->
          IF x \in docs /\ Kind[x] = lists[count[c] + 1]
          THEN [stored[x] EXCEPT !.refs = @ \ {d}] ELSE stored[x]]
    /\ UNCHANGED <<esVars, loose, drifted>>

-----------------------------------------------------------------------------
(* esSync: the index is deleted, created, and filled with the documents.   *)

HasOldIndex(c) ==
    /\ Moves(c, "hasOld",
             IF Kind[Doc(c)] \in indices THEN "deleteIndex" ELSE "createNew")
    /\ UNCHANGED <<stored, esVars, loose, drifted>>

DeleteIndex(c) ==
    /\ Moves(c, "deleteIndex", "createNew")
    /\ Kind[Doc(c)] \in indices
    /\ indices' = indices \ {Kind[Doc(c)]}
    /\ entry' = [d \in Docs |-> IF Kind[d] = Kind[Doc(c)] THEN None ELSE entry[d]]
    /\ UNCHANGED <<stored, loose, drifted>>

CreateNewIndex(c) ==
    /\ Moves(c, "createNew", "find")
    /\ Kind[Doc(c)] \notin indices
    /\ indices' = indices \cup {Kind[Doc(c)]}
    /\ UNCHANGED <<stored, entry, loose, drifted>>

FindAll(c) ==
    /\ pc[c] = "find"
    /\ Goes(c, "find", "bulk", 0, [d \in About(request[c]) |-> Searched(stored[d])])
    /\ UNCHANGED <<stored, esVars, loose, drifted>>

\* Mistake: the index is created anew, and filled by the saves to come.
NotIndexed(c) == entry

BulkIndexed(c) == [d \in Docs |->
    IF d \in DOMAIN copy[c] /\ copy[c][d] # None THEN copy[c][d] ELSE entry[d]]

\* A reindex that succeeds mends the documents that it had to itself.
BulkIndex(c) ==
    /\ Moves(c, "bulk", "over")
    /\ entry' = BulkIndexed(c)
    /\ indices' = IF \A d \in DOMAIN copy[c] : copy[c][d] = None THEN indices
                  ELSE indices \cup {Kind[Doc(c)]}
    /\ drifted' = drifted \ kept[c]
    /\ UNCHANGED <<stored, loose>>

-----------------------------------------------------------------------------

\* Steps after which a handler leaves the search service, or the lists of
\* other documents, behind the database if it goes no further.
BehindSearch == {"hasIndex", "createIndex", "index", "unindex",
                 "createNew", "find", "bulk"}
BehindLists == {"unindex", "pull"}

\* A call to the database or to the search service fails, a hook refuses the
\* version of an edit, or the process stops.
CallFails(c) ==
    /\ pc[c] \notin Idle
    /\ Moves(c, pc[c], "over")
    /\ drifted' = IF pc[c] \in BehindSearch THEN drifted \cup About(request[c])
                  ELSE drifted
    /\ loose' = IF pc[c] \in BehindLists THEN loose \cup {Doc(c)} ELSE loose
    /\ UNCHANGED <<stored, esVars>>

Next == \E c \in Calls :
    \/ \E r \in Requests : Save(c, r) \/ Update(c, r) \/ Remove(c, r) \/ Reindex(c, r)
    \/ TrySlug(c) \/ NoSlug(c) \/ Validate(c) \/ CheckRefs(c)
    \/ WriteFails(c) \/ Write(c) \/ HasIndex(c) \/ CreateIndex(c) \/ IndexById(c)
    \/ RemoveDoc(c) \/ RemoveById(c) \/ RemoveRefLinks(c)
    \/ HasOldIndex(c) \/ DeleteIndex(c) \/ CreateNewIndex(c)
    \/ FindAll(c) \/ BulkIndex(c)
    \/ CallFails(c)

Spec == Init /\ [][Next]_vars

-----------------------------------------------------------------------------
(* Properties.                                                             *)

Steps == Idle \cup {"slug", "validate", "check", "write", "hasIndex",
    "createIndex", "index", "remove", "unindex", "pull", "hasOld",
    "deleteIndex", "createNew", "find", "bulk"}

\* Every variable has its type, a stored document has a slug, and only a
\* handler that reads for an index holds more than one document.
TypeOK ==
    /\ stored \in [Docs -> [organization : Orgs, name : Names,
                            refs : SUBSET Docs, slug : Slugs] \cup {None}]
    /\ indices \subseteq Kinds
    /\ DOMAIN entry = Docs
    /\ \A d \in Docs : entry[d] = None \/ entry[d] \in Entries
    /\ pc \in [Calls -> Steps]
    /\ DOMAIN request = Calls /\ DOMAIN copy = Calls
    /\ count \in [Calls -> Nat]
    /\ alone \subseteq Calls
    /\ kept \in [Calls -> SUBSET Docs]
    /\ loose \subseteq Docs
    /\ drifted \subseteq Docs
    /\ \A c \in Calls :
          /\ (pc[c] \in Idle) = (request[c] = NoRequest)
          /\ pc[c] \in {"slug", "validate", "check", "write", "hasIndex",
                        "createIndex", "index"} => copy[c] \in Bodies
          /\ pc[c] = "pull" => count[c] < Len(ListedBy[Kind[Doc(c)]])

\* The collections that have yet to be cleaned of a removed document.
ToClean(d) ==
    UNION {{ListedBy[Kind[d]][i] : i \in count[c] + 1 .. Len(ListedBy[Kind[d]])} :
           c \in {x \in Calls : pc[x] \in BehindLists /\ Doc(x) = d}}

\* Whatever handlers overlap, a document refers to a stored document of its
\* own workspace: else that one is being removed and the list is yet to be
\* cleaned, or its removal failed or passed a write of the reference.  The
\* hooks do not lock: validation, the check of the workspace, the write and
\* the three updates of a removal are calls of their own.
ReferencesHold ==
    \A d \in docs : \A r \in stored[d].refs :
        Holds(d, r) \/ r \in loose \/ Kind[d] \in ToClean(r)

\* The search service holds what the database holds of every document that no
\* handler works on: but of those on which handlers overlapped or one failed
\* half way, until a reindex has had them to itself.
IndexIsCurrent ==
    \A d \in Docs \ (Busy \cup drifted) : entry[d] = Searched(stored[d])

\* A handler alone is given a slug as long as one of the candidates is free,
\* but for the last, and the unique index never refuses the one it is given.
SlugIsFound ==
    [][\A c \in alone :
          /\ NoSlug(c) => \A n \in 0 .. MaxAttempts - 1 :
                             \E d \in docs : /\ stored[d].slug = n
                                             /\ Kind[d] = Kind[Doc(c)]
                                             /\ stored[d].organization = copy[c].organization
          /\ WriteFails(c) => \/ request[c].body.slug # None
                              \/ Doc(c) \in docs]_vars
=============================================================================
