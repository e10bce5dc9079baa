------------------------------ MODULE Locations ------------------------------
(***************************************************************************)
(* The Location collection: versions of its documents, and the references  *)
(* that collections keep to their members.                                 *)
(*                                                                         *)
(* A handler loads a document, changes the copy, and saves or removes it.  *)
(* The hooks of the model run around the write: they validate the members, *)
(* compare the version the client sent, count the edit in the version,     *)
(* and take a location that is not public, or is gone, off the lists of    *)
(* members.  Each is a call to the database of its own, so handlers        *)
(* interleave between any two of them, and any of them may fail.           *)
(*                                                                         *)
(* Layers, widgets and dashboards share these hooks, but for the one that  *)
(* runs after a save.  The workspace of a document stays the one it was    *)
(* created in, as it does when requests name one group each; a service     *)
(* account that names several, and moves a document, is left out.          *)
(***************************************************************************)
EXTENDS Naturals, FiniteSets

CONSTANTS
    Docs,     \* the _ids of locations
    Calls,    \* handlers
    Orgs,     \* workspaces
    Changes,  \* the bodies of requests: a value for some of the fields
    None      \* no location, version or edit

Fields == [published : BOOLEAN, publicResource : BOOLEAN,
           locations : SUBSET Docs]

ASSUME LocationsAssumption ==
    /\ None \notin Docs \cup Calls \cup Nat
    /\ \A change \in Changes :
          /\ DOMAIN change \subseteq
                {"name", "published", "publicResource", "locations"}
          /\ "published" \in DOMAIN change => change["published"] \in BOOLEAN
          /\ "publicResource" \in DOMAIN change =>
                change["publicResource"] \in BOOLEAN
          /\ "locations" \in DOMAIN change => change["locations"] \subseteq Docs

VARIABLES
    docs,          \* the documents that exist
    fields,        \* the fields of each document
    organization,  \* its workspace
    version,       \* its version
    arrayVersion,  \* its __v, by which Mongoose guards its arrays
    pc,            \* where each handler is
    target,        \* the document it works on
    change,        \* what the request changes
    sent,          \* the version the client sent
    loaded,        \* the copy of the document
    base,          \* history: what the client had read of the document
    edit,          \* history: the handler that last edited each document
    disturbed,     \* history: documents on which handlers overlapped, or
                   \* one stopped between its write and its last hook
    removed        \* history: documents that were removed, once or more

dbVars == <<docs, fields, organization, version, arrayVersion>>
callVars == <<target, change, sent, loaded, base>>
vars == <<dbVars, pc, callVars, edit, disturbed, removed>>

-----------------------------------------------------------------------------

Draft == [published |-> FALSE, publicResource |-> FALSE, locations |-> {}]
NoChange == [f \in {} |-> None]
Copies == [isNew : BOOLEAN, fields : Fields, organization : Orgs,
           version : Nat, arrayVersion : Nat]
NoDoc == [isNew |-> FALSE, fields |-> Draft, organization |-> None,
          version |-> 0, arrayVersion |-> 0]
NoBase == [version |-> None, edit |-> None, rest |-> FALSE]

\* A request is over; a client that has read a document may yet update it.
Ended == {"idle", "read", "over"}
SavePC == {"validate", "check", "refs", "inc", "write", "pull"}
RemovePC == {"remove", "clean"}

\* The documents a request is about.
Touched(d, chg) ==
    {d} \cup (IF "locations" \in DOMAIN chg THEN chg["locations"] ELSE {})
Busy(d) ==
    \E c \in Calls : pc[c] \notin Ended /\ d \in Touched(target[c], change[c])

\* No edit of d has been counted in its version and not been written.
AtRest(d) == \A c \in Calls : ~(pc[c] = "write" /\ target[c] = d)

\* Document r with the fields F of change chg.
With(r, chg, F) ==
    [published |-> IF "published" \in F THEN chg["published"] ELSE r.published,
     publicResource |-> IF "publicResource" \in F THEN chg["publicResource"]
                        ELSE r.publicResource,
     locations |-> IF "locations" \in F THEN chg["locations"] ELSE r.locations]

\* The copy with the change applied, and the fields that differ from what was
\* loaded.
Saved(c) == With(loaded[c].fields, change[c], DOMAIN change[c])
Effective(c) ==
    {f \in DOMAIN change[c] :
        f = "name" \/ change[c][f] # loaded[c].fields[f]}

\* Loading a collection computes the shape of its members, which counts as a
\* modification.
IsModified(c) ==
    \/ loaded[c].isNew
    \/ Effective(c) # {}
    \/ sent[c] \notin {None, loaded[c].version}
    \/ loaded[c].fields.locations # {}

\* The state of a document at rest: a public resource is published, and the
\* members of a collection exist, of its workspace or public.
MayRefer(o, m) == organization[m] = o \/ fields[m].publicResource

Consistent(d) ==
    /\ fields[d].publicResource => fields[d].published
    /\ \A m \in fields[d].locations : m \in docs /\ MayRefer(organization[d], m)

Init ==
    /\ docs \in SUBSET Docs
    /\ fields \in [Docs -> Fields]
    /\ organization \in [Docs -> Orgs]
    /\ \A d \in docs : Consistent(d)
    /\ \A d \in Docs \ docs : fields[d] = Draft
    /\ version = [d \in Docs |-> 0]
    /\ arrayVersion = [d \in Docs |-> 0]
    /\ pc = [c \in Calls |-> "idle"]
    /\ target = [c \in Calls |-> None]
    /\ change = [c \in Calls |-> NoChange]
    /\ sent = [c \in Calls |-> None]
    /\ loaded = [c \in Calls |-> NoDoc]
    /\ base = [c \in Calls |-> NoBase]
    /\ edit = [d \in Docs |-> None]
    /\ disturbed = {}
    /\ removed = {}

-----------------------------------------------------------------------------
(* Requests.                                                               *)

Start(c, d, to, chg, v, copy) ==
    /\ pc' = [pc EXCEPT ![c] = to]
    /\ target' = [target EXCEPT ![c] = d]
    /\ change' = [change EXCEPT ![c] = chg]
    /\ sent' = [sent EXCEPT ![c] = v]
    /\ loaded' = [loaded EXCEPT ![c] = copy]
    /\ disturbed' = disturbed \cup {x \in Touched(d, chg) : Busy(x)}
    /\ UNCHANGED <<dbVars, edit, removed>>

Copy(d) == [isNew |-> FALSE, fields |-> fields[d],
            organization |-> organization[d], version |-> version[d],
            arrayVersion |-> arrayVersion[d]]

\* A client reads a document that it means to update.
Read(c, d) ==
    /\ pc[c] = "idle"
    /\ d \in docs
    /\ pc' = [pc EXCEPT ![c] = "read"]
    /\ target' = [target EXCEPT ![c] = d]
    /\ base' = [base EXCEPT ![c] = [version |-> version[d], edit |-> edit[d],
                                    rest |-> AtRest(d)]]
    /\ UNCHANGED <<dbVars, change, sent, loaded, edit, disturbed, removed>>

\* PUT, with the version the client read or with none.
Update(c, d, chg) ==
    /\ d \in docs
    /\ \/ pc[c] = "idle"
       \/ pc[c] = "read" /\ target[c] = d
    /\ Start(c, d, "validate", chg, base[c].version, Copy(d))
    /\ UNCHANGED base

\* POST, of a generated _id or one that the client chose.
Save(c, d, o, chg) ==
    /\ pc[c] = "idle"
    /\ Start(c, d, "validate", chg, None,
             [NoDoc EXCEPT !.isNew = TRUE, !.organization = o])
    /\ UNCHANGED base

\* DELETE.
Remove(c, d) ==
    /\ pc[c] = "idle"
    /\ d \in docs
    /\ Start(c, d, "remove", NoChange, None, Copy(d))
    /\ UNCHANGED base

-----------------------------------------------------------------------------
(* The hooks around a save, in their order.                                *)

\* A handler goes on, or is over and forgets its request.
Moves(c, from, to) ==
    /\ pc[c] = from
    /\ pc' = [pc EXCEPT ![c] = to]
    /\ IF to # "over" THEN UNCHANGED callVars
       ELSE /\ target' = [target EXCEPT ![c] = None]
            /\ change' = [change EXCEPT ![c] = NoChange]
            /\ sent' = [sent EXCEPT ![c] = None]
            /\ loaded' = [loaded EXCEPT ![c] = NoDoc]
            /\ base' = [base EXCEPT ![c] = NoBase]

\* The validators: a public resource is published, the members exist.
Validate(c) ==
    /\ Moves(c, "validate",
             IF /\ Saved(c).publicResource => Saved(c).published
                /\ Saved(c).locations \subseteq docs
             THEN "check" ELSE "over")
    /\ UNCHANGED <<dbVars, edit, disturbed, removed>>

\* A client that sends no version stands by the one that was loaded.
ClientVersion(c) == IF sent[c] = None THEN loaded[c].version ELSE sent[c]

\* Mistake: an older version than the stored one is accepted.
CheckNotNewer(c) ==
    /\ Moves(c, "check",
             IF target[c] \notin docs \/ ClientVersion(c) <= version[target[c]]
             THEN "refs" ELSE "over")
    /\ UNCHANGED <<dbVars, edit, disturbed, removed>>

\* optimisticVersionControlOnUpdateMw, which compares the version of the copy.
CheckVersion(c) ==
    /\ Moves(c, "check",
             IF target[c] \notin docs \/ ClientVersion(c) = version[target[c]]
             THEN "refs" ELSE "over")
    /\ UNCHANGED <<dbVars, edit, disturbed, removed>>

\* checkRefLinksOnUpdateMw: the members are of the workspace, or public.
CheckRefs(c) ==
    /\ Moves(c, "refs",
             IF \A m \in Saved(c).locations \cap docs :
                    MayRefer(loaded[c].organization, m)
             THEN "inc" ELSE "over")
    /\ UNCHANGED <<dbVars, edit, disturbed, removed>>

\* Mistake: only the edits of clients that send a version are counted.
IncSentVersion(c) ==
    /\ Moves(c, "inc", "write")
    /\ version' = IF IsModified(c) /\ target[c] \in docs /\ sent[c] # None
                  THEN [version EXCEPT ![target[c]] = @ + 1] ELSE version
    /\ UNCHANGED <<docs, fields, organization, arrayVersion, edit, disturbed,
                   removed>>

\* versionIncOnUpdateMw, on the stored document.
IncVersion(c) ==
    /\ Moves(c, "inc", "write")
    /\ version' = IF IsModified(c) /\ target[c] \in docs
                  THEN [version EXCEPT ![target[c]] = @ + 1] ELSE version
    /\ UNCHANGED <<docs, fields, organization, arrayVersion, edit, disturbed,
                   removed>>

\* A new document is inserted, unless there is one with its _id.
Insert(c) ==
    LET d == target[c] IN
    /\ loaded[c].isNew
    /\ Moves(c, "write", IF d \in docs THEN "over" ELSE "pull")
    /\ IF d \in docs
       THEN UNCHANGED <<dbVars, edit>>
       ELSE /\ docs' = docs \cup {d}
            /\ fields' = [fields EXCEPT ![d] = Saved(c)]
            /\ organization' = [organization EXCEPT ![d] = loaded[c].organization]
            /\ version' = [version EXCEPT ![d] = 0]
            /\ arrayVersion' = [arrayVersion EXCEPT ![d] = 0]
            /\ edit' = [edit EXCEPT ![d] = c]
    /\ UNCHANGED <<disturbed, removed>>

\* Mistake: __v is not compared.
RefusedIfGone(c) == target[c] \notin docs

\* An update writes the fields that changed.  One that writes the list of
\* members is refused when __v is not the one that was loaded, and one whose
\* document is gone fails.
Refused(c) ==
    \/ target[c] \notin docs
    \/ /\ "locations" \in Effective(c)
       /\ arrayVersion[target[c]] # loaded[c].arrayVersion

Write(c) ==
    LET d == target[c] IN
    /\ ~loaded[c].isNew
    /\ Moves(c, "write", IF Refused(c) THEN "over" ELSE "pull")
    /\ IF Refused(c)
       THEN UNCHANGED <<fields, version, arrayVersion, edit>>
       ELSE /\ fields' = [fields EXCEPT ![d] = With(@, change[c], Effective(c))]
            /\ version' = IF sent[c] \in {None, loaded[c].version} THEN version
                          ELSE [version EXCEPT ![d] = sent[c]]
            /\ arrayVersion' = IF "locations" \in Effective(c)
                               THEN [arrayVersion EXCEPT ![d] = @ + 1]
                               ELSE arrayVersion
            /\ edit' = IF Effective(c) = {} THEN edit ELSE [edit EXCEPT ![d] = c]
    /\ UNCHANGED <<docs, organization, disturbed, removed>>

\* updateMany: m is taken off every list of members.
Pull(m) ==
    fields' = [d \in Docs |-> [fields[d] EXCEPT !.locations = @ \ {m}]]

\* Mistake: a location that is published stays a member, public or not.
PullUnpublished(c) ==
    /\ Moves(c, "pull", "over")
    /\ IF Saved(c).published THEN UNCHANGED fields ELSE Pull(target[c])
    /\ UNCHANGED <<docs, organization, version, arrayVersion, edit, disturbed,
                   removed>>

\* removeRefLinksOnUpdateMw, after the search document is written.
PullUpdated(c) ==
    /\ Moves(c, "pull", "over")
    /\ IF Saved(c).published /\ Saved(c).publicResource
       THEN UNCHANGED fields
       ELSE Pull(target[c])
    /\ UNCHANGED <<docs, organization, version, arrayVersion, edit, disturbed,
                   removed>>

-----------------------------------------------------------------------------
(* Removal.                                                                *)

RemoveDoc(c) ==
    /\ Moves(c, "remove", "clean")
    /\ docs' = docs \ {target[c]}
    /\ removed' = removed \cup {target[c]}
    /\ fields' = [fields EXCEPT ![target[c]] = Draft]
    /\ UNCHANGED <<organization, version, arrayVersion, edit, disturbed>>

\* removeRefLinksOnDeleteMw, after the search document is removed.
PullRemoved(c) ==
    /\ Moves(c, "clean", "over")
    /\ Pull(target[c])
    /\ UNCHANGED <<docs, organization, version, arrayVersion, edit, disturbed,
                   removed>>

\* A call to the database or to the search service fails.
CallFails(c) ==
    /\ pc[c] \notin Ended
    /\ Moves(c, pc[c], "over")
    /\ disturbed' = IF pc[c] \in {"pull", "clean"}
                    THEN disturbed \cup {target[c]} ELSE disturbed
    /\ UNCHANGED <<dbVars, edit, removed>>

-----------------------------------------------------------------------------

Requests(c) ==
    \E d \in Docs :
       \/ Read(c, d)
       \/ Remove(c, d)
       \/ \E chg \in Changes :
             \/ Update(c, d, chg)
             \/ \E o \in Orgs : Save(c, d, o, chg)

Steps(c) ==
    \/ Validate(c) \/ CheckVersion(c) \/ CheckRefs(c) \/ IncVersion(c)
    \/ Insert(c) \/ Write(c) \/ PullUpdated(c)
    \/ RemoveDoc(c) \/ PullRemoved(c)
    \/ CallFails(c)

Next == \E c \in Calls : Requests(c) \/ Steps(c)

Spec == Init /\ [][Next]_vars

-----------------------------------------------------------------------------
(* What the hooks promise.                                                 *)

TypeOK ==
    /\ docs \subseteq Docs
    /\ fields \in [Docs -> Fields]
    /\ organization \in [Docs -> Orgs]
    /\ version \in [Docs -> Nat]
    /\ arrayVersion \in [Docs -> Nat]
    /\ pc \in [Calls -> Ended \cup SavePC \cup RemovePC]
    /\ target \in [Calls -> Docs \cup {None}]
    /\ change \in [Calls -> Changes \cup {NoChange}]
    /\ sent \in [Calls -> Nat \cup {None}]
    /\ loaded \in [Calls -> Copies \cup {NoDoc}]
    /\ base \in [Calls -> [version : Nat \cup {None},
                           edit : Calls \cup {None}, rest : BOOLEAN]]
    /\ edit \in [Docs -> Calls \cup {None}]
    /\ disturbed \subseteq Docs
    /\ removed \subseteq Docs

\* However edits overlap and fail, a version stands for one state of the
\* document: a client that read the document while no edit was between the
\* counting of its version and its write, and finds the version unchanged,
\* finds the last edit unchanged.
VersionIdentifiesEdit ==
    \A c \in Calls :
        LET d == target[c] IN
        base[c].rest /\ d \in docs \ removed /\ version[d] = base[c].version
            => edit[d] = base[c].edit

\* Where handlers came one after the other, an update sent with the version
\* that the client read writes over nothing but what the client read.
SerialUpdatesKeepEdits ==
    [][\A c \in Calls :
          /\ pc[c] = "write" /\ pc'[c] = "pull"
          /\ base[c].rest
          /\ target[c] \notin disturbed \cup removed
          => edit[target[c]] = base[c].edit]_vars

\* A list of members is written only over the list it was loaded with, less
\* members taken off since: of two updates of it that overlap one is refused,
\* also when the clients send no version.
ListWritesConflict ==
    [][\A c \in Calls :
          /\ pc[c] = "write" /\ pc'[c] = "pull" /\ ~loaded[c].isNew
          /\ "locations" \in Effective(c)
          /\ target[c] \notin removed
          => fields[target[c]].locations \subseteq loaded[c].fields.locations]_vars

\* Where the handlers on a collection and on a member came one after the
\* other, and have ended, the member exists, and is of the workspace of the
\* collection or public; and a public resource is published.
SerialConsistency ==
    \A k \in docs \ disturbed : ~Busy(k) =>
        /\ fields[k].publicResource => fields[k].published
        /\ \A m \in fields[k].locations \ disturbed : ~Busy(m) =>
              m \in docs /\ MayRefer(organization[k], m)

\* "Handles optimistic version control on updates using a version key"
\* (middlewares/index.ts:124): an update sent with the version that the client
\* read writes over nothing but what the client read.
VersionedUpdatesKeepEdits ==
    [][\A c \in Calls :
          pc[c] = "write" /\ pc'[c] = "pull" /\ sent[c] # None =>
              edit[target[c]] = base[c].edit]_vars
=============================================================================
