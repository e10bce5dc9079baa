----------------------------- MODULE Requests -------------------------------
(***************************************************************************)
(* One instance of a function behind the API.  Lambda gives it one request *)
(* at a time; its connections live on from one request to the next.  A     *)
(* request passes the shared context, the authentication, the validation,  *)
(* the guards of its route and then the steps of its handler.  Each stage  *)
(* passes it on, has it answered with an error, or leaves it without an    *)
(* answer until the platform ends the instance.                            *)
(***************************************************************************)
EXTENDS Routes, FiniteSets

CONSTANTS
    Workspaces, \* the names of the primary groups
    Callers,    \* who may call: [kind, groups, permissions]
    Asked,      \* the values of the query parameter "group", as sets of names
    Handlers,   \* the functions under check
    Faults,     \* what may fail outside: "connection", "keys"
    Public,     \* PUBLIC_ORG, the workspace of anonymous callers, or None
    Within,     \* the pairs of group names of which the second contains the first
    None        \* no value

Documents == [organization : Workspaces, published : BOOLEAN, public : BOOLEAN]

\* The names of groups that a request may come to know.
Names == {"*", Public} \cup (UNION Asked) \cup (UNION {c.groups : c \in Callers})

ASSUME RequestsAssumption ==
    /\ \A c \in Callers : c.kind \in {"anonymous", "invalid", "service", "token"}
    /\ \A a \in Asked : IsFiniteSet(a)
    /\ Handlers \subseteq Functions
    /\ Faults \subseteq {"connection", "keys"}
    /\ None \notin Documents /\ \A names \in SUBSET Names : names # None
    /\ {None, "*"} \cap Workspaces = {}

VARIABLES
    handler,    \* the function of this instance
    conn,       \* the shared context
    stage,      \* where the request is
    request,    \* its caller, route and "group"
    service,    \* res.locals.isServiceAccount
    anonymous,  \* res.locals.isAnonymousAllowed
    groups,     \* req.groups
    todo,       \* the steps of the handler that are left
    filter,     \* the filter of the last call of the parser
    match,      \* what it asks of the documents to be populated
    seen,       \* the documents that the last query may return
    linked,     \* the documents that the queries may have populated
    doc         \* the document the handler holds

instance == <<handler, conn>>
locals == <<service, anonymous, groups>>
held == <<filter, match, seen, linked, doc>>
vars == <<instance, stage, request, locals, todo, held>>

\* Nothing is to be populated.
NoMatch == [docs |-> {}, own |-> FALSE]

NoRequest == [caller |-> None, route |-> None, group |-> {}]

Init ==
    /\ handler \in Handlers
    /\ conn = "closed"
    /\ stage = "idle" /\ request = NoRequest
    /\ service = FALSE /\ anonymous = FALSE /\ groups = None
    /\ todo = <<>> /\ filter = {} /\ match = NoMatch
    /\ seen = {} /\ linked = {} /\ doc = None

Passes(from, to) == stage = from /\ stage' = to

\* The request is over; the instance and its connections stay.
Over ==
    /\ stage' = "idle" /\ request' = NoRequest
    /\ service' = FALSE /\ anonymous' = FALSE /\ groups' = None
    /\ todo' = <<>> /\ filter' = {} /\ match' = NoMatch
    /\ seen' = {} /\ linked' = {} /\ doc' = None

-----------------------------------------------------------------------------
(* What comes before the handler.                                          *)

Receive(c, r, g) ==
    /\ Passes("idle", "context")
    /\ request' = [caller |-> c, route |-> r, group |-> g]
    /\ UNCHANGED <<instance, locals, todo, held>>

\* The first request of an instance opens the connections.  The promise of the
\* connection to MongoDB never settles when it fails.
Connect ==
    /\ stage = "context" /\ conn = "closed"
    /\ \/ conn' = "open"
       \/ "connection" \in Faults /\ conn' = "lost"
    /\ UNCHANGED <<handler, stage, request, locals, todo, held>>

\* Every request awaits the same promises.
\* Mistake: the failure is answered, and the instance keeps its connections.
WithoutConnectionAnswered == "refused"
WithoutConnection == "unanswered"

ContextHttp ==
    /\ stage = "context" /\ conn # "closed"
    /\ stage' = IF conn = "lost" THEN WithoutConnection
                ELSE IF handler.auth = "open" THEN "validate" ELSE "auth"
    /\ UNCHANGED <<instance, request, locals, todo, held>>

\* The error handler of the token check answers one kind of error; it neither
\* throws nor passes on any other.
JwtError(name) == IF name = "UnauthorizedError" THEN "refused" ELSE "unanswered"

\* The errors that checking the token of this caller may end with.
TokenErrors(c) ==
    (IF c.kind = "invalid" \/ (c.kind = "anonymous" /\ handler.auth = "auth")
     THEN {"UnauthorizedError"} ELSE {})
    \cup (IF c.kind \in {"invalid", "token"} /\ "keys" \in Faults
          THEN {"SigningKeyNotFoundError"} ELSE {})

\* A known key makes a service account; anyone else is checked for a token.
JwtRSA ==
    LET c == request.caller IN
    /\ stage = "auth" /\ handler.auth \in {"auth", "anonymous"}
    /\ service' = (c.kind = "service")
    /\ anonymous' = (c.kind # "service" /\ handler.auth = "anonymous" /\ Public # None)
    /\ \/ /\ c.kind \in {"service", "token"} \/ (c.kind = "anonymous" /\ handler.auth = "anonymous")
          /\ stage' = "validate"
       \/ \E e \in TokenErrors(c) : stage' = JwtError(e)
    /\ UNCHANGED <<instance, request, groups, todo, held>>

\* Operations are for holders of the key alone.
ApiKey ==
    /\ stage = "auth" /\ handler.auth = "system"
    /\ service' = (request.caller.kind = "service")
    /\ stage' = IF service' THEN "validate" ELSE "refused"
    /\ UNCHANGED <<instance, request, anonymous, groups, todo, held>>

\* Parameters and body are checked, and the first faults answered.
Validate ==
    /\ stage = "validate" /\ stage' \in {"groups", "refused"}
    /\ UNCHANGED <<instance, request, locals, todo, held>>

\* Mistake: nested groups count as primary.
KeepNestedGroups(names) == names

\* A group is primary when some other group of the token has its name inside.
RemoveNestedGroups(names) ==
    {n \in names : \E m \in names \ {n} : <<n, m>> \in Within}

PrimaryGroups == RemoveNestedGroups(request.caller.groups)

\* includeGroups: the handler gets every primary group of the token.
IncludeGroups ==
    /\ stage = "groups" /\ request.route.groups.by = "included"
    /\ IF request.caller.kind = "token"
       THEN stage' = "scopes" /\ groups' = PrimaryGroups
       ELSE stage' = "refused" /\ UNCHANGED groups
    /\ UNCHANGED <<instance, request, service, anonymous, todo, held>>

\* Mistake: several groups are let through on every route.
AdmittedTogether ==
    IF service THEN ~request.route.groups.services \/ request.group # {}
    ELSE IF request.caller.kind = "token"
         THEN request.group # {} /\ request.group \subseteq PrimaryGroups
         ELSE anonymous

\* What enforcePrimaryGroup admits: nothing is asked of a service account where
\* the route makes no provision for one, and its groups are not looked up.
Admitted ==
    LET options == request.route.groups IN
    IF service THEN ~options.services \/ request.group # {}
    ELSE IF request.caller.kind = "token"
         THEN /\ request.group # {} /\ request.group \subseteq PrimaryGroups
              /\ options.multiple \/ Cardinality(request.group) = 1
         ELSE anonymous

EnforcePrimaryGroup ==
    /\ stage = "groups" /\ request.route.groups.by = "primary"
    /\ IF Admitted
       THEN /\ stage' = "scopes"
            /\ groups' = IF service THEN (IF request.route.groups.services
                                          THEN request.group ELSE None)
                         ELSE IF request.caller.kind = "token" THEN request.group
                         ELSE {Public}
       ELSE stage' = "refused" /\ UNCHANGED groups
    /\ UNCHANGED <<instance, request, service, anonymous, todo, held>>

NoGroups ==
    /\ Passes("groups", "scopes") /\ request.route.groups.by = "anybody"
    /\ UNCHANGED <<instance, request, locals, todo, held>>

\* Mistake: every group goes on when one of them has the scope.
ScopedTogether(names) ==
    LET permissions == request.caller.permissions
        guards == request.route.guards
    IN IF \E g \in names \cup {"*"} :
            \A i \in DOMAIN guards : \E s \in guards[i] : <<g, s>> \in permissions
       THEN names ELSE {}

\* The groups for which a token satisfies every guard.  One with permissions of
\* the group "*" is looked up for that group, too.
Scoped(names) ==
    LET permissions == request.caller.permissions
        wild == {g \in {"*"} : \E p \in permissions : p[1] = g}
        guards == request.route.guards
    IN {g \in names \cup wild :
            \A i \in DOMAIN guards : \E s \in guards[i] : <<g, s>> \in permissions}

\* The guards of scopes: they narrow the groups to those with the scopes.
Enforce ==
    /\ stage = "scopes"
    /\ LET names == IF groups = None THEN {} ELSE groups
           left == Scoped(names)
       IN IF service \/ request.route.guards = <<>> \/ (request.caller.kind # "token" /\ anonymous)
          THEN stage' = "handler" /\ todo' = request.route.steps /\ UNCHANGED groups
          ELSE IF request.caller.kind # "token" \/ left = {}
          THEN stage' = "refused" /\ UNCHANGED <<groups, todo>>
          ELSE stage' = "handler" /\ todo' = request.route.steps /\ groups' = left
    /\ UNCHANGED <<instance, request, service, anonymous, held>>

-----------------------------------------------------------------------------
(* The query parser.                                                       *)

\* A condition of a filter, with the documents that meet it.
Condition(key, op, docs) == [key |-> key, op |-> op, docs |-> docs]

OfGroups == {d \in Documents : groups # None /\ d.organization \in groups}

\* What a handler may add as the filter "name".  One without a value is dropped.
\* The stored list of a collection may hold any locations.
Predefined(name) ==
    CASE name = "published" ->
            {{Condition("published", "$eq", {d \in Documents : d.published})}}
      [] name = "*.published" ->
            {{Condition("*.published", "$eq", {d \in Documents : d.published})}}
      [] name = "organization" ->
            {IF groups = None THEN {} ELSE {Condition("organization", "$in", OfGroups)}}
      [] name = "public" ->
            {IF groups = None THEN {} ELSE {Condition("organization", "$in", OfGroups)},
             {Condition("$or", "$or", OfGroups \cup {d \in Documents : d.public})}}
      [] name = "location" -> {{Condition("location", "$eq", {doc})}}
      [] name = "locations" ->
            {{Condition("location", "$eq", {doc})}, {Condition("location", "$in", Documents)}}

\* The filters of a handler, one choice for each of their names.
Additions(names) ==
    {UNION {f[n] : n \in names} :
        f \in {g \in [names -> UNION {Predefined(n) : n \in names}] :
                    \A n \in names : g[n] \in Predefined(n)}}

\* The conditions a client may send for the documents of the query.
ClientFilters ==
    {{}, {Condition("published", "$eq", {d \in Documents : ~d.published})}}
    \cup {{Condition("_id", "$eq", {d})} : d \in Documents}
    \cup {{Condition("organization", op, {d \in Documents : d.organization = w})} :
            op \in {"$eq", "$in"}, w \in Workspaces}

\* Mistake: the handler's conditions come first.
FilterSentLast(sent, added) ==
    sent \cup {a \in added : \A c \in sent : <<a.key, a.op>> # <<c.key, c.op>>}

\* Conditions are set one by one, under their key and operator: those that the
\* handler adds come last, and replace what a client sent.
Filter(sent, added) ==
    added \cup {c \in sent : \A a \in added : <<a.key, a.op>> # <<c.key, c.op>>}

\* Keys that begin with "*" are for the documents to be populated alone.
FilterWildcardKeys(conditions) == {c \in conditions : c.key # "*.published"}

\* What the documents to be populated have to meet: conditions with "*" and
\* those that the client sends for them, of which the later replaces the
\* earlier.  The later is the client's own when that names "*" before.
Merge(added, sent, own) ==
    LET wild == {a.docs : a \in added \ FilterWildcardKeys(added)}
        last == IF sent # {} /\ (own \/ wild = {}) THEN sent ELSE wild
    IN [docs |-> {d \in Documents : \A docs \in last : d \in docs},
        own |-> own /\ sent # {}]

\* What a client may send for the documents to be populated.
LinkFilters == {{}, {{d \in Documents : ~d.published}}}

Does(step) == stage = "handler" /\ todo # <<>> /\ Head(todo).do = step
Goes == stage' = "handler" /\ todo' = Tail(todo)
Fails == stage' = "refused" /\ UNCHANGED todo

\* One call of the parser, with the query string or with none.
Parse ==
    /\ Does("parse")
    /\ \E sent \in (IF Head(todo).query THEN ClientFilters ELSE {{}}),
          added \in Additions(Head(todo).filters) :
        /\ filter' = FilterWildcardKeys(Filter(sent, added))
        /\ \/ match' = NoMatch
           \/ /\ Head(todo).query
              /\ \E own \in BOOLEAN, links \in LinkFilters : match' = Merge(added, links, own)
    /\ Goes
    /\ UNCHANGED <<instance, request, locals, seen, linked, doc>>

\* A filter or a cursor that cannot be read.
ParseFails ==
    /\ Does("parse") /\ Head(todo).query
    /\ Fails
    /\ UNCHANGED <<instance, request, locals, held>>

-----------------------------------------------------------------------------
(* The steps of a handler.                                                 *)

Found == {d \in Documents : \A c \in filter : d \in c.docs}

\* A query populates what it found.
Populates == linked' = linked \cup match.docs

One ==
    /\ Does("one")
    /\ \/ \E d \in Found : doc' = d /\ seen' = {d} /\ Populates /\ Goes
       \/ Fails /\ UNCHANGED <<seen, linked, doc>>
    /\ UNCHANGED <<instance, request, locals, filter, match>>

\* A search narrows what is found, be it one that an earlier request for a
\* single document left in the parser of the router.
All ==
    /\ Does("all")
    /\ \/ seen' = Found /\ Populates /\ Goes
       \/ Fails /\ UNCHANGED <<seen, linked>>
    /\ UNCHANGED <<instance, request, locals, filter, match, doc>>

\* The _ids that were found before, unless the client sends another condition
\* on the _id, which replaces them.
ByIds ==
    /\ Does("ids")
    /\ LET ids == IF \E c \in filter : c.key = "_id" THEN Documents ELSE seen IN
       \/ seen' = ids \cap Found /\ Populates /\ Goes
       \/ Fails /\ UNCHANGED <<seen, linked>>
    /\ UNCHANGED <<instance, request, locals, filter, match, doc>>

\* aggregateCount without a filter.
CountAll ==
    /\ Does("everything")
    /\ \/ seen' = Documents /\ Goes
       \/ Fails /\ UNCHANGED seen
    /\ UNCHANGED <<instance, request, locals, filter, match, linked, doc>>

\* A new document, and one that is changed, go to the first of the groups; it
\* is read again for the answer.
Write ==
    /\ Does("insert") \/ Does("update")
    /\ \/ /\ groups # None
          /\ \E d \in Documents : d.organization \in groups /\ doc' = d
          /\ Populates /\ Goes
       \/ Fails /\ UNCHANGED <<linked, doc>>
    /\ UNCHANGED <<instance, request, locals, filter, match, seen>>

RemoveDocument ==
    /\ Does("remove")
    /\ \/ doc' = None /\ Goes
       \/ Fails /\ UNCHANGED doc
    /\ UNCHANGED <<instance, request, locals, filter, match, seen, linked>>

Identify ==
    /\ Does("self")
    /\ IF request.caller.kind = "token" /\ ~service THEN Goes ELSE Fails
    /\ UNCHANGED <<instance, request, locals, held>>

Call ==
    /\ Does("ask") \/ Does("change")
    /\ Goes \/ Fails
    /\ UNCHANGED <<instance, request, locals, held>>

\* The handler, or the error handler, answers.
Answer ==
    /\ stage = "refused" \/ (stage = "handler" /\ todo = <<>>)
    /\ Over
    /\ UNCHANGED <<instance>>

\* The platform ends an instance that does not answer.
TimeOut ==
    /\ stage = "unanswered"
    /\ conn' = "closed"
    /\ Over
    /\ UNCHANGED handler

Works ==
    \/ Connect \/ ContextHttp \/ JwtRSA \/ ApiKey \/ Validate
    \/ IncludeGroups \/ EnforcePrimaryGroup \/ NoGroups \/ Enforce
    \/ Parse \/ ParseFails \/ One \/ All \/ ByIds \/ CountAll \/ Write \/ RemoveDocument \/ Identify \/ Call
    \/ Answer \/ TimeOut

Next ==
    \/ \E c \in Callers, r \in handler.routes, g \in Asked : Receive(c, r, g)
    \/ Works

Spec == Init /\ [][Next]_vars
FairSpec == Spec /\ WF_vars(Works)

-----------------------------------------------------------------------------
(* Properties.                                                             *)

\* Some other group of the token has this one's name inside.
Contained(g) == \E n \in request.caller.groups : n # g /\ <<g, n>> \in Within

\* The groups a request may come to act for: those it names, "*", the public one,
\* and those of its token that are primary.
AllGroups ==
    request.group \cup {"*", Public} \cup {g \in request.caller.groups : Contained(g)}

\* Every variable keeps its type: a request in progress is one that was sent, and
\* the documents at hand are documents.
TypeOK ==
    /\ handler \in Handlers
    /\ conn \in {"closed", "open", "lost"}
    /\ stage \in {"idle", "context", "auth", "validate", "groups", "scopes",
                  "handler", "refused", "unanswered"}
    /\ \/ stage = "idle" /\ request = NoRequest
       \/ request \in [caller : Callers, route : handler.routes, group : Asked]
    /\ service \in BOOLEAN /\ anonymous \in BOOLEAN
    /\ groups = None \/ groups \subseteq AllGroups
    /\ \/ todo = <<>>
       \/ /\ stage \in {"handler", "refused"}
          /\ \E n \in DOMAIN request.route.steps :
                todo = SubSeq(request.route.steps, n, Len(request.route.steps))
    /\ match \in [docs : SUBSET Documents, own : BOOLEAN]
    /\ seen \subseteq Documents /\ linked \subseteq Documents
    /\ doc = None \/ doc \in Documents

Token == stage # "idle" /\ request.caller.kind = "token" /\ ~service
Guarded == stage # "idle" /\ request.route.groups.by = "primary" /\ ~service

\* The workspaces a caller may act for on this route: of those the token makes
\* it a member of, the ones asked for, with a scope for every guard; without
\* a token, the public workspace.
Entitled ==
    IF request.caller.kind # "token" THEN {Public}
    ELSE {g \in request.group :
            /\ Contained(g)
            /\ \A i \in DOMAIN request.route.guards :
                    \E s \in request.route.guards[i] :
                        <<g, s>> \in request.caller.permissions}

\* The queries that no filter of the handler confines: the slugs of all metrics;
\* the metrics of the members of a collection, which are those of the stored
\* list; and the locations whose _ids the client sends in the place of those
\* that intersect with the one it asked for.
Unconfined ==
    \/ request.route = MetricSlugs
    \/ \E c \in filter : c.key = "location" /\ c.op = "$in"
    \/ request.route = LocationAdminGet /\ \E c \in filter : c.key = "_id"

InHand == (IF Unconfined THEN {} ELSE seen) \cup {d \in Documents : d = doc}

\* Whatever filter a client sends, and through however many queries a handler
\* goes, a route that enforces a primary group finds and writes documents of
\* the workspaces the caller is entitled to, or public resources: but for the
\* three queries above.  What the documents refer to is populated from wherever
\* it is.
Confined == Guarded => \A d \in InHand : d.organization \in Entitled \/ d.public

ReadsOnly(route) ==
    \A i \in DOMAIN route.steps : route.steps[i].do \notin {"insert", "update", "remove"}

\* The functions whose routers ask for published documents to be populated.
LinksPublished == {LayerOpen, WidgetOpen, DashboardOpen}

\* The functions open to anonymous callers find published documents only.  The
\* metrics of a location have no such mark, and go by that of their location;
\* the list of all slugs goes by none.  Layers, widgets and dashboards populate
\* published documents only, too, unless a condition of the client comes later.
PublishedOnly ==
    (Guarded /\ handler.auth = "anonymous" /\ ReadsOnly(request.route)) =>
        /\ \A d \in InHand : d.published \/ \E c \in filter : c.key = "location"
        /\ handler \in LinksPublished /\ ~match.own => \A d \in linked : d.published

\* A token never moves a document to another workspace, though it may belong to
\* several and though the update writes the organization anew.
UpdatesStayInWorkspace ==
    [][(Does("update") /\ Token /\ stage' = "handler") =>
            doc'.organization = doc.organization]_vars

\* A token that comes to a step that changes something, here or in another
\* service, on a route that names scopes, holds a scope to write.
WritersHoldScope ==
    (/\ Token /\ request.route.guards # <<>>
     /\ \E do \in {"insert", "update", "remove", "change"} : Does(do)) =>
        \A g \in groups : \E i \in DOMAIN request.route.guards :
            \E s \in request.route.guards[i] :
                s[1] = "write" /\ <<g, s>> \in request.caller.permissions

\* Every request ends; and as one that waits for a lost connection is never
\* answered, the instance that lost it ends with it and the next one connects.
EveryRequestEnds == (stage = "context") ~> (stage = "idle" /\ conn # "lost")
=============================================================================
