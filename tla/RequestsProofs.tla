---------------------------- MODULE RequestsProofs ----------------------------
(***************************************************************************)
(* Theorems about Requests, for any workspaces, callers, tokens and        *)
(* queries, and for all functions of the API.                              *)
(*                                                                         *)
(* What a caller gets to see depends on the order of the steps of the      *)
(* handlers.  A constant property of the routes, Disciplined, says what    *)
(* that order has to be: above all, a query stands under a call of the     *)
(* parser that adds a filter which confines it.  Every route has it; two   *)
(* of them, whose last query has no such filter, are named.  The invariant *)
(* then says of the steps that are left that each query stands under such  *)
(* a call that is still to come, or that what the filter at hand lets      *)
(* through is confined already.                                            *)
(***************************************************************************)
EXTENDS Requests, SequenceTheorems, FiniteSetTheorems, TLAPS

\* The filters that confine a query to the workspaces of the groups, and those
\* that let public resources, or the metrics of listed locations, through besides.
Confining == {"organization", "location"}
Sharing == Confining \cup {"public", "locations"}
Filters == Sharing \cup {"published", "*.published"}

Calls == [do : {"parse"}, query : BOOLEAN, filters : SUBSET Filters]
Queries == {"one", "all", "ids"}
OtherSteps ==
    Queries \cup {"everything", "insert", "update", "remove", "self", "ask", "change"}
AllSteps == Calls \cup {Step(name) : name \in OtherSteps}

IsCall(step, names) == step.do = "parse" /\ step.filters \cap names # {}
NoCall(steps, i) == \A k \in 1 .. i - 1 : steps[k].do # "parse"
NoCallAfter(steps, i) == \A k \in i + 1 .. Len(steps) : steps[k].do # "parse"

\* The last call of the parser before step i adds a filter with one of the names.
Under(steps, i, names) ==
    \E j \in 1 .. i - 1 :
        IsCall(steps[j], names) /\ \A k \in j + 1 .. i - 1 : steps[k].do # "parse"

Changes == {"insert", "update", "remove", "change"}

\* What the order of the steps of a route has to be.
Confines(r) ==
    \A i \in DOMAIN r.steps :
        /\ r.steps[i].do = "one" => Under(r.steps, i, Confining)
        /\ r.steps[i].do = "all" => Under(r.steps, i, Sharing)
        /\ r.steps[i].do = "ids" =>
              \/ Under(r.steps, i, Sharing)
              \/ r = LocationAdminGet /\ NoCallAfter(r.steps, i)
        /\ r.steps[i].do = "everything" => r = MetricSlugs
        /\ IsCall(r.steps[i], {"locations"}) => NoCallAfter(r.steps, i)
        /\ r.steps[i].do = "update" =>
              /\ \E j \in 1 .. i - 1 : r.steps[j].do = "one"
              /\ \A j \in 1 .. i - 1 : r.steps[j].do # "remove"

OneWorkspace(r) ==
    \A i \in DOMAIN r.steps :
        r.steps[i].do = "update" => r.groups.by = "primary" /\ ~r.groups.multiple

GuardsChanges(r) ==
    r.guards # <<>> /\ (\E i \in DOMAIN r.steps : r.steps[i].do \in Changes) =>
        \E n \in DOMAIN r.guards : \A s \in r.guards[n] : s[1] = "write"

Disciplined(r) ==
    /\ r.steps \in Seq(AllSteps)
    /\ r.groups.by = "primary" => Confines(r)
    /\ OneWorkspace(r)
    /\ GuardsChanges(r)

OfLocation == {"location", "locations"}
ShowsPublished(r) ==
    \A i \in DOMAIN r.steps :
        /\ r.steps[i].do \in Queries => ~NoCall(r.steps, i)
        /\ r.steps[i].do = "parse" =>
              IF r.steps[i].filters \cap OfLocation = {} THEN "published" \in r.steps[i].filters
              ELSE NoCallAfter(r.steps, i)

\* The first step alone calls the parser, for published documents to be populated.
LinksShown(r) ==
    \A i \in DOMAIN r.steps :
        r.steps[i].do = "parse" => i = 1 /\ "*.published" \in r.steps[i].filters

\* Every route of a function has that order; and where anonymous callers are let
\* in, one that only reads shows what is published.
Kept(f) ==
    \A r \in f.routes :
        /\ Disciplined(r)
        /\ (f.auth = "anonymous" /\ r.groups.by = "primary" /\ ReadsOnly(r)) => ShowsPublished(r)

-----------------------------------------------------------------------------
(* The inductive invariant.                                                *)

Before == stage \in {"idle", "context", "auth", "validate", "groups", "unanswered"}

\* Nothing is at hand before the handler is entered.
Fresh ==
    /\ Before => groups = None
    /\ Before \/ stage = "scopes" =>
          /\ filter = {} /\ match = NoMatch /\ seen = {} /\ linked = {}
          /\ doc = None /\ todo = <<>>

\* Whom the guard of groups let through, and with which groups.
LetIn ==
    (stage \in {"scopes", "handler"} /\ Guarded) =>
        /\ Token => /\ \A g \in request.group : Contained(g)
                    /\ request.route.groups.multiple \/ Cardinality(request.group) = 1
        /\ stage = "scopes" => groups = IF Token THEN request.group ELSE {Public}

\* Every group that a token acts for has a scope for every guard.
HoldsScopes ==
    (stage = "handler" /\ Token /\ request.route.guards # <<>>) =>
        /\ groups # None
        /\ \A g \in groups : \A i \in DOMAIN request.route.guards :
              \E s \in request.route.guards[i] : <<g, s>> \in request.caller.permissions

\* The workspaces among the groups are those the caller is entitled to.
ActsForEntitled ==
    (stage = "handler" /\ Guarded) =>
        groups # None /\ \A g \in groups \cap Workspaces : g \in Entitled

Owned(D) == \A d \in D : d.organization \in Entitled
Shared(D) == \A d \in D : d.organization \in Entitled \/ d.public

NoCallLeft == \A i \in DOMAIN todo : todo[i].do # "parse"
ListedLocations == \E c \in filter : c.key = "location" /\ c.op = "$in"

\* One of the queries that are not confined may have been made, and none is to come.
Loose == Unconfined /\ NoCallLeft

DocumentsConfined ==
    Guarded => Owned({d \in Documents : d = doc}) /\ (Loose \/ Shared(seen))

\* The queries to come.
QueriesConfined ==
    (stage = "handler" /\ Guarded) =>
        /\ ListedLocations => NoCallLeft
        /\ \A i \in DOMAIN todo :
            /\ todo[i].do = "one" =>
                  Under(todo, i, Confining) \/ (NoCall(todo, i) /\ Owned(Found))
            /\ todo[i].do = "all" =>
                  \/ Under(todo, i, Sharing)
                  \/ NoCall(todo, i) /\ (Shared(Found) \/ ListedLocations)
            /\ todo[i].do = "ids" =>
                  \/ Under(todo, i, Sharing)
                  \/ NoCall(todo, i) /\ (Shared(Found) \/ ListedLocations)
                  \/ request.route = LocationAdminGet /\ NoCallAfter(todo, i)
            /\ todo[i].do = "everything" => request.route = MetricSlugs
            /\ IsCall(todo[i], {"locations"}) => NoCallAfter(todo, i)
            /\ todo[i].do = "update" =>
                  /\ doc # None \/ \E j \in 1 .. i - 1 : todo[j].do = "one"
                  /\ \A j \in 1 .. i - 1 : todo[j].do # "remove"

OfALocation == \E c \in filter : c.key = "location"
Shows == Guarded /\ handler.auth = "anonymous" /\ ReadsOnly(request.route)
Shown == (IF request.route = MetricSlugs THEN {} ELSE seen) \cup {d \in Documents : d = doc}

PublishedAtHand ==
    Shows =>
       /\ OfALocation \/ \A d \in Shown : d.published
       /\ stage = "handler" =>
            /\ OfALocation => NoCallLeft
            /\ \A i \in DOMAIN todo :
                 /\ todo[i].do \in Queries =>
                      ~NoCall(todo, i) \/ OfALocation \/ \A d \in Found : d.published
                 /\ todo[i].do = "parse" =>
                      IF todo[i].filters \cap OfLocation = {} THEN "published" \in todo[i].filters
                      ELSE NoCallAfter(todo, i)

\* What is populated, where the routers ask for published documents.  Nothing is
\* before the call of the parser.
LinksAtHand ==
    (Shows /\ handler \in LinksPublished) =>
       /\ match.own \/ \A d \in match.docs \cup linked : d.published
       /\ stage = "handler" =>
            \A i \in DOMAIN todo : todo[i].do = "parse" =>
                i = 1 /\ "*.published" \in todo[i].filters /\ linked = {}

Inv ==
    /\ TypeOK /\ Fresh /\ LetIn /\ HoldsScopes /\ ActsForEntitled
    /\ DocumentsConfined /\ QueriesConfined /\ PublishedAtHand /\ LinksAtHand

-----------------------------------------------------------------------------
(* The order of the steps of every route.                                  *)

USE DEF Disciplined, Confines, OneWorkspace, GuardsChanges, ShowsPublished,
        ReadsOnly, Under, NoCall, NoCallAfter, LinksShown, IsCall, Changes, OfLocation,
        AllSteps, Calls, Queries, OtherSteps, Filters, Sharing, Confining
USE DEF Route, Primary, Multiple, Services, Included, Anybody, Reads, Writes, Strictly,
        Options, OwnOptions, Organization, Published, PublishedLinks, Parent,
        Step, FindOne, FindAll, FindByIds, FindEverything, Insert, Update, Remove, Self, Ask, Change

\* One query, under a call of the parser that adds filters to confine it.
LEMMA QueryDisciplined ==
    ASSUME NEW r, NEW filters \in SUBSET Filters, "locations" \notin filters,
           NEW query \in {FindOne, FindAll}, r.steps = <<Options(filters), query>>,
           filters \cap (IF query = FindOne THEN Confining ELSE Sharing) # {}
    PROVE  Disciplined(r)
  <1>1. r.steps \in Seq(AllSteps)
      OBVIOUS
  <1>2. Confines(r)
      BY SMTT(30)
  <1>3. OneWorkspace(r) /\ GuardsChanges(r)
      OBVIOUS
  <1> QED
      BY <1>1, <1>2, <1>3

\* The shapes that most routes share.
LEMMA ShapesDisciplined ==
    ASSUME NEW resource
    PROVE  /\ \A admits :
                 /\ \A filters \in {Organization, PublishedLinks, {"public"}, {"published", "public"}} :
                       Disciplined(List(admits, Reads(resource), filters))
                 /\ \A filters \in {Organization, PublishedLinks} :
                       Disciplined(Get(admits, Reads(resource), filters))
           /\ Disciplined(Slug(Reads(resource)))
           /\ Disciplined(Post(Writes(resource))) /\ ~ReadsOnly(Post(Writes(resource)))
           /\ Disciplined(Put(Writes(resource))) /\ ~ReadsOnly(Put(Writes(resource)))
           /\ Disciplined(Delete(Writes(resource))) /\ ~ReadsOnly(Delete(Writes(resource)))
           /\ \A filters \in {PublishedLinks, {"published", "public"}} :
                 /\ ShowsPublished(List(Multiple, Reads(resource), filters))
                 /\ ShowsPublished(Get(Multiple, Reads(resource), filters))
  <1>1. ASSUME NEW admits,
               NEW filters \in {Organization, PublishedLinks, {"public"}, {"published", "public"}}
        PROVE  Disciplined(List(admits, Reads(resource), filters))
      <2>1. List(admits, Reads(resource), filters).steps = <<Options(filters), FindAll>>
          BY DEF List
      <2>2. filters \in SUBSET Filters /\ "locations" \notin filters /\ filters \cap Sharing # {}
          OBVIOUS
      <2>3. FindAll # FindOne
          OBVIOUS
      <2> HIDE DEF Disciplined, FindAll, FindOne, Options, Sharing, Filters
      <2> QED
          BY <2>1, <2>2, <2>3, QueryDisciplined
  <1>2. ASSUME NEW admits, NEW filters \in {Organization, PublishedLinks}
        PROVE  Disciplined(Get(admits, Reads(resource), filters))
      <2>1. Get(admits, Reads(resource), filters).steps = <<Options(filters), FindOne>>
          BY DEF Get
      <2>2. filters \in SUBSET Filters /\ "locations" \notin filters /\ filters \cap Confining # {}
          OBVIOUS
      <2> HIDE DEF Disciplined, FindAll, FindOne, Options, Confining, Filters
      <2> QED
          BY <2>1, <2>2, QueryDisciplined
  <1>3. Disciplined(Slug(Reads(resource)))
      BY DEF Slug
  <1>4. Disciplined(Post(Writes(resource))) /\ ~ReadsOnly(Post(Writes(resource)))
      BY DEF Post
  <1>5. Disciplined(Put(Writes(resource)))
      <2> DEFINE r == Put(Writes(resource))
      <2>1. r.steps = <<OwnOptions(Organization), FindOne, Options(Organization), Update>>
          BY DEF Put
      <2>2. OneWorkspace(r) /\ GuardsChanges(r) /\ r.steps \in Seq(AllSteps)
          BY DEF Put
      <2> HIDE DEF r
      <2>3. Under(r.steps, 2, Confining)
          BY <2>1
      <2>4. Confines(r)
          BY <2>1, <2>3
      <2>5. Disciplined(r)
          BY <2>2, <2>4
      <2> QED
          BY <2>5 DEF r
  <1>8. ~ReadsOnly(Put(Writes(resource)))
      <2>1. Put(Writes(resource)).steps[4].do = "update" /\ 4 \in DOMAIN Put(Writes(resource)).steps
          BY DEF Put
      <2> QED
          BY <2>1
  <1>6. Disciplined(Delete(Writes(resource))) /\ ~ReadsOnly(Delete(Writes(resource)))
      BY DEF Delete
  <1>7. \A filters \in {PublishedLinks, {"published", "public"}} :
           /\ ShowsPublished(List(Multiple, Reads(resource), filters))
           /\ ShowsPublished(Get(Multiple, Reads(resource), filters))
      BY DEF List, Get
  <1> HIDE DEF Disciplined, ShowsPublished, ReadsOnly
  <1> QED
      BY <1>1, <1>2, <1>3, <1>4, <1>5, <1>6, <1>7, <1>8

\* The last query of the one has no filter of the handler's own.
LEMMA LocationsDisciplined ==
    /\ Disciplined(LocationGet) /\ ShowsPublished(LocationGet)
    /\ Disciplined(LocationAdminGet)
  <1>1. Disciplined(LocationGet)
      BY DEF LocationGet
  <1>2. ShowsPublished(LocationGet)
      BY DEF LocationGet
  <1>3. Disciplined(LocationAdminGet)
      <2> DEFINE r == LocationAdminGet
      <2>1. r.steps = <<Options(Organization), FindOne, OwnOptions(Organization), FindAll,
                        Options({}), FindByIds>>
          BY DEF LocationAdminGet
      <2>2. OneWorkspace(r) /\ GuardsChanges(r) /\ r.steps \in Seq(AllSteps)
          BY DEF LocationAdminGet
      <2> HIDE DEF r
      <2>3. NoCallAfter(r.steps, 6)
          BY <2>1
      <2>4. Under(r.steps, 2, Confining) /\ Under(r.steps, 4, Sharing)
          BY <2>1
      <2>5. r = LocationAdminGet
          BY DEF r
      <2>6. Confines(r)
          BY <2>1, <2>3, <2>4, <2>5
      <2>7. Disciplined(r)
          BY <2>2, <2>6
      <2> HIDE DEF Disciplined
      <2> QED
          BY <2>5, <2>7
  <1> QED
      BY <1>1, <1>2, <1>3

LEMMA MetricsDisciplined ==
    /\ Disciplined(MetricSlugs) /\ ShowsPublished(MetricSlugs)
    /\ Disciplined(MetricList) /\ ShowsPublished(MetricList)
    /\ Disciplined(MetricGet) /\ ShowsPublished(MetricGet)
    /\ Disciplined(MetricAdminList) /\ Disciplined(MetricAdminGet)
    /\ Disciplined(MetricAdminDeleteAll) /\ Disciplined(MetricAdminDelete)
    /\ Disciplined(MetricAdminAction) /\ Disciplined(MetricAdminActionOne)
  <1>1. Disciplined(MetricSlugs) /\ ShowsPublished(MetricSlugs)
      BY DEF MetricSlugs
  <1>2. Disciplined(MetricList) /\ ShowsPublished(MetricList)
      <2>1. MetricList.steps \in Seq(AllSteps)
          BY DEF MetricList
      <2>2. Confines(MetricList)
          <3>1. MetricList.steps = <<OwnOptions(Published), FindOne, Options({"locations"}), FindAll>>
              BY DEF MetricList
          <3> QED
              BY <3>1
      <2>3. OneWorkspace(MetricList) /\ GuardsChanges(MetricList)
          BY DEF MetricList
      <2>4. ShowsPublished(MetricList)
          <3>1. MetricList.steps = <<OwnOptions(Published), FindOne, Options({"locations"}), FindAll>>
              BY DEF MetricList
          <3>2. \A i \in 1 .. 4 : MetricList.steps[i].do \in Queries => ~NoCall(MetricList.steps, i)
              BY <3>1
          <3>3. \A i \in 1 .. 4 : MetricList.steps[i].do = "parse" => i \in {1, 3}
              BY <3>1
          <3>4. /\ MetricList.steps[1].filters = Published
                /\ MetricList.steps[3].filters = {"locations"} /\ NoCallAfter(MetricList.steps, 3)
              BY <3>1
          <3>5. DOMAIN MetricList.steps = 1 .. 4
              BY <3>1
          <3> QED
              BY <3>2, <3>3, <3>4, <3>5
      <2> QED
          BY <2>1, <2>2, <2>3, <2>4
  <1>3. Disciplined(MetricGet) /\ ShowsPublished(MetricGet)
      BY DEF MetricGet
  <1>4. Disciplined(MetricAdminList) /\ Disciplined(MetricAdminGet)
      BY DEF MetricAdminList, MetricAdminGet
  <1>5. Disciplined(MetricAdminDeleteAll) /\ Disciplined(MetricAdminDelete)
      BY DEF MetricAdminDeleteAll, MetricAdminDelete
  <1>6. Disciplined(MetricAdminAction) /\ Disciplined(MetricAdminActionOne)
      BY DEF MetricAdminAction, MetricAdminActionOne
  <1> QED
      BY <1>1, <1>2, <1>3, <1>4, <1>5, <1>6

LEMMA OrganizationsDisciplined ==
    /\ Disciplined(OrganizationStats) /\ ShowsPublished(OrganizationStats)
    /\ \A r \in {OrganizationAdminStats, OrganizationAdminList, OrganizationAdminGet,
                 OrganizationAdminPut, OrganizationAdminPost, OrganizationAdminDelete} :
          Disciplined(r)
  <1>1. Disciplined(OrganizationStats) /\ ShowsPublished(OrganizationStats)
      BY DEF OrganizationStats
  <1>2. Disciplined(OrganizationAdminStats)
      BY DEF OrganizationAdminStats
  <1>3. Disciplined(OrganizationAdminList) /\ Disciplined(OrganizationAdminGet)
      BY DEF OrganizationAdminList, OrganizationAdminGet
  <1>4. Disciplined(OrganizationAdminPut)
      BY DEF OrganizationAdminPut
  <1>5. Disciplined(OrganizationAdminPost) /\ Disciplined(OrganizationAdminDelete)
      BY DEF OrganizationAdminPost, OrganizationAdminDelete
  <1> HIDE DEF Disciplined, ShowsPublished
  <1> QED
      BY <1>1, <1>2, <1>3, <1>4, <1>5

LEMMA UsersDisciplined ==
    /\ \A r \in {ProfileGet, ProfilePut, ProfileDelete, ProfileEmailPost,
                 ProfileEmailDelete, ProfileEmailGet, ProfilePassword,
                 ProfileVerify, ProfileLeave} :
          Disciplined(r)
    /\ Disciplined(ProfileCountries) /\ ShowsPublished(ProfileCountries)
    /\ \A r \in {UserAdminList, UserAdminGroups, UserAdminGet, UserAdminPost,
                 UserAdminPutAll, UserAdminPut, UserAdminDelete} :
          Disciplined(r)
  <1>1. Disciplined(ProfileGet) /\ Disciplined(ProfilePut) /\ Disciplined(ProfileDelete)
      BY DEF ProfileGet, ProfilePut, ProfileDelete
  <1>2. /\ Disciplined(ProfileEmailPost) /\ Disciplined(ProfileEmailDelete)
        /\ Disciplined(ProfileEmailGet)
      BY DEF ProfileEmailPost, ProfileEmailDelete, ProfileEmailGet
  <1>3. Disciplined(ProfilePassword) /\ Disciplined(ProfileVerify) /\ Disciplined(ProfileLeave)
      BY DEF ProfilePassword, ProfileVerify, ProfileLeave
  <1>4. Disciplined(ProfileCountries) /\ ShowsPublished(ProfileCountries)
      BY DEF ProfileCountries
  <1>5. Disciplined(UserAdminList) /\ Disciplined(UserAdminGroups) /\ Disciplined(UserAdminGet)
      BY DEF UserAdminList, UserAdminGroups, UserAdminGet
  <1>6. Disciplined(UserAdminPost) /\ Disciplined(UserAdminPutAll)
      BY DEF UserAdminPost, UserAdminPutAll
  <1>7. Disciplined(UserAdminPut) /\ Disciplined(UserAdminDelete)
      BY DEF UserAdminPut, UserAdminDelete
  <1> HIDE DEF Disciplined, ShowsPublished
  <1> QED
      BY <1>1, <1>2, <1>3, <1>4, <1>5, <1>6, <1>7

LEMMA OthersDisciplined ==
    Disciplined(Tile) /\ Disciplined(ExportRaster) /\ Disciplined(Reindex)
  <1>1. Disciplined(Tile) /\ Disciplined(Reindex)
      BY DEF Tile, Reindex
  <1>2. Disciplined(ExportRaster)
      BY DEF ExportRaster
  <1> QED
      BY <1>1, <1>2

HIDE DEF Disciplined, Confines, OneWorkspace, GuardsChanges, ShowsPublished,
         ReadsOnly, Under, NoCall, NoCallAfter, LinksShown, IsCall, Changes, OfLocation,
         AllSteps, Calls, Queries, OtherSteps, Filters, Sharing, Confining
HIDE DEF Route, Primary, Multiple, Services, Included, Anybody, Reads, Writes, Strictly,
         Options, OwnOptions, Organization, Published, PublishedLinks, Parent,
         Step, FindOne, FindAll, FindByIds, FindEverything, Insert, Update, Remove, Self, Ask, Change

LEMMA LinksAreShown == \A f \in LinksPublished : \A r \in f.routes : LinksShown(r)
  <1>1. ASSUME NEW filters \in SUBSET Filters, NEW query \in {FindOne, FindAll}, NEW r,
               r.steps = <<Options(filters), query>>, "*.published" \in filters
        PROVE  LinksShown(r)
      BY <1>1 DEF LinksShown, Options, FindOne, FindAll, Step
  <1>2. "*.published" \in PublishedLinks /\ PublishedLinks \in SUBSET Filters
      BY DEF PublishedLinks, Published, Filters, Sharing, Confining
  <1>3. \A admits, guard :
           /\ LinksShown(List(admits, guard, PublishedLinks))
           /\ LinksShown(Get(admits, guard, PublishedLinks))
      BY <1>1, <1>2 DEF List, Get, Route
  <1> QED
      BY <1>3 DEF LinksPublished, Handler, LayerOpen, LayerList, LayerGet, WidgetOpen, WidgetList,
                  WidgetGet, DashboardOpen, DashboardList, DashboardGet

\* Every function of the API serves routes whose steps have that order: but for
\* the slugs of all metrics and the last query for a location, each query stands
\* under a filter that confines it.
THEOREM EveryRouteKeepsOrder == \A f \in Functions : Kept(f)
  <1>1. Kept(LayerOpen) /\ Kept(LayerManagement)
      BY ShapesDisciplined
         DEF Kept, Handler, LayerOpen, LayerList, LayerGet, LayerManagement, LayerAdminList,
             LayerAdminSlug, LayerAdminGet, LayerAdminPost, LayerAdminPut, LayerAdminDelete
  <1>2. Kept(WidgetOpen) /\ Kept(WidgetManagement)
      BY ShapesDisciplined
         DEF Kept, Handler, WidgetOpen, WidgetList, WidgetGet, WidgetManagement, WidgetAdminList,
             WidgetAdminSlug, WidgetAdminGet, WidgetAdminPost, WidgetAdminPut, WidgetAdminDelete
  <1>3. Kept(DashboardOpen) /\ Kept(DashboardManagement)
      BY ShapesDisciplined
         DEF Kept, Handler, DashboardOpen, DashboardList, DashboardGet, DashboardManagement,
             DashboardAdminList, DashboardAdminSlug, DashboardAdminGet, DashboardAdminPost,
             DashboardAdminPut, DashboardAdminDelete
  <1>4. Kept(LocationOpen)
      BY ShapesDisciplined, LocationsDisciplined
         DEF Kept, Handler, LocationOpen, LocationList, LocationPost, LocationPut, LocationDelete
  <1>5. Kept(LocationManagement)
      BY ShapesDisciplined, LocationsDisciplined
         DEF Kept, Handler, LocationManagement, LocationAdminList, LocationAdminSlug,
             LocationAdminPost, LocationAdminPut, LocationAdminDelete
  <1>6. Kept(MetricOpen) /\ Kept(MetricManagement)
      BY MetricsDisciplined DEF Kept, Handler, MetricOpen, MetricManagement
  <1>7. Kept(OrganizationOpen) /\ Kept(OrganizationManagement)
      BY OrganizationsDisciplined DEF Kept, Handler, OrganizationOpen, OrganizationManagement
  <1>8. Kept(UserOpen) /\ Kept(UserProfile) /\ Kept(UserManagement)
      BY UsersDisciplined DEF Kept, Handler, UserOpen, UserProfile, UserManagement
  <1>9. Kept(TileOpen) /\ Kept(ExportManagement) /\ Kept(OperationManagement)
      BY OthersDisciplined DEF Kept, Handler, TileOpen, ExportManagement, OperationManagement
  <1> QED
      BY <1>1, <1>2, <1>3, <1>4, <1>5, <1>6, <1>7, <1>8, <1>9 DEF Functions

-----------------------------------------------------------------------------
(* The steps that are left.                                                *)

LEMMA TailOfSteps ==
    ASSUME NEW S, NEW t \in Seq(S), t # <<>>
    PROVE  /\ DOMAIN t = 1 .. Len(t) /\ Len(t) \in Nat \ {0}
           /\ 1 \in DOMAIN t /\ Head(t) = t[1]
           /\ Tail(t) \in Seq(S)
           /\ Len(Tail(t)) = Len(t) - 1 /\ DOMAIN Tail(t) = 1 .. Len(t) - 1
           /\ \A i \in DOMAIN Tail(t) : i + 1 \in DOMAIN t /\ Tail(t)[i] = t[i + 1]
  <1>1. DOMAIN t = 1 .. Len(t) /\ Len(t) \in Nat \ {0} /\ Head(t) = t[1]
      BY EmptySeq, LenProperties
  <1>2. /\ Tail(t) \in Seq(S) /\ Len(Tail(t)) = Len(t) - 1
        /\ \A i \in 1 .. Len(Tail(t)) : Tail(t)[i] = t[i + 1]
      BY HeadTailProperties
  <1>3. DOMAIN Tail(t) = 1 .. Len(Tail(t))
      BY <1>2, LenProperties
  <1> QED
      BY <1>1, <1>2, <1>3

\* A step that stood under no call of the parser stands under none now, and the
\* first step was none.
LEMMA NoCallAhead ==
    ASSUME NEW t \in Seq(AllSteps), t # <<>>, NEW i \in DOMAIN Tail(t), NoCall(t, i + 1)
    PROVE  NoCall(Tail(t), i) /\ Head(t).do # "parse"
  <1>1. i \in Nat \ {0} /\ i <= Len(t) - 1
      BY TailOfSteps
  <1>2. \A k \in 1 .. i : t[k].do # "parse"
      BY <1>1 DEF NoCall
  <1>3. \A k \in 1 .. i - 1 : k \in DOMAIN Tail(t) /\ k + 1 \in 1 .. i
      BY <1>1, TailOfSteps
  <1> QED
      BY <1>1, <1>2, <1>3, TailOfSteps DEF NoCall

\* A step that stood under a call of the parser does so still, or the call was
\* the first step.
LEMMA UnderAhead ==
    ASSUME NEW t \in Seq(AllSteps), t # <<>>, NEW i \in DOMAIN Tail(t), NEW names,
           Under(t, i + 1, names)
    PROVE  Under(Tail(t), i, names) \/ (IsCall(Head(t), names) /\ NoCall(Tail(t), i))
  <1>1. i \in Nat \ {0} /\ i <= Len(t) - 1
      BY TailOfSteps
  <1>2. PICK j \in 1 .. i : IsCall(t[j], names) /\ \A k \in j + 1 .. i : t[k].do # "parse"
      BY <1>1 DEF Under
  <1>3. \A k \in 1 .. i - 1 : k \in DOMAIN Tail(t) /\ Tail(t)[k] = t[k + 1]
      BY <1>1, TailOfSteps
  <1>4. CASE j = 1
      BY <1>1, <1>2, <1>3, <1>4, TailOfSteps DEF NoCall
  <1>5. CASE j # 1
      <2>1. j - 1 \in 1 .. i - 1 /\ Tail(t)[j - 1] = t[j]
          BY <1>1, <1>2, <1>3, <1>5
      <2>2. \A k \in j .. i - 1 : Tail(t)[k].do # "parse"
          BY <1>1, <1>2, <1>3, <1>5
      <2> QED
          BY <2>1, <2>2, <1>2 DEF Under
  <1> QED
      BY <1>4, <1>5

\* The first step has none before it.
LEMMA FirstStep ==
    ASSUME NEW t, NEW names
    PROVE  ~Under(t, 1, names) /\ NoCall(t, 1)
  BY DEF Under, NoCall

-----------------------------------------------------------------------------
(* Types.                                                                  *)

TodoOK ==
    \/ todo = <<>>
    \/ /\ stage \in {"handler", "refused"}
       /\ \E n \in DOMAIN request.route.steps :
             todo = SubSeq(request.route.steps, n, Len(request.route.steps))

RequestOK ==
    \/ stage = "idle" /\ request = NoRequest
    \/ request \in [caller : Callers, route : handler.routes, group : Asked]

Stages == {"idle", "context", "auth", "validate", "groups", "scopes",
           "handler", "refused", "unanswered"}

\* The route of a request is one of those whose steps keep the order.
LEMMA RouteKept ==
    ASSUME TypeOK, stage # "idle"
    PROVE  /\ request \in [caller : Callers, route : handler.routes, group : Asked]
           /\ Disciplined(request.route)
           /\ (handler.auth = "anonymous" /\ request.route.groups.by = "primary"
                 /\ ReadsOnly(request.route)) => ShowsPublished(request.route)
  <1>1. request \in [caller : Callers, route : handler.routes, group : Asked]
      BY DEF TypeOK
  <1>2. handler \in Functions
      BY RequestsAssumption DEF TypeOK
  <1>3. Kept(handler)
      BY <1>2, EveryRouteKeepsOrder
  <1> QED
      BY <1>1, <1>3 DEF Kept

\* What is left of the steps is a sequence of steps of the route.
LEMMA TodoType ==
    ASSUME TypeOK, stage = "handler"
    PROVE  /\ todo \in Seq(AllSteps)
           /\ \A i \in DOMAIN todo : \E n \in DOMAIN request.route.steps :
                 todo[i] = request.route.steps[n]
  <1> DEFINE S == request.route.steps
  <1>1. S \in Seq(AllSteps)
      BY RouteKept DEF Disciplined
  <1>2. CASE todo = <<>>
      BY <1>2, EmptySeq
  <1>3. ASSUME NEW n \in DOMAIN S, todo = SubSeq(S, n, Len(S))
        PROVE  /\ todo \in Seq(AllSteps)
               /\ \A i \in DOMAIN todo : \E m \in DOMAIN S : todo[i] = S[m]
      <2> HIDE DEF S
      <2>1. Len(S) \in Nat /\ DOMAIN S = 1 .. Len(S) /\ n \in 1 .. Len(S)
          BY <1>1, LenProperties
      <2>2. \A i \in n .. Len(S) : S[i] \in AllSteps
          BY <1>1, <2>1, ElementOfSeq
      <2>3. /\ todo \in Seq(AllSteps) /\ Len(todo) = Len(S) - n + 1
            /\ \A i \in 1 .. Len(S) - n + 1 : todo[i] = S[n + i - 1]
          BY <1>3, <2>1, <2>2, SubSeqProperties
      <2>4. \A i \in DOMAIN todo : n + i - 1 \in DOMAIN S
          BY <2>1, <2>3, LenProperties
      <2>5. DOMAIN todo = 1 .. Len(S) - n + 1
          BY <2>3, LenProperties
      <2> QED
          BY <2>3, <2>4, <2>5
  <1> QED
      BY <1>2, <1>3 DEF TypeOK

\* Taking the first step leaves the rest.
LEMMA TodoTail ==
    ASSUME TypeOK, stage = "handler", todo # <<>>, Goes, UNCHANGED request
    PROVE  TodoOK'
  <1> DEFINE S == request.route.steps
  <1>1. S \in Seq(AllSteps)
      BY RouteKept DEF Disciplined
  <1>2. PICK n \in DOMAIN S : todo = SubSeq(S, n, Len(S))
      BY DEF TypeOK
  <1>3. todo' = Tail(todo) /\ stage' = "handler" /\ S' = S
      BY DEF Goes
  <1> HIDE DEF S
  <1>4. Len(S) \in Nat /\ DOMAIN S = 1 .. Len(S) /\ n \in 1 .. Len(S)
      BY <1>1, LenProperties
  <1>5. todo' = SubSeq(S, n + 1, Len(S))
      BY <1>1, <1>2, <1>3, <1>4, HeadTailOfSubSeq, SMTT(30)
  <1>6. CASE n = Len(S)
      BY <1>4, <1>5, <1>6, SubSeqEmpty DEF TodoOK
  <1>7. CASE n # Len(S)
      <2>1. n + 1 \in DOMAIN S
          BY <1>4, <1>7
      <2>2. \E m \in DOMAIN S : todo' = SubSeq(S, m, Len(S))
          BY <1>5, <2>1
      <2> QED
          BY <1>3, <2>2 DEF TodoOK, S
  <1> QED
      BY <1>6, <1>7

LEMMA TypeParts ==
    TypeOK <=> /\ handler \in Handlers
               /\ conn \in {"closed", "open", "lost"}
               /\ stage \in Stages
               /\ RequestOK
               /\ service \in BOOLEAN /\ anonymous \in BOOLEAN
               /\ groups = None \/ groups \subseteq AllGroups
               /\ TodoOK
               /\ match \in [docs : SUBSET Documents, own : BOOLEAN]
               /\ seen \subseteq Documents /\ linked \subseteq Documents
               /\ doc = None \/ doc \in Documents
  BY DEF TypeOK, Stages, RequestOK, TodoOK

LEMMA NoMatchType == NoMatch \in [docs : SUBSET Documents, own : BOOLEAN]
  BY DEF NoMatch

LEMMA InitType == Init => TypeOK
  BY NoMatchType DEF Init, TypeOK

\* A step of the handler.
StepOfHandler ==
    \/ Parse \/ ParseFails \/ One \/ All \/ ByIds \/ CountAll
    \/ Write \/ RemoveDocument \/ Identify \/ Call

\* What comes before the handler, up to the guards of scopes.
Ahead ==
    \/ \E c \in Callers, r \in handler.routes, g \in Asked : Receive(c, r, g)
    \/ Connect \/ ContextHttp \/ JwtRSA \/ ApiKey \/ Validate
    \/ IncludeGroups \/ EnforcePrimaryGroup \/ NoGroups

LEMMA NextSteps == Next <=> Ahead \/ Enforce \/ StepOfHandler \/ Answer \/ TimeOut
  BY DEF Next, Works, Ahead, StepOfHandler

LEMMA HandlerSteps ==
    ASSUME StepOfHandler
    PROVE  /\ stage = "handler" /\ todo # <<>>
           /\ UNCHANGED <<handler, conn, request, service, anonymous, groups>>
           /\ Goes \/ (Fails /\ UNCHANGED <<filter, match, seen, linked>>)
  BY DEF StepOfHandler, Does, Parse, ParseFails, One, All, ByIds, CountAll, Write, RemoveDocument,
         Identify, Call, Fails, instance, locals, held

LEMMA GuardsType ==
    ASSUME TypeOK, IncludeGroups \/ EnforcePrimaryGroup
    PROVE  groups' = None \/ groups' \subseteq AllGroups'
  <1>1. request' = request /\ AllGroups' = AllGroups
      BY DEF IncludeGroups, EnforcePrimaryGroup, AllGroups, Contained
  <1>2. PrimaryGroups \subseteq AllGroups
      BY DEF PrimaryGroups, RemoveNestedGroups, AllGroups, Contained
  <1>3. request.group \subseteq AllGroups /\ {Public} \subseteq AllGroups
      BY DEF AllGroups
  <1>4. groups = None \/ groups \subseteq AllGroups
      BY DEF TypeOK
  <1> QED
      BY <1>1, <1>2, <1>3, <1>4 DEF IncludeGroups, EnforcePrimaryGroup

LEMMA AheadType ==
    ASSUME TypeOK, Fresh, Ahead
    PROVE  TypeOK'
  <1>1. /\ handler' = handler /\ handler \in Handlers
        /\ match' = match /\ match \in [docs : SUBSET Documents, own : BOOLEAN]
        /\ seen' = seen /\ seen \subseteq Documents
        /\ linked' = linked /\ linked \subseteq Documents
        /\ doc' = doc /\ (doc = None \/ doc \in Documents)
        /\ todo' = todo /\ conn' \in {"closed", "open", "lost"}
      BY DEF Ahead, Receive, Connect, ContextHttp, JwtRSA, ApiKey, Validate, IncludeGroups,
             EnforcePrimaryGroup, NoGroups, instance, locals, held, TypeOK
  <1>2. stage \notin {"handler", "refused"} /\ todo = <<>>
      BY DEF Ahead, Receive, Connect, ContextHttp, JwtRSA, ApiKey, Validate, IncludeGroups,
             EnforcePrimaryGroup, NoGroups, Passes, TypeOK
  <1>3. stage' \in Stages
      BY DEF Ahead, Receive, Connect, ContextHttp, JwtRSA, ApiKey, Validate, IncludeGroups,
             EnforcePrimaryGroup, NoGroups, Passes, TypeOK, Stages, WithoutConnection, JwtError
  <1>4. service' \in BOOLEAN /\ anonymous' \in BOOLEAN
      BY DEF Ahead, Receive, Connect, ContextHttp, JwtRSA, ApiKey, Validate, IncludeGroups,
             EnforcePrimaryGroup, NoGroups, locals, TypeOK
  <1>5. RequestOK'
      <2>1. CASE \E c \in Callers, r \in handler.routes, g \in Asked : Receive(c, r, g)
          BY <1>1, <2>1 DEF Receive, RequestOK
      <2>2. CASE request' = request /\ stage # "idle"
          BY <1>1, <2>2 DEF RequestOK, TypeOK
      <2> QED
          BY <2>1, <2>2 DEF Ahead, Connect, ContextHttp, JwtRSA, ApiKey, Validate, IncludeGroups,
             EnforcePrimaryGroup, NoGroups, Passes
  <1>6. groups' = None \/ groups' \subseteq AllGroups'
      <2>1. CASE IncludeGroups \/ EnforcePrimaryGroup
          BY <2>1, GuardsType
      <2>2. CASE groups' = groups /\ request' = request
          BY <2>2 DEF TypeOK, AllGroups, Contained
      <2>3. CASE \E c \in Callers, r \in handler.routes, g \in Asked : Receive(c, r, g)
          BY <2>3 DEF Receive, Passes, Fresh, Before, locals
      <2> QED
          BY <2>1, <2>2, <2>3 DEF Ahead, Connect, ContextHttp, JwtRSA, ApiKey, Validate,
             NoGroups, Passes, locals
  <1> QED
      BY <1>1, <1>2, <1>3, <1>4, <1>5, <1>6 DEF TypeOK, Stages, RequestOK

LEMMA EnforceType ==
    ASSUME TypeOK, Fresh, Enforce
    PROVE  TypeOK'
  <1> DEFINE S == request.route.steps
  <1>1. /\ request' = request /\ stage = "scopes" /\ stage' \in {"handler", "refused"}
        /\ todo = <<>> /\ todo' \in {S, todo}
        /\ stage' = "refused" => todo' = todo
      BY DEF Enforce, Fresh
  <1>2. RequestOK' /\ AllGroups' = AllGroups
      BY <1>1 DEF Enforce, instance, RequestOK, TypeOK, AllGroups, Contained
  <1>3. TodoOK'
      <2>1. S \in Seq(AllSteps)
          BY <1>1, RouteKept DEF Disciplined
      <2>2. CASE S = <<>> \/ stage' = "refused"
          BY <1>1, <2>2 DEF TodoOK
      <2>3. CASE S # <<>> /\ stage' = "handler" /\ todo' = S
          <3> HIDE DEF S
          <3>1. 1 \in DOMAIN S /\ S = SubSeq(S, 1, Len(S))
              BY <2>1, <2>3, TailOfSteps, SubSeqFull
          <3> QED
              BY <1>1, <2>3, <3>1 DEF TodoOK, S
      <2> QED
          BY <1>1, <2>2, <2>3 DEF TodoOK
  <1>4. groups' = None \/ groups' \subseteq AllGroups
      <2>1. groups = None \/ groups \subseteq AllGroups
          BY DEF TypeOK
      <2>2. \A names : Scoped(names) \subseteq names \cup {"*"}
          BY DEF Scoped
      <2>3. "*" \in AllGroups
          BY DEF AllGroups
      <2> QED
          BY <2>1, <2>2, <2>3 DEF Enforce
  <1> QED
      BY <1>1, <1>2, <1>3, <1>4 DEF Enforce, TypeOK, RequestOK, TodoOK, instance, held

LEMMA HandlerType ==
    ASSUME TypeOK, StepOfHandler
    PROVE  TypeOK'
  <1>1. /\ stage = "handler" /\ todo # <<>>
        /\ UNCHANGED <<handler, conn, request, service, anonymous, groups>>
        /\ Goes \/ Fails
      BY HandlerSteps
  <1>2. TodoOK' /\ stage' \in {"handler", "refused"}
      <2>1. CASE Goes
          BY <1>1, <2>1, TodoTail DEF Goes
      <2>2. CASE Fails
          BY <1>1, <2>2 DEF Fails, TodoOK, TypeOK
      <2> QED
          BY <1>1, <2>1, <2>2
  <1>3. seen' \subseteq Documents /\ (doc' = None \/ doc' \in Documents)
      <2>1. Found \subseteq Documents
          BY DEF Found
      <2> QED
          BY <2>1 DEF StepOfHandler, Parse, ParseFails, One, All, ByIds, CountAll, Write,
             RemoveDocument, Identify, Call, held, TypeOK
  <1>5. /\ match' \in [docs : SUBSET Documents, own : BOOLEAN]
        /\ linked' \subseteq Documents
      <2>1. \A added, sent : \A own \in BOOLEAN :
               Merge(added, sent, own) \in [docs : SUBSET Documents, own : BOOLEAN]
          BY DEF Merge
      <2>2. \/ match' = match \/ match' = NoMatch
            \/ \E added, sent : \E own \in BOOLEAN : match' = Merge(added, sent, own)
          BY DEF StepOfHandler, Parse, ParseFails, One, All, ByIds, CountAll, Write,
             RemoveDocument, Identify, Call, held
      <2>3. /\ match \in [docs : SUBSET Documents, own : BOOLEAN]
            /\ match.docs \subseteq Documents /\ linked \subseteq Documents
          BY DEF TypeOK
      <2>4. match' \in [docs : SUBSET Documents, own : BOOLEAN]
          BY <2>1, <2>2, <2>3, NoMatchType
      <2>5. linked' \subseteq Documents
          BY <2>3 DEF StepOfHandler, Parse, ParseFails, One, All, ByIds, CountAll, Write,
             RemoveDocument, Identify, Call, Populates, held
      <2> QED
          BY <2>4, <2>5
  <1>4. RequestOK' /\ AllGroups' = AllGroups
      BY <1>1 DEF TypeOK, RequestOK, AllGroups, Contained
  <1> QED
      BY <1>1, <1>2, <1>3, <1>4, <1>5 DEF TypeOK, RequestOK, TodoOK

LEMMA OverType ==
    ASSUME TypeOK, Answer \/ TimeOut
    PROVE  TypeOK'
  BY NoMatchType DEF Answer, TimeOut, Over, instance, TypeOK

\* Nothing is at hand before the handler is entered.
LEMMA StepFresh ==
    ASSUME TypeOK, Fresh, [Next]_vars
    PROVE  Fresh'
  <1>1. CASE UNCHANGED vars
      BY <1>1 DEF vars, instance, locals, held, Fresh, Before
  <1>2. CASE Ahead
      BY <1>2 DEF Ahead, Receive, Connect, ContextHttp, JwtRSA, ApiKey, Validate, IncludeGroups,
             EnforcePrimaryGroup, NoGroups, Passes, instance, locals, held, Fresh, Before
  <1>3. CASE Enforce
      BY <1>3 DEF Enforce, Fresh, Before
  <1>4. CASE StepOfHandler
      BY <1>4, HandlerSteps DEF Goes, Fails, Fresh, Before
  <1>5. CASE Answer \/ TimeOut
      BY <1>5 DEF Answer, TimeOut, Over, Fresh, Before
  <1> QED
      BY <1>1, <1>2, <1>3, <1>4, <1>5, NextSteps

LEMMA StepType ==
    ASSUME TypeOK, Fresh, [Next]_vars
    PROVE  TypeOK'
  <1>1. CASE UNCHANGED vars
      BY <1>1 DEF vars, instance, locals, held, TypeOK, AllGroups, Contained
  <1> QED
      BY <1>1, NextSteps, AheadType, EnforceType, HandlerType, OverType

LEMMA InitFresh == Init => Fresh
  BY DEF Init, Fresh, Before

\* Every variable keeps its type; above all, the groups that a request acts for are
\* never others than those it names, the primary ones of its token, and the public one.
THEOREM TypeCorrect == Spec => []TypeOK
  <1>1. TypeOK /\ Fresh /\ [Next]_vars => (TypeOK /\ Fresh)'
      BY StepType, StepFresh
  <1> QED
      BY <1>1, InitType, InitFresh, PTL DEF Spec

-----------------------------------------------------------------------------
(* The groups that a request acts for.                                     *)

\* What a step of the handler leaves as it is.
LEMMA HandlerKeeps ==
    ASSUME StepOfHandler
    PROVE  /\ stage = "handler" /\ handler' = handler
           /\ Guarded' = Guarded /\ Token' = Token /\ Entitled' = Entitled
           /\ Shows' = Shows /\ OfGroups' = OfGroups
           /\ request' = request /\ groups' = groups
  <1>1. /\ stage = "handler" /\ stage' \in {"handler", "refused"}
        /\ UNCHANGED <<handler, request, service, anonymous, groups>>
      BY HandlerSteps DEF Goes, Fails
  <1>2. Entitled' = Entitled /\ Guarded' = Guarded /\ Token' = Token
      BY <1>1 DEF Entitled, Contained, Guarded, Token
  <1>3. OfGroups' = OfGroups
      BY <1>1 DEF OfGroups
  <1> QED
      BY <1>1, <1>2, <1>3 DEF Shows

LEMMA AheadOfScopes ==
    ASSUME Ahead
    PROVE  /\ stage' # "handler"
           /\ stage' = "scopes" => IncludeGroups \/ EnforcePrimaryGroup \/ NoGroups
  BY DEF Ahead, Receive, Connect, ContextHttp, JwtRSA, ApiKey, Validate, IncludeGroups,
         EnforcePrimaryGroup, NoGroups, Passes, WithoutConnection, JwtError

LEMMA StepLetIn ==
    ASSUME TypeOK, LetIn, Next
    PROVE  LetIn'
  <1> SUFFICES ASSUME stage' \in {"scopes", "handler"}, Guarded'
               PROVE  /\ Token' => /\ \A g \in request'.group : Contained(g)'
                                   /\ \/ request'.route.groups.multiple
                                      \/ Cardinality(request'.group) = 1
                      /\ stage' = "scopes" => groups' = IF Token' THEN request'.group ELSE {Public}
      BY DEF LetIn
  <1>1. CASE Ahead
      <2>1. EnforcePrimaryGroup
          BY <1>1, AheadOfScopes DEF IncludeGroups, NoGroups, Guarded
      <2>2. /\ Admitted /\ stage = "groups" /\ stage' = "scopes"
            /\ request' = request /\ service' = service /\ ~service
            /\ groups' = IF request.caller.kind = "token" THEN request.group ELSE {Public}
          BY <2>1 DEF EnforcePrimaryGroup, Guarded
      <2>3. CASE request.caller.kind = "token"
          <3>1. /\ request.group \subseteq PrimaryGroups
                /\ request.route.groups.multiple \/ Cardinality(request.group) = 1
              BY <2>2, <2>3 DEF Admitted
          <3>2. \A g \in request.group : Contained(g)
              BY <3>1 DEF PrimaryGroups, RemoveNestedGroups, Contained
          <3>3. \A g \in request.group : Contained(g)'
              BY <2>2, <3>2 DEF Contained
          <3> QED
              BY <2>2, <2>3, <3>1, <3>3 DEF Token
      <2>4. CASE request.caller.kind # "token"
          BY <2>2, <2>4 DEF Token
      <2> QED
          BY <2>3, <2>4
  <1>2. CASE Enforce \/ StepOfHandler
      <2>1. /\ stage \in {"scopes", "handler"} /\ stage' = "handler"
            /\ request' = request /\ service' = service
          <3>1. CASE Enforce
              BY <3>1 DEF Enforce
          <3>2. CASE StepOfHandler
              BY <3>2, HandlerSteps DEF Goes, Fails
          <3> QED
              BY <1>2, <3>1, <3>2
      <2>2. Guarded /\ Token' = Token
          BY <2>1 DEF Guarded, Token
      <2> QED
          BY <2>1, <2>2 DEF LetIn, Contained
  <1>3. CASE Answer \/ TimeOut
      BY <1>3 DEF Answer, TimeOut, Over
  <1> QED
      BY <1>1, <1>2, <1>3, NextSteps

LEMMA StepHoldsScopes ==
    ASSUME TypeOK, HoldsScopes, Next
    PROVE  HoldsScopes'
  <1> SUFFICES ASSUME stage' = "handler", Token', request'.route.guards # <<>>
               PROVE  /\ groups' # None
                      /\ \A g \in groups' : \A i \in DOMAIN request'.route.guards :
                            \E s \in request'.route.guards[i] :
                               <<g, s>> \in request'.caller.permissions
      BY DEF HoldsScopes
  <1>1. CASE Enforce
      <2> DEFINE names == IF groups = None THEN {} ELSE groups
      <2>1. /\ request' = request /\ ~service /\ request.caller.kind = "token"
            /\ request.route.guards # <<>>
          BY <1>1 DEF Enforce, Token
      <2>2. groups' = Scoped(names)
          BY <1>1, <2>1 DEF Enforce
      <2>3. names \subseteq AllGroups /\ Scoped(names) \subseteq names \cup {"*"}
          BY DEF TypeOK, Scoped
      <2>4. stage # "idle" /\ groups' \subseteq Names
          <3>1. stage # "idle"
              BY <1>1 DEF Enforce
          <3>2. request.group \in Asked /\ request.caller \in Callers
              BY <3>1, RouteKept
          <3>3. AllGroups \subseteq Names
              <4>1. request.group \subseteq Names
                  BY <3>2 DEF Names
              <4>2. request.caller.groups \subseteq Names
                  <5>1. PICK c \in Callers : request.caller.groups = c.groups
                      BY <3>2
                  <5>2. \A g \in c.groups : \E N \in {d.groups : d \in Callers} : g \in N
                      BY Zenon
                  <5> QED
                      BY <5>1, <5>2 DEF Names
              <4>3. {"*", Public} \subseteq Names
                  BY DEF Names
              <4> QED
                  BY <4>1, <4>2, <4>3 DEF AllGroups
          <3> QED
              BY <2>2, <2>3, <3>1, <3>3 DEF Names
      <2>5. groups' # None
          BY <2>4, RequestsAssumption
      <2> QED
          BY <2>1, <2>2, <2>5 DEF Scoped
  <1>2. CASE StepOfHandler
      BY <1>2, HandlerKeeps DEF HoldsScopes
  <1> QED
      BY <1>1, <1>2, NextSteps, AheadOfScopes DEF Answer, TimeOut, Over

LEMMA StepActsForEntitled ==
    ASSUME TypeOK, LetIn, ActsForEntitled, Next
    PROVE  ActsForEntitled'
  <1> SUFFICES ASSUME stage' = "handler", Guarded'
               PROVE  groups' # None /\ \A g \in groups' \cap Workspaces : g \in Entitled'
      BY DEF ActsForEntitled
  <1>1. CASE Enforce
      <2>1. /\ request' = request /\ ~service /\ Guarded /\ stage = "scopes" /\ service' = service
            /\ Entitled' = Entitled
          BY <1>1 DEF Enforce, Guarded, Entitled, Contained
      <2>2. request.group \in Asked
          BY <2>1, RouteKept
      <2>3. \A N \in SUBSET Names : N # None
          BY RequestsAssumption
      <2>4. CASE request.caller.kind = "token"
          <3>1. groups = request.group /\ \A g \in request.group : Contained(g)
              BY <2>1, <2>4 DEF LetIn, Token
          <3>2. request.group \subseteq Names
              BY <2>2 DEF Names
          <3>3. CASE request.route.guards = <<>>
              <4>1. groups' = groups
                  BY <1>1, <3>3 DEF Enforce
              <4>2. DOMAIN request.route.guards = {}
                  BY <3>3
              <4> QED
                  BY <2>1, <2>3, <2>4, <3>1, <3>2, <4>1, <4>2 DEF Entitled
          <3>4. CASE request.route.guards # <<>>
              <4>1. groups' = Scoped(request.group)
                  BY <1>1, <2>1, <2>3, <2>4, <3>1, <3>2, <3>4 DEF Enforce
              <4>2. Scoped(request.group) \subseteq Names
                  BY <3>2 DEF Scoped, Names
              <4>3. \A g \in Scoped(request.group) : g = "*" \/ g \in request.group
                  BY DEF Scoped
              <4>4. "*" \notin Workspaces
                  BY RequestsAssumption
              <4>5. \A g \in Scoped(request.group) : \A i \in DOMAIN request.route.guards :
                       \E s \in request.route.guards[i] : <<g, s>> \in request.caller.permissions
                  BY DEF Scoped
              <4> QED
                  BY <2>1, <2>3, <2>4, <3>1, <4>1, <4>2, <4>3, <4>4, <4>5 DEF Entitled
          <3> QED
              BY <3>3, <3>4
      <2>5. CASE request.caller.kind # "token"
          <3>1. groups' = groups /\ groups = {Public}
              BY <1>1, <2>1, <2>5 DEF LetIn, Token, Enforce
          <3>2. {Public} \in SUBSET Names
              BY DEF Names
          <3> QED
              BY <2>1, <2>3, <2>5, <3>1, <3>2 DEF Entitled
      <2> QED
          BY <2>4, <2>5
  <1>2. CASE StepOfHandler
      BY <1>2, HandlerKeeps DEF ActsForEntitled
  <1> QED
      BY <1>1, <1>2, NextSteps, AheadOfScopes DEF Answer, TimeOut, Over

-----------------------------------------------------------------------------
(* The query parser.                                                       *)

\* What a handler adds holds the conditions of each of its filters.
LEMMA AddedConditions ==
    ASSUME NEW names, NEW name \in names, NEW added \in Additions(names)
    PROVE  \E P \in Predefined(name) : P \subseteq added
  <1>1. PICK f : f[name] \in Predefined(name) /\ added = UNION {f[n] : n \in names}
      BY DEF Additions
  <1>2. f[name] \subseteq added
      BY <1>1
  <1> QED
      BY <1>1, <1>2

\* The condition that a location is the parent comes of two filters alone.
LEMMA AddedKeys ==
    ASSUME NEW names \in SUBSET Filters, names \cap OfLocation = {},
           NEW added \in Additions(names), NEW c \in added
    PROVE  c.key # "location"
  <1>1. PICK f : added = UNION {f[n] : n \in names} /\ \A n \in names : f[n] \in Predefined(n)
      BY DEF Additions
  <1>2. PICK n \in names : c \in f[n]
      BY <1>1
  <1>3. n \in {"published", "organization", "public", "*.published"}
      BY DEF Filters, Sharing, Confining, OfLocation
  <1>4. PICK P \in Predefined(n) : c \in P
      BY <1>1, <1>2
  <1> QED
      BY <1>3, <1>4 DEF Predefined, Condition

\* The locations of a list come of one filter alone.
LEMMA AddedOperators ==
    ASSUME NEW names \in SUBSET Filters, "locations" \notin names,
           NEW added \in Additions(names), NEW c \in added
    PROVE  c.key # "location" \/ c.op # "$in"
  <1>1. PICK f : added = UNION {f[n] : n \in names} /\ \A n \in names : f[n] \in Predefined(n)
      BY DEF Additions
  <1>2. PICK n \in names : c \in f[n]
      BY <1>1
  <1>3. n \in {"published", "organization", "public", "location", "*.published"}
      BY DEF Filters, Sharing, Confining
  <1>4. PICK P \in Predefined(n) : c \in P
      BY <1>1, <1>2
  <1> QED
      BY <1>3, <1>4 DEF Predefined, Condition

\* The conditions that a client sends are of none of the handler's parents.
LEMMA SentKeys ==
    ASSUME NEW sent \in ClientFilters \cup {{}}, NEW c \in sent
    PROVE  c.key \in {"published", "_id", "organization"}
  BY DEF ClientFilters, Condition

\* A document that is found meets every condition that the handler added for it.
LEMMA FoundMeets ==
    ASSUME NEW sent, NEW added, filter' = FilterWildcardKeys(Filter(sent, added)),
           NEW c \in added, c.key # "*.published"
    PROVE  Found' \subseteq c.docs /\ c \in filter'
  BY DEF Filter, FilterWildcardKeys, Found

LEMMA HeadIsCall ==
    ASSUME TypeOK, Parse
    PROVE  /\ Head(todo) \in Calls /\ Head(todo).do = "parse"
           /\ \E sent \in ClientFilters \cup {{}}, added \in Additions(Head(todo).filters) :
                 filter' = FilterWildcardKeys(Filter(sent, added))
           /\ Goes /\ seen' = seen /\ doc' = doc /\ linked' = linked
  <1>1. stage = "handler" /\ todo # <<>> /\ Head(todo).do = "parse"
      BY DEF Parse, Does
  <1>2. Head(todo) \in AllSteps
      BY <1>1, TodoType, HeadTailProperties
  <1>3. Head(todo) \in Calls
      BY <1>1, <1>2 DEF AllSteps, OtherSteps, Queries, Step
  <1> QED
      BY <1>1, <1>3 DEF Parse

\* A call with one of these filters lets through documents of the workspaces that
\* the caller is entitled to, whatever the client asks for; with one of those,
\* documents that are public besides, or the metrics of listed locations.
LEMMA ParseConfines ==
    ASSUME TypeOK, Parse, Guarded, ActsForEntitled, DocumentsConfined
    PROVE  /\ IsCall(Head(todo), Confining) => \A d \in Found' : d.organization \in Entitled
           /\ IsCall(Head(todo), Sharing) =>
                 \/ \A d \in Found' : d.organization \in Entitled \/ d.public
                 \/ ListedLocations'
           /\ ListedLocations' => IsCall(Head(todo), {"locations"})
  <1> DEFINE names == Head(todo).filters
  <1>1. PICK sent \in ClientFilters \cup {{}}, added \in Additions(names) :
           filter' = FilterWildcardKeys(Filter(sent, added))
      BY HeadIsCall
  <1>2. groups # None /\ \A g \in groups \cap Workspaces : g \in Entitled
      BY DEF Parse, Does, ActsForEntitled
  <1>3. \A d \in OfGroups : d.organization \in Entitled
      BY <1>2 DEF OfGroups, Documents
  <1>4. doc # None => doc \in Documents /\ doc.organization \in Entitled
      BY DEF TypeOK, DocumentsConfined, Owned
  <1>5. names \in SUBSET Filters
      BY HeadIsCall DEF Calls
  <1>6. \A d \in Found' : d \in Documents
      BY DEF Found
  <1>7. None \notin Documents
      BY RequestsAssumption
  <1> HIDE DEF names
  <1>8. ASSUME "organization" \in names PROVE \A d \in Found' : d.organization \in Entitled
      <2>1. PICK P \in Predefined("organization") : P \subseteq added
          BY <1>1, <1>8, AddedConditions
      <2>2. Condition("organization", "$in", OfGroups) \in added
          BY <1>2, <2>1 DEF Predefined
      <2> QED
          BY <1>1, <1>3, <2>2, FoundMeets DEF Condition
  <1>9. ASSUME "location" \in names PROVE \A d \in Found' : d.organization \in Entitled
      <2>1. PICK P \in Predefined("location") : P \subseteq added
          BY <1>1, <1>9, AddedConditions
      <2>2. Condition("location", "$eq", {doc}) \in added
          BY <2>1 DEF Predefined
      <2> QED
          BY <1>1, <1>4, <1>6, <1>7, <2>2, FoundMeets DEF Condition
  <1>10. ASSUME "public" \in names
         PROVE  \A d \in Found' : d.organization \in Entitled \/ d.public
      <2>1. PICK P \in Predefined("public") : P \subseteq added
          BY <1>1, <1>10, AddedConditions
      <2>2. \/ Condition("organization", "$in", OfGroups) \in added
            \/ Condition("$or", "$or", OfGroups \cup {d \in Documents : d.public}) \in added
          BY <1>2, <2>1 DEF Predefined
      <2> QED
          BY <1>1, <1>3, <2>2, FoundMeets DEF Condition
  <1>11. ASSUME "locations" \in names
         PROVE  \/ \A d \in Found' : d.organization \in Entitled \/ d.public
                \/ ListedLocations'
      <2>1. PICK P \in Predefined("locations") : P \subseteq added
          BY <1>1, <1>11, AddedConditions
      <2>2. CASE Condition("location", "$eq", {doc}) \in added
          BY <1>1, <1>4, <1>6, <1>7, <2>2, FoundMeets DEF Condition
      <2>3. CASE Condition("location", "$in", Documents) \in added
          <3>1. Condition("location", "$in", Documents) \in filter'
              BY <1>1, <2>3, FoundMeets DEF Condition
          <3> QED
              BY <3>1 DEF ListedLocations, Condition
      <2> QED
          BY <2>1, <2>2, <2>3 DEF Predefined
  <1>12. ASSUME ListedLocations' PROVE "locations" \in names
      <2>1. PICK c \in filter' : c.key = "location" /\ c.op = "$in"
          BY <1>12 DEF ListedLocations
      <2>2. c \in added \/ c \in sent
          BY <1>1, <2>1 DEF Filter, FilterWildcardKeys
      <2> QED
          BY <1>1, <1>5, <2>1, <2>2, AddedOperators, SentKeys
  <1>13. IsCall(Head(todo), Confining) => "organization" \in names \/ "location" \in names
      BY DEF IsCall, Confining, names
  <1>14. IsCall(Head(todo), Sharing) =>
            names \cap {"organization", "location", "public", "locations"} # {}
      BY DEF IsCall, Sharing, Confining, names
  <1>15. "locations" \in names => IsCall(Head(todo), {"locations"})
      BY HeadIsCall DEF IsCall, names
  <1> QED
      BY <1>8, <1>9, <1>10, <1>11, <1>12, <1>13, <1>14, <1>15

\* A call with this filter lets through published documents; without one of
\* a location, none of its conditions is that of a location.
LEMMA ParseShowsPublished ==
    ASSUME TypeOK, Parse
    PROVE  /\ "published" \in Head(todo).filters => \A d \in Found' : d.published
           /\ Head(todo).filters \cap OfLocation = {} => ~OfALocation'
           /\ Head(todo).filters \cap OfLocation # {} => OfALocation'
  <1> DEFINE names == Head(todo).filters
  <1>1. /\ names \in SUBSET Filters
        /\ \E sent \in ClientFilters \cup {{}}, added \in Additions(names) :
              filter' = FilterWildcardKeys(Filter(sent, added))
      BY HeadIsCall DEF Calls
  <1> HIDE DEF names
  <1>2. PICK sent \in ClientFilters \cup {{}}, added \in Additions(names) :
           filter' = FilterWildcardKeys(Filter(sent, added))
      BY <1>1
  <1>3. ASSUME "published" \in names PROVE \A d \in Found' : d.published
      <2>1. PICK P \in Predefined("published") : P \subseteq added
          BY <1>2, <1>3, AddedConditions
      <2>2. Condition("published", "$eq", {d \in Documents : d.published}) \in added
          BY <2>1 DEF Predefined
      <2> QED
          BY <1>2, <2>2, FoundMeets DEF Condition
  <1>4. ASSUME names \cap OfLocation = {}, OfALocation' PROVE FALSE
      <2>1. PICK c \in filter' : c.key = "location"
          BY <1>4 DEF OfALocation
      <2>2. c \in added \/ c \in sent
          BY <1>2, <2>1 DEF Filter, FilterWildcardKeys
      <2> QED
          BY <1>1, <1>2, <1>4, <2>1, <2>2, AddedKeys, SentKeys
  <1>5. ASSUME names \cap OfLocation # {} PROVE OfALocation'
      <2>1. PICK n \in names : n \in {"location", "locations"}
          BY <1>5 DEF OfLocation
      <2>2. PICK P \in Predefined(n) : P \subseteq added
          BY <1>2, AddedConditions
      <2>3. \E c \in P : c.key = "location"
          <3>1. \/ Condition("location", "$eq", {doc}) \in P
                \/ Condition("location", "$in", Documents) \in P
              BY <2>1, <2>2 DEF Predefined
          <3> QED
              BY <3>1 DEF Condition
      <2> QED
          BY <1>2, <2>2, <2>3, FoundMeets DEF OfALocation
  <1> QED
      BY <1>3, <1>4, <1>5 DEF names

\* A call with this filter has published documents populated, unless a condition
\* of the client's own comes later.
LEMMA ParseLinksPublished ==
    ASSUME TypeOK, Parse, "*.published" \in Head(todo).filters
    PROVE  match'.own \/ \A d \in match'.docs : d.published
  <1> DEFINE names == Head(todo).filters
  <1>1. PICK added \in Additions(names) :
           match' = NoMatch \/ \E own \in BOOLEAN, links \in LinkFilters :
                                 match' = Merge(added, links, own)
      BY DEF Parse
  <1>2. CASE match' = NoMatch
      BY <1>2 DEF NoMatch
  <1>3. ASSUME NEW own \in BOOLEAN, NEW links \in LinkFilters, match' = Merge(added, links, own)
        PROVE  match'.own \/ \A d \in match'.docs : d.published
      <2> DEFINE wild == {a.docs : a \in added \ FilterWildcardKeys(added)}
                 docs == {d \in Documents : d.published}
      <2>1. PICK P \in Predefined("*.published") : P \subseteq added
          BY <1>1, AddedConditions
      <2>2. Condition("*.published", "$eq", docs) \in added
          BY <2>1 DEF Predefined
      <2>3. docs \in wild
          BY <2>2 DEF Condition, FilterWildcardKeys
      <2> HIDE DEF docs
      <2>4. CASE own /\ links # {}
          BY <1>3, <2>4 DEF Merge
      <2>5. CASE ~(own /\ links # {})
          <3>1. match'.docs = {d \in Documents : \A D \in wild : d \in D}
              BY <1>3, <2>3, <2>5 DEF Merge
          <3> QED
              BY <2>3, <3>1 DEF docs
      <2> QED
          BY <2>4, <2>5
  <1> QED
      BY <1>1, <1>2, <1>3

-----------------------------------------------------------------------------
(* What is at hand, and the queries to come.                               *)

LEMMA StepByHead ==
    ASSUME TypeOK, StepOfHandler, Goes
    PROVE  /\ Head(todo).do = "parse" => Parse
           /\ Head(todo).do # "parse" => filter' = filter /\ match' = match
           /\ (doc # None \/ Head(todo).do = "one") /\ Head(todo).do # "remove" => doc' # None
  <1>1. None \notin Documents /\ Found \subseteq Documents
      BY RequestsAssumption DEF Found
  <1>2. stage = "handler" /\ stage' = "handler"
      BY HandlerSteps DEF Goes
  <1> QED
      BY <1>1, <1>2 DEF StepOfHandler, Does, Parse, ParseFails, One, All, ByIds, CountAll, Write,
             RemoveDocument, Identify, Call, Fails, held

LEMMA HeadIsFirst ==
    ASSUME TypeOK, StepOfHandler
    PROVE  todo \in Seq(AllSteps) /\ todo # <<>> /\ 1 \in DOMAIN todo /\ Head(todo) = todo[1]
  BY HandlerSteps, TodoType, TailOfSteps

\* When no call of the parser is left, the filter stays, and none will be left.
LEMMA NoCallStays ==
    ASSUME TypeOK, StepOfHandler, NoCallLeft
    PROVE  NoCallLeft' /\ filter' = filter
  <1>1. todo \in Seq(AllSteps) /\ todo # <<>> /\ 1 \in DOMAIN todo /\ Head(todo) = todo[1]
      BY HeadIsFirst
  <1>2. Head(todo).do # "parse"
      BY <1>1 DEF NoCallLeft
  <1>3. CASE Goes
      BY <1>1, <1>2, <1>3, TailOfSteps, StepByHead DEF NoCallLeft, Goes
  <1>4. CASE Fails /\ filter' = filter
      BY <1>4 DEF NoCallLeft, Fails
  <1> QED
      BY <1>3, <1>4, HandlerSteps

LEMMA LooseStays ==
    ASSUME TypeOK, StepOfHandler, Loose
    PROVE  Loose'
  <1>1. NoCallLeft' /\ filter' = filter /\ request' = request
      BY NoCallStays, HandlerSteps DEF Loose
  <1> QED
      BY <1>1 DEF Loose, Unconfined

\* A query that no filter of the handler's own confines comes after the last call.
LEMMA LooseQueries ==
    ASSUME TypeOK, QueriesConfined, Guarded, StepOfHandler
    PROVE  /\ ListedLocations => Loose
           /\ CountAll => Loose
           /\ ByIds =>
                 \/ Loose
                 \/ \A d \in Found : d.organization \in Entitled \/ d.public
                 \/ \A c \in filter : c.key # "_id"
  <1>1. /\ todo \in Seq(AllSteps) /\ todo # <<>> /\ 1 \in DOMAIN todo /\ Head(todo) = todo[1]
        /\ stage = "handler"
      BY HeadIsFirst, HandlerSteps
  <1>2. ListedLocations => Loose
      BY <1>1 DEF QueriesConfined, Loose, Unconfined, ListedLocations
  <1>3. ASSUME CountAll PROVE Loose
      <2>1. request.route = MetricSlugs
          BY <1>1, <1>3 DEF CountAll, Does, QueriesConfined
      <2>2. \A i \in DOMAIN todo : \E n \in DOMAIN request.route.steps :
               todo[i] = request.route.steps[n]
          BY <1>1, TodoType
      <2>3. \A n \in DOMAIN MetricSlugs.steps : MetricSlugs.steps[n].do # "parse"
          BY DEF MetricSlugs, Route, FindEverything, Step
      <2> QED
          BY <2>1, <2>2, <2>3 DEF Loose, Unconfined, NoCallLeft
  <1>4. ASSUME ByIds, ~Loose, \E c \in filter : c.key = "_id"
        PROVE  \A d \in Found : d.organization \in Entitled \/ d.public
      <2>1. todo[1].do = "ids"
          BY <1>1, <1>4 DEF ByIds, Does
      <2>2. ~Under(todo, 1, Sharing)
          BY FirstStep
      <2>3. CASE Shared(Found)
          BY <2>3 DEF Shared
      <2>4. CASE request.route = LocationAdminGet /\ NoCallAfter(todo, 1)
          <3>1. NoCallLeft
              BY <1>1, <2>1, <2>4, TailOfSteps DEF NoCallLeft, NoCallAfter
          <3> QED
              BY <1>4, <2>4, <3>1 DEF Loose, Unconfined
      <2> QED
          BY <1>1, <1>2, <1>4, <2>1, <2>2, <2>3, <2>4 DEF QueriesConfined
  <1> QED
      BY <1>2, <1>3, <1>4

LEMMA StepDocumentsConfined ==
    ASSUME TypeOK, Fresh, ActsForEntitled, DocumentsConfined, QueriesConfined, Next
    PROVE  DocumentsConfined'
  <1> SUFFICES ASSUME Guarded'
               PROVE  /\ \A d \in Documents : d = doc' => d.organization \in Entitled'
                      /\ \/ Loose'
                         \/ \A d \in seen' : d.organization \in Entitled' \/ d.public
      BY DEF DocumentsConfined, Owned, Shared
  <1>1. CASE Ahead \/ Enforce
      <2>1. doc' = None /\ seen' = {}
          BY <1>1 DEF Ahead, Receive, Connect, ContextHttp, JwtRSA, ApiKey, Validate, IncludeGroups,
             EnforcePrimaryGroup, NoGroups, Enforce, Passes, held, Fresh, Before
      <2> QED
          BY <2>1, RequestsAssumption
  <1>2. CASE StepOfHandler
      <2>1. Guarded /\ Entitled' = Entitled /\ stage = "handler"
          BY <1>2, HandlerKeeps
      <2>2. /\ \A d \in Documents : d = doc => d.organization \in Entitled
            /\ Loose \/ \A d \in seen : d.organization \in Entitled \/ d.public
          BY <2>1 DEF DocumentsConfined, Owned, Shared
      <2>3. None \notin Documents
          BY RequestsAssumption
      <2>4. CASE Loose
          <3>1. Loose'
              BY <1>2, <2>4, LooseStays
          <3>2. \A d \in Documents : d = doc' => d.organization \in Entitled
              <4>1. CASE One
                  <5>1. todo[1].do = "one" /\ 1 \in DOMAIN todo
                      BY <1>2, <4>1, HeadIsFirst DEF One, Does
                  <5>2. \A d \in Found : d.organization \in Entitled
                      BY <2>1, <5>1, FirstStep DEF QueriesConfined, Owned
                  <5> QED
                      BY <2>2, <4>1, <5>2 DEF One
              <4>2. CASE Write
                  <5>1. \A g \in groups \cap Workspaces : g \in Entitled
                      BY <2>1 DEF ActsForEntitled
                  <5>2. \A d \in Documents : d.organization \in Workspaces
                      BY DEF Documents
                  <5> QED
                      BY <2>2, <4>2, <5>1, <5>2 DEF Write
              <4>3. CASE RemoveDocument
                  BY <2>2, <2>3, <4>3 DEF RemoveDocument
              <4>4. CASE doc' = doc
                  BY <2>2, <4>4
              <4> QED
                  BY <1>2, <4>1, <4>2, <4>3, <4>4
                     DEF StepOfHandler, Parse, ParseFails, All, ByIds, CountAll, Identify, Call, held
          <3> QED
              BY <2>1, <3>1, <3>2
      <2>5. CASE One /\ ~Loose
          <3>1. todo[1].do = "one" /\ 1 \in DOMAIN todo
              BY <1>2, <2>5, HeadIsFirst DEF One, Does
          <3>2. \A d \in Found : d.organization \in Entitled
              BY <2>1, <3>1, FirstStep DEF QueriesConfined, Owned
          <3>3. (seen' = seen /\ doc' = doc) \/ \E d \in Found : doc' = d /\ seen' = {d}
              BY <2>5 DEF One
          <3> QED
              BY <2>1, <2>2, <2>5, <3>2, <3>3
      <2>6. CASE All /\ ~Loose
          <3>1. todo[1].do = "all" /\ 1 \in DOMAIN todo
              BY <1>2, <2>6, HeadIsFirst DEF All, Does
          <3>2. ~ListedLocations
              BY <1>2, <2>1, <2>6, LooseQueries
          <3>3. \A d \in Found : d.organization \in Entitled \/ d.public
              BY <2>1, <3>1, <3>2, FirstStep DEF QueriesConfined, Shared
          <3> QED
              BY <2>1, <2>2, <2>6, <3>3 DEF All
      <2>7. CASE ByIds /\ ~Loose
          <3>1. CASE \A d \in Found : d.organization \in Entitled \/ d.public
              BY <2>1, <2>2, <2>7, <3>1 DEF ByIds
          <3>2. CASE \A c \in filter : c.key # "_id"
              BY <2>1, <2>2, <2>7, <3>2 DEF ByIds
          <3> QED
              BY <1>2, <2>1, <2>7, <3>1, <3>2, LooseQueries
      <2>8. CASE Write /\ ~Loose
          <3>1. \A g \in groups \cap Workspaces : g \in Entitled
              BY <2>1 DEF ActsForEntitled
          <3>2. \A d \in Documents : d.organization \in Workspaces
              BY DEF Documents
          <3> QED
              BY <2>1, <2>2, <2>8, <3>1, <3>2 DEF Write
      <2>9. CASE RemoveDocument /\ ~Loose
          BY <2>1, <2>2, <2>3, <2>9 DEF RemoveDocument
      <2>10. CASE seen' = seen /\ doc' = doc /\ ~Loose
          BY <2>1, <2>2, <2>10
      <2>11. CountAll => Loose
          BY <1>2, <2>1, LooseQueries
      <2> QED
          BY <1>2, <2>4, <2>5, <2>6, <2>7, <2>8, <2>9, <2>10, <2>11
             DEF StepOfHandler, Parse, ParseFails, Identify, Call, held
  <1>3. CASE Answer \/ TimeOut
      BY <1>3 DEF Answer, TimeOut, Over, Guarded
  <1> QED
      BY <1>1, <1>2, <1>3, NextSteps

\* A step of the handler leaves the queries to come confined.
LEMMA QueriesAhead ==
    ASSUME TypeOK, ActsForEntitled, DocumentsConfined, QueriesConfined,
           StepOfHandler, Goes, Guarded, NEW i \in DOMAIN todo'
    PROVE  /\ ListedLocations' => NoCallLeft'
           /\ todo'[i].do = "one" =>
                 \/ Under(todo', i, Confining)
                 \/ NoCall(todo', i) /\ \A d \in Found' : d.organization \in Entitled
           /\ todo'[i].do \in {"all", "ids"} =>
                 \/ Under(todo', i, Sharing)
                 \/ /\ NoCall(todo', i)
                    /\ \/ \A d \in Found' : d.organization \in Entitled \/ d.public
                       \/ ListedLocations'
                 \/ /\ todo'[i].do = "ids" /\ request.route = LocationAdminGet
                    /\ NoCallAfter(todo', i)
           /\ todo'[i].do = "everything" => request.route = MetricSlugs
           /\ IsCall(todo'[i], {"locations"}) => NoCallAfter(todo', i)
           /\ todo'[i].do = "update" =>
                 /\ doc' # None \/ \E j \in 1 .. i - 1 : todo'[j].do = "one"
                 /\ \A j \in 1 .. i - 1 : todo'[j].do # "remove"
  <1>1. todo \in Seq(AllSteps) /\ todo # <<>> /\ 1 \in DOMAIN todo /\ Head(todo) = todo[1]
      BY HeadIsFirst
  <1>2. todo' = Tail(todo) /\ i \in DOMAIN Tail(todo)
      BY DEF Goes
  <1>3. /\ i + 1 \in DOMAIN todo /\ todo'[i] = todo[i + 1]
        /\ i \in Nat \ {0} /\ i <= Len(todo) - 1 /\ Len(todo) \in Nat
        /\ Len(todo') = Len(todo) - 1 /\ DOMAIN todo' = 1 .. Len(todo) - 1
      BY <1>1, <1>2, TailOfSteps
  <1>4. \A j \in 1 .. Len(todo) - 1 : todo'[j] = todo[j + 1]
      BY <1>1, <1>2, <1>3, TailOfSteps
  <1>5. stage = "handler"
      BY HandlerSteps
  <1>6. Head(todo).do # "parse" =>
           Found' = Found /\ ListedLocations' = ListedLocations
      BY StepByHead DEF Found, ListedLocations
  <1>7. Head(todo).do = "parse" =>
           /\ IsCall(Head(todo), Confining) => \A d \in Found' : d.organization \in Entitled
           /\ IsCall(Head(todo), Sharing) =>
                 \/ \A d \in Found' : d.organization \in Entitled \/ d.public
                 \/ ListedLocations'
           /\ ListedLocations' => IsCall(Head(todo), {"locations"})
      BY StepByHead, ParseConfines
  <1>8. ASSUME ListedLocations' PROVE NoCallLeft'
      <2>1. CASE Head(todo).do = "parse"
          <3>1. NoCallAfter(todo, 1)
              BY <1>1, <1>5, <1>7, <1>8, <2>1 DEF QueriesConfined
          <3> QED
              BY <1>3, <1>4, <3>1 DEF NoCallAfter, NoCallLeft
      <2>2. CASE Head(todo).do # "parse"
          BY <1>5, <1>6, <1>8, <2>2, NoCallStays DEF QueriesConfined
      <2> QED
          BY <2>1, <2>2
  <1>9. ASSUME todo'[i].do = "one"
        PROVE  \/ Under(todo', i, Confining)
               \/ NoCall(todo', i) /\ \A d \in Found' : d.organization \in Entitled
      <2>1. Under(todo, i + 1, Confining) \/ (NoCall(todo, i + 1) /\ Owned(Found))
          BY <1>3, <1>5, <1>9 DEF QueriesConfined
      <2>2. CASE Under(todo, i + 1, Confining)
          BY <1>1, <1>2, <1>7, <2>2, UnderAhead DEF IsCall
      <2>3. CASE NoCall(todo, i + 1) /\ Owned(Found)
          BY <1>1, <1>2, <1>6, <2>3, NoCallAhead DEF Owned
      <2> QED
          BY <2>1, <2>2, <2>3
  <1>10. ASSUME todo'[i].do \in {"all", "ids"}
         PROVE  \/ Under(todo', i, Sharing)
                \/ /\ NoCall(todo', i)
                   /\ \/ \A d \in Found' : d.organization \in Entitled \/ d.public
                      \/ ListedLocations'
                \/ /\ todo'[i].do = "ids" /\ request.route = LocationAdminGet
                   /\ NoCallAfter(todo', i)
      <2>1. \/ Under(todo, i + 1, Sharing)
            \/ NoCall(todo, i + 1) /\ (Shared(Found) \/ ListedLocations)
            \/ /\ todo[i + 1].do = "ids" /\ request.route = LocationAdminGet
               /\ NoCallAfter(todo, i + 1)
          BY <1>3, <1>5, <1>10 DEF QueriesConfined
      <2>2. CASE Under(todo, i + 1, Sharing)
          BY <1>1, <1>2, <1>7, <2>2, UnderAhead DEF IsCall
      <2>3. CASE NoCall(todo, i + 1) /\ (Shared(Found) \/ ListedLocations)
          BY <1>1, <1>2, <1>6, <2>3, NoCallAhead DEF Shared
      <2>4. CASE /\ todo[i + 1].do = "ids" /\ request.route = LocationAdminGet
                 /\ NoCallAfter(todo, i + 1)
          BY <1>3, <1>4, <2>4 DEF NoCallAfter
      <2> QED
          BY <2>1, <2>2, <2>3, <2>4
  <1>11. /\ todo'[i].do = "everything" => request.route = MetricSlugs
         /\ IsCall(todo'[i], {"locations"}) => NoCallAfter(todo', i)
      <2>1. /\ todo[i + 1].do = "everything" => request.route = MetricSlugs
            /\ IsCall(todo[i + 1], {"locations"}) => NoCallAfter(todo, i + 1)
          BY <1>3, <1>5 DEF QueriesConfined
      <2> QED
          BY <1>3, <1>4, <2>1 DEF NoCallAfter
  <1>12. ASSUME todo'[i].do = "update"
         PROVE  /\ doc' # None \/ \E j \in 1 .. i - 1 : todo'[j].do = "one"
                /\ \A j \in 1 .. i - 1 : todo'[j].do # "remove"
      <2>1. /\ doc # None \/ \E j \in 1 .. i : todo[j].do = "one"
            /\ \A j \in 1 .. i : todo[j].do # "remove"
          <3>1. i + 1 - 1 = i
              BY <1>3
          <3> QED
              BY <1>3, <1>5, <1>12, <3>1 DEF QueriesConfined
      <2>2. \A j \in 1 .. i - 1 : todo'[j].do # "remove"
          BY <1>3, <1>4, <2>1
      <2>3. Head(todo).do # "remove"
          BY <1>1, <1>3, <2>1
      <2>4. CASE doc # None \/ todo[1].do = "one"
          BY <1>1, <2>2, <2>3, <2>4, StepByHead
      <2>5. CASE \E j \in 2 .. i : todo[j].do = "one"
          <3>1. PICK j \in 2 .. i : todo[j].do = "one"
              BY <2>5
          <3>2. j - 1 \in 1 .. i - 1 /\ todo'[j - 1] = todo[j]
              BY <1>3, <1>4, <3>1
          <3> QED
              BY <2>2, <3>1, <3>2
      <2> QED
          BY <1>3, <2>1, <2>4, <2>5
  <1> QED
      BY <1>8, <1>9, <1>10, <1>11, <1>12

LEMMA StepQueriesConfined ==
    ASSUME TypeOK, Fresh, LetIn, ActsForEntitled, DocumentsConfined, QueriesConfined, Next
    PROVE  QueriesConfined'
  <1> SUFFICES ASSUME stage' = "handler", Guarded'
               PROVE  QueriesConfined'
      BY DEF QueriesConfined
  <1>1. CASE Enforce
      <2>1. /\ stage = "scopes" /\ request' = request /\ todo' = request.route.steps
            /\ filter' = filter
          BY <1>1 DEF Enforce, held
      <2>2. Disciplined(request.route) /\ request.route.groups.by = "primary"
          BY <2>1, RouteKept DEF Guarded
      <2>3. Confines(request.route)
          BY <2>2 DEF Disciplined
      <2>4. ~ListedLocations'
          BY <2>1 DEF Fresh, ListedLocations
      <2> QED
          BY <2>1, <2>3, <2>4 DEF Confines, QueriesConfined
  <1>2. CASE StepOfHandler
      <2>1. Goes /\ Guarded /\ Entitled' = Entitled /\ request' = request
          BY <1>2, HandlerSteps, HandlerKeeps DEF Fails
      <2>2. ASSUME ListedLocations', NEW i \in DOMAIN todo' PROVE todo'[i].do # "parse"
          BY <1>2, <2>1, <2>2, QueriesAhead DEF NoCallLeft
      <2>3. ListedLocations' => NoCallLeft'
          BY <2>2 DEF NoCallLeft
      <2>4. ASSUME NEW i \in DOMAIN todo'
            PROVE /\ todo'[i].do = "one" =>
                        Under(todo', i, Confining) \/ (NoCall(todo', i) /\ Owned(Found)')
                  /\ todo'[i].do = "all" =>
                        \/ Under(todo', i, Sharing)
                        \/ NoCall(todo', i) /\ (Shared(Found)' \/ ListedLocations')
                  /\ todo'[i].do = "ids" =>
                        \/ Under(todo', i, Sharing)
                        \/ NoCall(todo', i) /\ (Shared(Found)' \/ ListedLocations')
                        \/ request'.route = LocationAdminGet /\ NoCallAfter(todo', i)
                  /\ todo'[i].do = "everything" => request'.route = MetricSlugs
                  /\ IsCall(todo'[i], {"locations"}) => NoCallAfter(todo', i)
                  /\ todo'[i].do = "update" =>
                        /\ doc' # None \/ \E j \in 1 .. i - 1 : todo'[j].do = "one"
                        /\ \A j \in 1 .. i - 1 : todo'[j].do # "remove"
          BY <1>2, <2>1, <2>4, QueriesAhead DEF Owned, Shared
      <2> QED
          BY <2>3, <2>4 DEF QueriesConfined, NoCall, NoCallAfter, Under, IsCall
  <1> QED
      BY <1>1, <1>2, NextSteps, AheadOfScopes DEF Answer, TimeOut, Over

-----------------------------------------------------------------------------
(* What anonymous callers may see.                                         *)

LEMMA HeadReads ==
    ASSUME TypeOK, StepOfHandler, Shows
    PROVE  Head(todo).do \notin {"insert", "update", "remove"} /\ ~Write /\ ~RemoveDocument
  <1>1. stage = "handler" /\ 1 \in DOMAIN todo /\ Head(todo) = todo[1]
      BY HandlerSteps, HeadIsFirst
  <1>2. PICK n \in DOMAIN request.route.steps : todo[1] = request.route.steps[n]
      BY <1>1, TodoType
  <1>3. Head(todo).do \notin {"insert", "update", "remove"}
      BY <1>1, <1>2 DEF Shows, ReadsOnly
  <1> QED
      BY <1>3 DEF Write, RemoveDocument, Does

\* A query returns published documents, or the metrics of a location.
LEMMA ShownIsPublished ==
    ASSUME TypeOK, QueriesConfined, PublishedAtHand, StepOfHandler, Shows
    PROVE  OfALocation' \/ \A d \in Shown' : d.published
  <1>1. stage = "handler" /\ 1 \in DOMAIN todo /\ Head(todo) = todo[1]
      BY HandlerSteps, HeadIsFirst
  <1>2. CASE Parse
      <2>1. todo[1].do = "parse" /\ Shown' = Shown
          BY <1>1, <1>2, HeadIsCall, HandlerSteps DEF Shown
      <2> QED
          BY <1>1, <2>1 DEF PublishedAtHand, NoCallLeft
  <1>3. CASE One \/ All \/ ByIds
      <2>1. todo[1].do \in Queries /\ filter' = filter
          BY <1>1, <1>3 DEF One, All, ByIds, Does, Queries
      <2>2. OfALocation \/ \A d \in Found : d.published
          BY <1>1, <2>1, FirstStep DEF PublishedAtHand
      <2>3. OfALocation \/ \A d \in Shown : d.published
          BY DEF PublishedAtHand
      <2>4. OfALocation' = OfALocation
          BY <2>1 DEF OfALocation
      <2>5. \A d \in Shown' : d \in Shown \cup Found
          BY <1>3, HandlerSteps DEF One, All, ByIds, Shown
      <2> QED
          BY <2>2, <2>3, <2>4, <2>5
  <1>4. CASE ParseFails \/ Identify \/ Call
      <2>1. Shown' = Shown /\ OfALocation' = OfALocation
          BY <1>4, HandlerSteps DEF ParseFails, Identify, Call, held, Shown, OfALocation
      <2> QED
          BY <2>1 DEF PublishedAtHand
  <1>5. CASE CountAll
      <2>1. request.route = MetricSlugs /\ request' = request
          BY <1>1, <1>5, HandlerSteps DEF CountAll, Does, QueriesConfined, Shows
      <2>2. Shown' = Shown /\ OfALocation' = OfALocation
          BY <1>5, <2>1 DEF CountAll, Shown, OfALocation
      <2> QED
          BY <2>2 DEF PublishedAtHand
  <1> QED
      BY <1>2, <1>3, <1>4, <1>5, HeadReads DEF StepOfHandler

\* So will the queries to come.
LEMMA PublishedAhead ==
    ASSUME TypeOK, PublishedAtHand, StepOfHandler, Shows, Goes, NEW i \in DOMAIN todo'
    PROVE  /\ OfALocation' => todo'[i].do # "parse"
           /\ todo'[i].do \in Queries =>
                 ~NoCall(todo', i) \/ OfALocation' \/ \A d \in Found' : d.published
           /\ todo'[i].do = "parse" =>
                 IF todo'[i].filters \cap OfLocation = {} THEN "published" \in todo'[i].filters
                 ELSE NoCallAfter(todo', i)
  <1>1. todo \in Seq(AllSteps) /\ todo # <<>> /\ 1 \in DOMAIN todo /\ Head(todo) = todo[1]
      BY HeadIsFirst
  <1>2. todo' = Tail(todo) /\ i \in DOMAIN Tail(todo)
      BY DEF Goes
  <1>3. /\ i + 1 \in DOMAIN todo /\ todo'[i] = todo[i + 1]
        /\ i \in Nat \ {0} /\ i <= Len(todo) - 1 /\ Len(todo) \in Nat
        /\ Len(todo') = Len(todo) - 1 /\ DOMAIN todo = 1 .. Len(todo)
      BY <1>1, <1>2, TailOfSteps
  <1>4. \A j \in 1 .. Len(todo) - 1 : todo'[j] = todo[j + 1]
      BY <1>1, <1>2, TailOfSteps
  <1>5. stage = "handler"
      BY HandlerSteps
  <1>6. /\ OfALocation => \A k \in DOMAIN todo : todo[k].do # "parse"
        /\ todo[i + 1].do \in Queries =>
              ~NoCall(todo, i + 1) \/ OfALocation \/ \A d \in Found : d.published
        /\ \A k \in {1, i + 1} : todo[k].do = "parse" =>
              IF todo[k].filters \cap OfLocation = {} THEN "published" \in todo[k].filters
              ELSE NoCallAfter(todo, k)
      BY <1>1, <1>3, <1>5 DEF PublishedAtHand, NoCallLeft
  <1>7. todo'[i].do = "parse" =>
           IF todo'[i].filters \cap OfLocation = {} THEN "published" \in todo'[i].filters
           ELSE NoCallAfter(todo', i)
      BY <1>3, <1>4, <1>6, SMTT(30) DEF NoCallAfter
  <1>8. CASE Head(todo).do = "parse"
      <2>1. Parse
          BY <1>8, StepByHead
      <2>2. CASE Head(todo).filters \cap OfLocation = {}
          <3>1. \A d \in Found' : d.published
              BY <1>1, <1>6, <1>8, <2>1, <2>2, ParseShowsPublished
          <3>2. ~OfALocation'
              BY <2>1, <2>2, ParseShowsPublished
          <3> QED
              BY <1>7, <3>1, <3>2
      <2>3. CASE Head(todo).filters \cap OfLocation # {}
          <3>1. OfALocation'
              BY <2>1, <2>3, ParseShowsPublished
          <3>2. \A m \in 2 .. Len(todo) : todo[m].do # "parse"
              BY <1>1, <1>6, <1>8, <2>3 DEF NoCallAfter
          <3>3. todo'[i].do # "parse"
              BY <1>3, <3>2
          <3> QED
              BY <1>7, <3>1, <3>3
      <2> QED
          BY <2>2, <2>3
  <1>9. CASE Head(todo).do # "parse"
      <2>1. filter' = filter
          BY <1>9, StepByHead
      <2>2. Found' = Found /\ OfALocation' = OfALocation
          BY <2>1 DEF Found, OfALocation
      <2>3. ASSUME ~NoCall(todo, i + 1) PROVE ~NoCall(todo', i)
          <3>1. PICK k \in 1 .. i : todo[k].do = "parse"
              BY <1>3, <2>3 DEF NoCall
          <3>2. k # 1 /\ k - 1 \in 1 .. i - 1
              BY <1>1, <1>3, <1>9, <3>1
          <3>3. todo'[k - 1] = todo[k]
              BY <1>3, <1>4, <3>2
          <3> QED
              BY <3>1, <3>2, <3>3 DEF NoCall
      <2> QED
          BY <1>3, <1>6, <1>7, <2>2, <2>3
  <1> QED
      BY <1>8, <1>9

LEMMA StepPublishedAtHand ==
    ASSUME TypeOK, Fresh, QueriesConfined, PublishedAtHand, Next
    PROVE  PublishedAtHand'
  <1>1. CASE Ahead \/ Enforce
      <2>1. doc' = None /\ seen' = {} /\ filter' = {}
          BY <1>1 DEF Ahead, Receive, Connect, ContextHttp, JwtRSA, ApiKey, Validate, IncludeGroups,
             EnforcePrimaryGroup, NoGroups, Enforce, Passes, held, Fresh, Before
      <2>2. Shown' = {} /\ ~OfALocation'
          BY <2>1, RequestsAssumption DEF Shown, OfALocation
      <2>3. CASE stage' # "handler"
          BY <2>2, <2>3 DEF PublishedAtHand
      <2>4. CASE stage' = "handler"
          <3>1. Enforce
              BY <1>1, <2>4, AheadOfScopes
          <3>2. /\ stage = "scopes" /\ request' = request /\ handler' = handler /\ service' = service
                /\ todo' = request.route.steps
              BY <2>4, <3>1 DEF Enforce, instance
          <3>3. Shows' => ShowsPublished(request.route)
              BY <3>2, RouteKept DEF Shows, Guarded
          <3> QED
              BY <2>2, <3>2, <3>3 DEF PublishedAtHand, ShowsPublished
      <2> QED
          BY <2>3, <2>4
  <1>2. CASE StepOfHandler
      <2>1. Shows' = Shows
          BY <1>2, HandlerKeeps
      <2>2. stage' = "handler" => Goes
          BY <1>2, HandlerSteps DEF Fails
      <2>3. CASE Shows
          <3>1. OfALocation' \/ \A d \in Shown' : d.published
              BY <1>2, <2>3, ShownIsPublished
          <3>2. CASE Goes
              BY <1>2, <2>3, <3>1, <3>2, PublishedAhead DEF PublishedAtHand, NoCallLeft, NoCallAfter, NoCall
          <3>3. CASE stage' # "handler"
              BY <3>1, <3>3 DEF PublishedAtHand
          <3> QED
              BY <2>2, <3>2, <3>3
      <2> QED
          BY <2>1, <2>3 DEF PublishedAtHand
  <1>3. CASE Answer \/ TimeOut
      BY <1>3 DEF Answer, TimeOut, Over, PublishedAtHand, Shows, Guarded
  <1> QED
      BY <1>1, <1>2, <1>3, NextSteps

\* What is populated, where the routers ask for published documents.
LEMMA StepLinksAtHand ==
    ASSUME TypeOK, Fresh, LinksAtHand, Next
    PROVE  LinksAtHand'
  <1> SUFFICES ASSUME Shows', handler' \in LinksPublished
               PROVE  /\ match'.own \/ \A d \in match'.docs \cup linked' : d.published
                      /\ stage' = "handler" =>
                           \A i \in DOMAIN todo' : todo'[i].do = "parse" =>
                               i = 1 /\ "*.published" \in todo'[i].filters /\ linked' = {}
      BY DEF LinksAtHand
  <1>1. CASE Ahead \/ Enforce
      <2>1. match' = NoMatch /\ linked' = {}
          BY <1>1 DEF Ahead, Receive, Connect, ContextHttp, JwtRSA, ApiKey, Validate, IncludeGroups,
             EnforcePrimaryGroup, NoGroups, Enforce, Passes, held, Fresh, Before
      <2>2. ASSUME stage' = "handler"
            PROVE  \A i \in DOMAIN todo' : todo'[i].do = "parse" =>
                       i = 1 /\ "*.published" \in todo'[i].filters
          <3>1. Enforce
              BY <1>1, <2>2, AheadOfScopes
          <3>2. stage = "scopes" /\ handler' = handler /\ todo' = request.route.steps
              BY <2>2, <3>1 DEF Enforce, instance
          <3>3. request.route \in handler.routes
              BY <3>2, RouteKept
          <3>4. LinksShown(request.route)
              BY <3>2, <3>3, LinksAreShown
          <3> QED
              BY <3>2, <3>4 DEF LinksShown
      <2> QED
          BY <2>1, <2>2 DEF NoMatch
  <1>2. CASE StepOfHandler
      <2>1. Shows /\ handler' = handler /\ stage = "handler" /\ handler \in LinksPublished
          BY <1>2, HandlerKeeps
      <2>2. /\ todo \in Seq(AllSteps) /\ todo # <<>> /\ 1 \in DOMAIN todo /\ Head(todo) = todo[1]
            /\ ~Write /\ ~RemoveDocument
          BY <1>2, <2>1, HeadIsFirst, HeadReads
      <2>3. /\ match.own \/ \A d \in match.docs \cup linked : d.published
            /\ \A i \in DOMAIN todo : todo[i].do = "parse" =>
                  i = 1 /\ "*.published" \in todo[i].filters /\ linked = {}
          BY <2>1 DEF LinksAtHand
      <2>4. match'.own \/ \A d \in match'.docs \cup linked' : d.published
          <3>1. CASE Parse
              <4>1. todo[1].do = "parse" /\ linked' = linked
                  BY <2>2, <3>1, HeadIsCall
              <4> QED
                  BY <2>2, <2>3, <3>1, <4>1, ParseLinksPublished
          <3>2. CASE match' = match /\ linked' \subseteq linked \cup match.docs
              BY <2>3, <3>2
          <3> QED
              BY <1>2, <2>2, <3>1, <3>2
                 DEF StepOfHandler, ParseFails, One, All, ByIds, CountAll, Identify, Call,
                     Populates, held
      <2>5. ASSUME stage' = "handler", NEW i \in DOMAIN todo' PROVE todo'[i].do # "parse"
          <3>1. todo' = Tail(todo)
              BY <1>2, <2>5, HandlerSteps DEF Goes, Fails
          <3>2. i + 1 \in DOMAIN todo /\ todo'[i] = todo[i + 1] /\ i + 1 # 1
              BY <2>2, <2>5, <3>1, TailOfSteps
          <3> QED
              BY <2>3, <3>2
      <2> QED
          BY <2>4, <2>5
  <1>3. CASE Answer \/ TimeOut
      BY <1>3 DEF Answer, TimeOut, Over, Shows, Guarded
  <1> QED
      BY <1>1, <1>2, <1>3, NextSteps

-----------------------------------------------------------------------------
(* The theorems.                                                           *)

LEMMA InitInv == Init => Inv
  <1> SUFFICES ASSUME Init PROVE Inv
      OBVIOUS
  <1>1. stage = "idle" /\ ~Guarded /\ ~Token
      BY DEF Init, Guarded, Token
  <1> QED
      BY <1>1, InitType, InitFresh
         DEF Inv, LetIn, HoldsScopes, ActsForEntitled, DocumentsConfined, QueriesConfined,
             PublishedAtHand, LinksAtHand, Shows

LEMMA StepInv == Inv /\ [Next]_vars => Inv'
  <1> SUFFICES ASSUME Inv, [Next]_vars PROVE Inv'
      OBVIOUS
  <1>1. CASE Next
      BY <1>1, StepType, StepFresh, StepLetIn, StepHoldsScopes, StepActsForEntitled,
         StepDocumentsConfined, StepQueriesConfined, StepPublishedAtHand, StepLinksAtHand DEF Inv
  <1>2. CASE UNCHANGED vars
      <2>1. TypeOK' /\ Fresh'
          BY <1>2, StepType, StepFresh DEF Inv
      <2>2. /\ UNCHANGED <<handler, stage, request, service, groups, todo, filter, match, seen>>
            /\ UNCHANGED <<linked, doc>>
          BY <1>2 DEF vars, instance, locals, held
      <2>3. /\ Guarded' = Guarded /\ Token' = Token /\ Entitled' = Entitled /\ Shows' = Shows
            /\ Found' = Found /\ Shown' = Shown /\ Loose' = Loose /\ OfALocation' = OfALocation
            /\ NoCallLeft' = NoCallLeft /\ ListedLocations' = ListedLocations
          BY <2>2 DEF Guarded, Token, Entitled, Contained, Shows, Found, Shown, Loose, Unconfined,
             OfALocation, NoCallLeft, ListedLocations
      <2>4. LetIn' /\ HoldsScopes' /\ ActsForEntitled'
          BY <2>2, <2>3 DEF Inv, LetIn, HoldsScopes, ActsForEntitled, Contained
      <2>5. DocumentsConfined' /\ QueriesConfined'
          BY <2>2, <2>3 DEF Inv, DocumentsConfined, QueriesConfined, Owned, Shared
      <2>6. PublishedAtHand' /\ LinksAtHand'
          BY <2>2, <2>3 DEF Inv, PublishedAtHand, LinksAtHand
      <2> QED
          BY <2>1, <2>4, <2>5, <2>6 DEF Inv
  <1> QED
      BY <1>1, <1>2

\* Whatever filter a client sends, and through however many queries a handler goes,
\* a route that enforces a primary group has at hand documents of the workspaces the
\* caller is entitled to, or public resources: but for the three queries that
\* Unconfined names.
THEOREM DocumentsAreConfined == Spec => []Confined
  <1>1. Inv => Confined
      BY DEF Inv, DocumentsConfined, Owned, Shared, Confined, InHand, Loose
  <1> QED
      BY <1>1, InitInv, StepInv, PTL DEF Spec

\* Functions open to anonymous callers find published documents, and the metrics
\* of locations, but for the list of all slugs; and layers, widgets and dashboards
\* have published documents populated unless a condition of the client comes later.
THEOREM AnonymousSeePublished == Spec => []PublishedOnly
  <1>1. Inv => PublishedOnly
      BY DEF Inv, PublishedAtHand, LinksAtHand, Shows, Shown, InHand, Unconfined, OfALocation,
             PublishedOnly
  <1> QED
      BY <1>1, InitInv, StepInv, PTL DEF Spec

\* A token that comes to a step that changes something, on a route that names
\* scopes, holds a scope to write for every group it acts for.
THEOREM ChangesNeedScope == Spec => []WritersHoldScope
  <1>1. Inv => WritersHoldScope
      <2> SUFFICES ASSUME Inv, Token, request.route.guards # <<>>,
                          NEW do \in {"insert", "update", "remove", "change"}, Does(do),
                          NEW g \in groups
                   PROVE  \E i \in DOMAIN request.route.guards :
                             \E s \in request.route.guards[i] :
                                s[1] = "write" /\ <<g, s>> \in request.caller.permissions
          BY DEF WritersHoldScope
      <2> DEFINE S == request.route.steps
      <2>1. TypeOK /\ stage = "handler" /\ todo # <<>> /\ Head(todo).do = do
          BY DEF Inv, Does
      <2>2. Disciplined(request.route)
          BY <2>1, RouteKept
      <2>3. PICK n \in DOMAIN S : S[n].do \in Changes
          <3>1. todo \in Seq(AllSteps) /\ \A i \in DOMAIN todo : \E n \in DOMAIN S : todo[i] = S[n]
              BY <2>1, TodoType
          <3> HIDE DEF S
          <3>2. 1 \in DOMAIN todo /\ Head(todo) = todo[1]
              BY <2>1, <3>1, TailOfSteps
          <3> QED
              BY <2>1, <3>1, <3>2 DEF Changes
      <2>4. PICK i \in DOMAIN request.route.guards :
                \A s \in request.route.guards[i] : s[1] = "write"
          BY <2>2, <2>3 DEF Disciplined, GuardsChanges
      <2>5. \E s \in request.route.guards[i] : <<g, s>> \in request.caller.permissions
          BY <2>1, <2>4 DEF Inv, HoldsScopes
      <2> QED
          BY <2>4, <2>5
  <1> QED
      BY <1>1, InitInv, StepInv, PTL DEF Spec

\* A token never moves a document to another workspace: a route that updates
\* admits one workspace, and reads the document of that one before.
THEOREM UpdatesStay == Spec => UpdatesStayInWorkspace
  <1>1. Inv /\ [Next]_vars
           => [(Does("update") /\ Token /\ stage' = "handler") =>
                  doc'.organization = doc.organization]_vars
      <2> SUFFICES ASSUME Inv, Next, Does("update"), Token, stage' = "handler"
                   PROVE  doc'.organization = doc.organization
          BY DEF vars, held
      <2>1. TypeOK /\ stage = "handler" /\ todo # <<>> /\ Head(todo).do = "update"
          BY DEF Inv, Does
      <2>2. StepOfHandler
          <3>1. ~Ahead
              BY AheadOfScopes
          <3>2. ~Enforce /\ ~Answer /\ ~TimeOut
              BY <2>1 DEF Enforce, Answer, TimeOut
          <3> QED
              BY <3>1, <3>2, NextSteps
      <2>3. Write /\ Goes
          BY <2>1, <2>2, HandlerSteps
             DEF StepOfHandler, Parse, ParseFails, One, All, ByIds, CountAll, RemoveDocument,
                 Identify, Call, Does, Fails
      <2>4. /\ 1 \in DOMAIN todo /\ todo[1].do = "update"
          BY <2>1, <2>2, HeadIsFirst
      <2>5. Disciplined(request.route) /\ request.group \in Asked
          BY <2>1, RouteKept
      <2>6. request.route.groups.by = "primary" /\ ~request.route.groups.multiple
          <3>1. PICK n \in DOMAIN request.route.steps : todo[1] = request.route.steps[n]
              BY <2>1, <2>4, TodoType
          <3> QED
              BY <2>4, <2>5, <3>1 DEF Disciplined, OneWorkspace
      <2>7. Guarded
          BY <2>1, <2>6 DEF Guarded, Token
      <2>8. PICK w : request.group = {w}
          <3>1. Cardinality(request.group) = 1
              BY <2>1, <2>6, <2>7 DEF Inv, LetIn
          <3>2. IsFiniteSet(request.group)
              BY <2>5, RequestsAssumption
          <3> QED
              BY <3>1, <3>2, FS_Singleton
      <2>9. Entitled \subseteq {w}
          BY <2>8 DEF Entitled, Token
      <2>10. doc # None /\ doc \in Documents
          <3>1. doc # None
              BY <2>1, <2>4, <2>7 DEF Inv, QueriesConfined
          <3> QED
              BY <2>1, <3>1 DEF TypeOK
      <2>11. doc.organization = w
          BY <2>7, <2>9, <2>10 DEF Inv, DocumentsConfined, Owned
      <2>12. PICK d \in Documents : d.organization \in groups /\ doc' = d
          BY <2>3 DEF Write, Goes, Fails
      <2>13. d.organization \in Entitled
          BY <2>1, <2>7, <2>12 DEF Inv, ActsForEntitled, Documents
      <2> QED
          BY <2>9, <2>11, <2>12, <2>13
  <1> QED
      BY <1>1, InitInv, StepInv, PTL DEF Spec, UpdatesStayInWorkspace
=============================================================================
