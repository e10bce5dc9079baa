------------------------------- MODULE Routes -------------------------------
(***************************************************************************)
(* The routes of the API: who is admitted, which scopes a token needs, and *)
(* the steps of the handler, in the order of the code: the calls of the    *)
(* router's query parser, the queries they govern, the writes, and the     *)
(* calls of other services.  What is validated in a request and how an     *)
(* answer is written are left out; Requests gives the steps their meaning. *)
(***************************************************************************)
EXTENDS Sequences

\* The groups a request acts for: enforcePrimaryGroup and its options,
\* includeGroups, or no guard of groups.
Primary == [by |-> "primary", multiple |-> FALSE, services |-> FALSE]
Multiple == [Primary EXCEPT !.multiple = TRUE]
Services == [Primary EXCEPT !.services = TRUE]
Included == [Primary EXCEPT !.by = "included"]
Anybody == [Primary EXCEPT !.by = "anybody"]

\* The alternatives of a guard: any one of these scopes will do.
Reads(resource) == {<<"read", resource>>, <<"read", "*">>}
Writes(resource) == {<<"write", resource>>, <<"write", "*">>}
Strictly(verb, resource) == {<<verb, resource>>}

\* The parser: with the query string or with none, and with the filters the
\* handler adds.
Options(filters) == [do |-> "parse", query |-> TRUE, filters |-> filters]
OwnOptions(filters) == [do |-> "parse", query |-> FALSE, filters |-> filters]

Step(name) == [do |-> name]
FindOne == Step("one")    \* one document, or 404
FindAll == Step("all")    \* any documents
FindByIds == Step("ids")  \* of the last ones, those that meet the filter
FindEverything == Step("everything")
Insert == Step("insert")
Update == Step("update")
Remove == Step("remove")
Self == Step("self")      \* the handler needs the identity of the caller
Ask == Step("ask")        \* it reads another service
Change == Step("change")  \* it changes what another service keeps

Route(groups, guards, steps) ==
    [groups |-> groups, guards |-> guards, steps |-> steps]

\* The filters that handlers add.
Organization == {"organization"}
Published == {"published", "organization"}
PublishedLinks == Published \cup {"*.published"}
Parent == {"location"}

\* The shapes that most routes share.  The search index, whose failures are
\* swallowed, can only narrow a list.
List(groups, guard, filters) ==
    Route(groups, <<guard>>, <<Options(filters), FindAll>>)
Get(groups, guard, filters) ==
    Route(groups, <<guard>>, <<Options(filters), FindOne>>)
Slug(guard) == Route(Services, <<guard>>, <<Options(Organization), Ask>>)
Post(guard) == Route(Services, <<guard>>, <<Options({}), Insert>>)
Put(guard) ==
    Route(Services, <<guard>>,
          <<OwnOptions(Organization), FindOne, Options(Organization), Update>>)
Delete(guard) == Route(Primary, <<guard>>, <<Options(Organization), FindOne, Remove>>)

-----------------------------------------------------------------------------
(* Layers, widgets and dashboards.                                         *)

LayerList == List(Multiple, Reads("layers"), PublishedLinks)
LayerGet == Get(Multiple, Reads("layers"), PublishedLinks)
LayerAdminList == List(Primary, Reads("layers"), Organization)
LayerAdminSlug == Slug(Reads("locations"))
LayerAdminGet == Get(Primary, Reads("layers"), Organization)
LayerAdminPost == Post(Writes("layers"))
LayerAdminPut == Put(Writes("layers"))
\* Mistake: whoever reads layers may delete them.
LayerAdminDeleteByReader == Delete(Reads("layers"))
LayerAdminDelete == Delete(Writes("layers"))

WidgetList == List(Multiple, Reads("widgets"), PublishedLinks)
WidgetGet == Get(Multiple, Reads("widgets"), PublishedLinks)
WidgetAdminList == List(Primary, Reads("widgets"), Organization)
WidgetAdminSlug == Slug(Reads("locations"))
WidgetAdminGet == Get(Primary, Reads("widgets"), Organization)
WidgetAdminPost == Post(Writes("widgets"))
WidgetAdminPut == Put(Writes("widgets"))
WidgetAdminDelete == Delete(Writes("widgets"))

DashboardList == List(Multiple, Reads("dashboards"), PublishedLinks)
DashboardGet == Get(Multiple, Reads("dashboards"), PublishedLinks)
DashboardAdminList == List(Primary, Reads("dashboards"), Organization)
DashboardAdminSlug == Slug(Reads("locations"))
DashboardAdminGet == Get(Primary, Reads("dashboards"), Organization)
DashboardAdminPost == Post(Writes("dashboards"))
DashboardAdminPut == Put(Writes("dashboards"))
DashboardAdminDelete == Delete(Writes("dashboards"))

-----------------------------------------------------------------------------
(* Locations.  A list may ask for the public resources of every workspace; *)
(* a location may be asked for with those it intersects.                   *)

LocationList == List(Multiple, Reads("locations"), {"published", "public"})
LocationGet ==
    Route(Multiple, <<Reads("locations")>>,
          <<Options(Published), FindOne, OwnOptions(Published), FindAll,
            Options(Published), FindByIds>>)
LocationPost == Post(Writes("collections"))
LocationPut == Put(Writes("collections"))
LocationDelete == Delete(Writes("collections"))

LocationAdminList == List(Primary, Reads("locations"), {"public"})
LocationAdminSlug == Slug(Reads("locations"))
\* The last query has no filter of the handler's own.
LocationAdminGet ==
    Route(Primary, <<Reads("locations")>>,
          <<Options(Organization), FindOne, OwnOptions(Organization), FindAll,
            Options({}), FindByIds>>)
LocationAdminPost == Post(Writes("locations"))
LocationAdminPut == Put(Writes("locations"))
LocationAdminDelete == Delete(Writes("locations"))

-----------------------------------------------------------------------------
(* Metrics are reached through their location.                             *)

\* The slugs of all metrics are counted, whichever the groups.
MetricSlugs == Route(Multiple, <<Reads("metrics")>>, <<FindEverything>>)
MetricList ==
    Route(Multiple, <<Reads("metrics")>>,
          <<OwnOptions(Published), FindOne, Options({"locations"}), FindAll>>)
MetricGet ==
    Route(Multiple, <<Reads("metrics")>>,
          <<Options(Published), FindOne, Options(Parent), FindOne>>)
MetricAdminList ==
    Route(Primary, <<Reads("metrics")>>,
          <<OwnOptions(Organization), FindOne, Options(Parent), FindAll>>)
MetricAdminGet ==
    Route(Primary, <<Reads("metrics")>>,
          <<Options(Organization), FindOne, Options(Parent), FindOne>>)
MetricAdminDeleteAll ==
    Route(Primary, <<Writes("metrics")>>,
          <<OwnOptions(Organization), FindOne, Remove>>)
MetricAdminDelete ==
    Route(Primary, <<Writes("metrics")>>,
          <<Options(Organization), FindOne, OwnOptions(Parent), FindOne, Remove>>)
MetricAdminAction ==
    Route(Primary, <<Writes("metrics")>>,
          <<OwnOptions(Organization), FindOne, Change, Change>>)
MetricAdminActionOne ==
    Route(Primary, <<Writes("metrics")>>,
          <<OwnOptions(Organization), FindOne, OwnOptions(Parent), FindOne,
            Change, Change>>)

-----------------------------------------------------------------------------
(* Organizations.                                                          *)

\* The counts go group by group, each with a filter of its own.
OrganizationStats ==
    Route(Multiple, <<Reads("locations"), Reads("layers")>>,
          <<OwnOptions(Published), FindAll, OwnOptions(Published), FindAll>>)
OrganizationAdminStats ==
    Route(Services, <<Reads("stats")>>, <<OwnOptions(Organization), Ask, FindAll, Ask>>)
OrganizationAdminList ==
    Route(Anybody, <<Strictly("read", "organizations")>>, <<Ask, Ask>>)
OrganizationAdminGet ==
    Route(Anybody, <<Strictly("read", "organizations")>>, <<Ask, Ask>>)
OrganizationAdminPut ==
    Route(Anybody, <<Strictly("write", "organizations")>>,
          <<Ask, Ask, Change, Change, Change, Ask>>)
OrganizationAdminPost ==
    Route(Anybody, <<Strictly("write", "organizations")>>, <<Ask, Change, Ask>>)
OrganizationAdminDelete ==
    Route(Anybody, <<Strictly("write", "organizations")>>, <<Ask, Change, Change>>)

-----------------------------------------------------------------------------
(* Users.                                                                  *)

ProfileGet == Route(Included, <<>>, <<Self, Ask, Ask>>)
ProfilePut == Route(Included, <<>>, <<Self, Ask, Change, Ask>>)
ProfileDelete == Route(Included, <<>>, <<Self, Ask, Ask, Ask, Change, Change>>)
ProfileEmailPost == Route(Anybody, <<>>, <<Self, Change>>)
ProfileEmailDelete == Route(Anybody, <<>>, <<Self, Change>>)
ProfileEmailGet == Route(Anybody, <<>>, <<Ask, Self, Change>>)
ProfilePassword == Route(Anybody, <<>>, <<Self, Change>>)
ProfileVerify == Route(Anybody, <<>>, <<Self, Ask, Change>>)
ProfileLeave == Route(Anybody, <<>>, <<Self, Ask, Ask, Change>>)
ProfileCountries == Route(Anybody, <<>>, <<>>)

UserAdminList == Route(Services, <<Strictly("read", "users")>>, <<Self, Ask, Ask, Ask>>)
UserAdminGroups == Route(Services, <<Strictly("read", "users")>>, <<Self, Ask, Ask, Ask>>)
UserAdminGet == Route(Services, <<Strictly("read", "users")>>, <<Ask, Ask>>)
UserAdminPost ==
    Route(Services, <<Strictly("write", "users")>>,
          <<Ask, Self, Ask, Ask, Change, Change, Ask>>)
UserAdminPutAll ==
    Route(Services, <<Strictly("write", "users")>>, <<Self, Ask, Ask, Ask, Change>>)
UserAdminPut ==
    Route(Services, <<Strictly("write", "users")>>, <<Ask, Self, Ask, Ask, Change>>)
UserAdminDelete ==
    Route(Services, <<Strictly("write", "users")>>, <<Ask, Self, Ask, Ask, Change>>)

-----------------------------------------------------------------------------
(* Tiles, exports and operations.                                          *)

\* A tile is served to anybody, of any layer.
Tile == Route(Anybody, <<>>, <<FindOne, Ask, Ask, Change>>)
ExportRaster ==
    Route(Multiple, <<Reads("exports")>>, <<Options(Published), FindOne, FindOne, Ask>>)
Reindex == Route(Anybody, <<>>, <<Change>>)

-----------------------------------------------------------------------------
(* The functions: how a caller is authenticated, and the routes served.    *)

Handler(auth, routes) == [auth |-> auth, routes |-> routes]

LayerOpen == Handler("anonymous", {LayerList, LayerGet})
LayerManagement ==
    Handler("auth", {LayerAdminList, LayerAdminSlug, LayerAdminGet,
                     LayerAdminPost, LayerAdminPut, LayerAdminDelete})
WidgetOpen == Handler("anonymous", {WidgetList, WidgetGet})
WidgetManagement ==
    Handler("auth", {WidgetAdminList, WidgetAdminSlug, WidgetAdminGet,
                     WidgetAdminPost, WidgetAdminPut, WidgetAdminDelete})
DashboardOpen == Handler("anonymous", {DashboardList, DashboardGet})
DashboardManagement ==
    Handler("auth", {DashboardAdminList, DashboardAdminSlug, DashboardAdminGet,
                     DashboardAdminPost, DashboardAdminPut, DashboardAdminDelete})
LocationOpen ==
    Handler("anonymous", {LocationList, LocationGet, LocationPost,
                          LocationPut, LocationDelete})
LocationManagement ==
    Handler("auth", {LocationAdminList, LocationAdminSlug, LocationAdminGet,
                     LocationAdminPost, LocationAdminPut, LocationAdminDelete})
MetricOpen == Handler("anonymous", {MetricSlugs, MetricList, MetricGet})
MetricManagement ==
    Handler("auth", {MetricAdminList, MetricAdminGet, MetricAdminDeleteAll,
                     MetricAdminDelete, MetricAdminAction, MetricAdminActionOne})
OrganizationOpen == Handler("anonymous", {OrganizationStats})
OrganizationManagement ==
    Handler("auth", {OrganizationAdminStats, OrganizationAdminList,
                     OrganizationAdminGet, OrganizationAdminPut,
                     OrganizationAdminPost, OrganizationAdminDelete})
UserOpen == Handler("anonymous", {ProfileCountries})
UserProfile ==
    Handler("auth", {ProfileGet, ProfilePut, ProfileDelete, ProfileEmailPost,
                     ProfileEmailDelete, ProfileEmailGet, ProfilePassword,
                     ProfileVerify, ProfileLeave})
UserManagement ==
    Handler("auth", {UserAdminList, UserAdminGroups, UserAdminGet, UserAdminPost,
                     UserAdminPutAll, UserAdminPut, UserAdminDelete})
TileOpen == Handler("open", {Tile})
ExportManagement == Handler("auth", {ExportRaster})
OperationManagement == Handler("system", {Reindex})

Functions ==
    {LayerOpen, LayerManagement, WidgetOpen, WidgetManagement, DashboardOpen,
     DashboardManagement, LocationOpen, LocationManagement,
     MetricOpen, MetricManagement, OrganizationOpen, OrganizationManagement,
     UserOpen, UserProfile, UserManagement, TileOpen, ExportManagement, OperationManagement}

-----------------------------------------------------------------------------
(* The scopes that the roles of a workspace, and the global role, carry.   *)

RoleScopes(role) ==
    CASE role = "Public" ->
            {"read"} \X {"locations", "layers", "widgets", "dashboards", "collections"}
      [] role = "Viewer" -> {<<"read", "*">>, <<"write", "collections">>}
      [] role = "Editor" -> {<<"read", "*">>, <<"write", "*">>}
      [] role \in {"Admin", "Owner"} -> {"read", "write"} \X {"*", "users"}
      [] role = "SuperAdmin" -> {"read", "write"} \X {"organizations"}
=============================================================================
