------------------------------ MODULE Workspaces ------------------------------
(***************************************************************************)
(* Creation, deletion and reconfiguration of workspaces at the             *)
(* authorization service.                                                  *)
(*                                                                         *)
(* A workspace is a primary group; for each type of role a nested group    *)
(* attached to it and a role assigned to that group; and a permission for  *)
(* each scope, which the roles refer to.  Names are unique, so that        *)
(* nothing can be created twice.  The service knows no transactions: the   *)
(* handlers make a call for every group, role and permission, of which any *)
(* may fail, and catch the error.  The list of nested groups is read       *)
(* through the cache, whose protocol is that of Memberships.               *)
(***************************************************************************)
EXTENDS Naturals, FiniteSets

CONSTANTS
    Orgs,         \* names of workspaces
    Types,        \* types of roles; in the code the owner's, the admin's, the
                  \* editor's, the viewer's and that of the public
    Scopes,       \* what there are permissions for when a workspace is created
    ScopesOf,     \* of each type of role, the scopes that it is to have
    Calls,        \* handlers
    MaxRequests,  \* bound: what clients ask for
    MaxFailures,  \* bound: calls that fail
    None          \* nothing cached, no workspace

ASSUME WorkspacesAssumption ==
    /\ None \notin Orgs /\ \A T \in SUBSET Types : T # None
    /\ Types # {} /\ Scopes # {}
    /\ ScopesOf \in [Types -> SUBSET Scopes]
    /\ MaxRequests \in Nat /\ MaxFailures \in Nat

VARIABLES
    authz,      \* what the authorization service holds of each workspace
    cached,     \* the nested groups that the cache holds for it
    events,     \* workspaces whose deletion was published
    pc,         \* where each handler is
    call,       \* its workspace, what it has read, and what is left to do
    requests,   \* how many there have been
    failures,   \* how many calls have failed
    damaged,    \* history: workspaces on which a call has failed
    torn,       \* history: those on which one failed between the creation of
                \* a group or a role and its attachment
    disturbed   \* history: those on which handlers overlapped, or which one
                \* deletes by a list that is theirs no more

history == <<damaged, torn, disturbed>>
vars == <<authz, cached, events, pc, call, requests, failures, history>>

\* What a workspace is made of: "listed" when its primary group has ever had
\* nested groups.
Parts == [primary : BOOLEAN, listed : BOOLEAN, owned : BOOLEAN,
          nested : SUBSET Types, attached : SUBSET Types,
          permissions : SUBSET Scopes,
          roles : SUBSET Types, assigned : SUBSET Types]
Nothing == [primary |-> FALSE, listed |-> FALSE, owned |-> FALSE,
            nested |-> {}, attached |-> {}, permissions |-> {},
            roles |-> {}, assigned |-> {}]
Complete == [primary |-> TRUE, listed |-> TRUE, owned |-> TRUE,
             nested |-> Types, attached |-> Types, permissions |-> Scopes,
             roles |-> Types, assigned |-> Types]

NoCall == [org |-> None, todo |-> {}, nested |-> {}, permissions |-> {},
           roles |-> {}, type |-> None]
Org(c) == call[c].org
Busy(o) == \E c \in Calls : pc[c] # "idle" /\ Org(c) = o

Init ==
    /\ authz \in [Orgs -> {Nothing, Complete}]
    /\ cached = [o \in Orgs |-> None]
    /\ events = {}
    /\ pc = [c \in Calls |-> "idle"]
    /\ call = [c \in Calls |-> NoCall]
    /\ requests = 0
    /\ failures = 0
    /\ damaged = {}
    /\ torn = {}
    /\ disturbed = {}

-----------------------------------------------------------------------------

Start(c, to, r) ==
    /\ pc[c] = "idle"
    /\ requests < MaxRequests
    /\ requests' = requests + 1
    /\ pc' = [pc EXCEPT ![c] = to]
    /\ call' = [call EXCEPT ![c] = r]
    /\ disturbed' = IF Busy(r.org) THEN disturbed \cup {r.org} ELSE disturbed
    /\ UNCHANGED <<events, failures, damaged, torn>>

Goes(c, from, to, r) ==
    /\ pc[c] = from
    /\ pc' = [pc EXCEPT ![c] = to]
    /\ call' = [call EXCEPT ![c] = IF to = "idle" THEN NoCall ELSE r]
    /\ UNCHANGED requests

\* The stages in which a handler makes several calls at once.  When all of
\* them are answered, it goes on to the next.
\*
\* Mistake: the primary group is removed before the roles.
ThenPrimary ==
    [nested |-> "attach", permissions |-> "roles", roles |-> "assign",
     assign |-> "owners", dropNested |-> "dropPrimary",
     dropRoles |-> "dropPermissions", dropPermissions |-> "publish"]

\* Mistake: the roles are created, and assigned to no group.
ThenUnassigned ==
    [nested |-> "attach", permissions |-> "roles", roles |-> "owners",
     assign |-> "owners", dropNested |-> "dropRoles",
     dropRoles |-> "dropPermissions", dropPermissions |-> "dropPrimary"]

Then ==
    [nested |-> "attach", permissions |-> "roles", roles |-> "assign",
     assign |-> "owners", dropNested |-> "dropRoles",
     dropRoles |-> "dropPermissions", dropPermissions |-> "dropPrimary"]

Todo(c, stage) ==
    CASE stage \in {"nested", "roles", "assign"} -> Types
      [] stage = "permissions" -> Scopes
      [] stage = "dropNested" -> call[c].nested
      [] stage = "dropRoles" -> call[c].roles
      [] stage = "dropPermissions" -> call[c].permissions
      [] OTHER -> {}

Moves(c, from, to) == Goes(c, from, to, [call[c] EXCEPT !.todo = Todo(c, to)])

AllAnswered(c) ==
    /\ pc[c] \in DOMAIN Then /\ call[c].todo = {}
    /\ Moves(c, pc[c], Then[pc[c]])
    /\ UNCHANGED <<authz, cached, events, failures, history>>

One(c, x, stage) ==
    /\ pc[c] = stage /\ x \in call[c].todo
    /\ Goes(c, stage, stage, [call[c] EXCEPT !.todo = @ \ {x}])
    /\ UNCHANGED <<cached, events, failures, history>>

\* What the authorization service holds after calls for X in a stage.  No name
\* is given twice to a group, a role or a permission.
After(c, stage, X) ==
    LET o == Org(c)
        has == authz[o] IN
    CASE stage = "nested" -> [authz EXCEPT ![o].nested = @ \cup X]
      [] stage = "permissions" -> [authz EXCEPT ![o].permissions = @ \cup X]
      [] stage = "roles" -> [authz EXCEPT ![o].roles = @ \cup X]
      [] stage = "assign" ->
            [authz EXCEPT ![o].assigned = @ \cup (X \cap has.nested \cap has.roles)]
      [] stage = "dropNested" ->
            [authz EXCEPT ![o].nested = @ \ X, ![o].assigned = @ \ X,
                          ![o].owned = IF has.nested \subseteq X THEN FALSE ELSE @]
      [] stage = "dropRoles" ->
            [authz EXCEPT ![o].roles = @ \ X, ![o].assigned = @ \ X]
      [] stage = "dropPermissions" -> [authz EXCEPT ![o].permissions = @ \ X]
      [] OTHER -> authz

Exists(c, stage, x) ==
    /\ stage \in {"nested", "permissions", "roles"}
    /\ x \in authz[Org(c)][stage]

\* One of the calls of a stage is answered.
Answered(c, x) ==
    /\ pc[c] \in DOMAIN Then
    /\ One(c, x, pc[c])
    /\ ~Exists(c, pc[c], x)
    /\ authz' = After(c, pc[c], {x})

-----------------------------------------------------------------------------
(* POST of a workspace: createWorkspace.                                   *)

CreateWorkspace(c, o) ==
    /\ Start(c, "primary", [NoCall EXCEPT !.org = o])
    /\ UNCHANGED <<authz, cached>>

\* The group has a new _id, under which nothing is cached.
CreatePrimary(c) ==
    /\ Moves(c, "primary", "nested")
    /\ ~authz[Org(c)].primary
    /\ authz' = [authz EXCEPT ![Org(c)].primary = TRUE]
    /\ cached' = [cached EXCEPT ![Org(c)] = None]
    /\ UNCHANGED <<events, failures, history>>

AlreadyExists(c) ==
    /\ Moves(c, "primary", "idle")
    /\ authz[Org(c)].primary
    /\ UNCHANGED <<authz, cached, events, failures, history>>

\* addNestedGroups, which leaves the list of nested groups in the cache.
AddNestedGroups(c) ==
    /\ Moves(c, "attach", "permissions")
    /\ authz' = [authz EXCEPT ![Org(c)].attached = @ \cup authz[Org(c)].nested,
                              ![Org(c)].listed = TRUE]
    /\ UNCHANGED <<cached, events, failures, history>>

\* addGroupMembers of the owners, which drops the list from the cache.
AddOwners(c) ==
    /\ Moves(c, "owners", "idle")
    /\ authz' = [authz EXCEPT ![Org(c)].owned = TRUE]
    /\ cached' = [cached EXCEPT ![Org(c)] = None]
    /\ UNCHANGED <<events, failures, history>>

-----------------------------------------------------------------------------
(* DELETE of a workspace: deleteWorkspace, and the event.                  *)

\* getGroup finds the primary group.
DeleteWorkspace(c, o) ==
    /\ Start(c, "list", [NoCall EXCEPT !.org = o])
    /\ authz[o].primary
    /\ UNCHANGED <<authz, cached>>

List(o) == IF cached[o] = None THEN authz[o].attached ELSE cached[o]

\* getAllNestedGroups: a workspace without nested groups is not deleted.
NestedGroups(c) ==
    LET o == Org(c) IN
    /\ pc[c] = "list"
    /\ Goes(c, "list", IF List(o) = {} THEN "idle" ELSE "read",
            [call[c] EXCEPT !.nested = List(o)])
    /\ cached' = [cached EXCEPT ![o] = List(o)]
    /\ disturbed' = IF List(o) # authz[o].attached THEN disturbed \cup {o} ELSE disturbed
    /\ UNCHANGED <<authz, events, failures, damaged, torn>>

\* The roles and permissions with the name of the group.
ReadRoles(c) ==
    /\ pc[c] = "read"
    /\ Goes(c, "read", "detach",
            [call[c] EXCEPT !.roles = authz[Org(c)].roles,
                            !.permissions = authz[Org(c)].permissions])
    /\ UNCHANGED <<authz, cached, events, failures, history>>

\* deleteNestedGroups, which leaves the list in the cache as well.
DeleteNestedGroups(c) ==
    /\ Moves(c, "detach", "dropNested")
    /\ authz' = [authz EXCEPT ![Org(c)].attached = @ \ call[c].nested]
    /\ UNCHANGED <<cached, events, failures, history>>

\* deleteGroup, which drops the list from the cache.
DeletePrimary(c) ==
    /\ Moves(c, "dropPrimary", "publish")
    /\ authz' = [authz EXCEPT ![Org(c)].primary = FALSE, ![Org(c)].listed = FALSE]
    /\ cached' = [cached EXCEPT ![Org(c)] = None]
    /\ UNCHANGED <<events, failures, history>>

Publish(c) ==
    /\ Moves(c, "publish", "idle")
    /\ events' = events \cup {Org(c)}
    /\ UNCHANGED <<authz, cached, failures, history>>

-----------------------------------------------------------------------------
(* updateWorkspaceConfig, as far as one workspace goes.                    *)

\* All groups, permissions and roles are read before anything is changed; a
\* group that never had nested groups is not taken for a workspace.
UpdateWorkspaceConfig(c, o) ==
    /\ Start(c, "type", [NoCall EXCEPT !.org = o, !.todo = Types,
                            !.nested = authz[o].nested, !.roles = authz[o].roles,
                            !.permissions = authz[o].permissions])
    /\ authz[o].primary /\ authz[o].listed
    /\ UNCHANGED <<authz, cached>>

NextType(c, t) ==
    /\ pc[c] = "type" /\ t \in call[c].todo
    /\ Goes(c, "type", IF t \in call[c].nested THEN "scopes" ELSE "newGroup",
            [call[c] EXCEPT !.todo = @ \ {t}, !.type = t])
    /\ UNCHANGED <<authz, cached, events, failures, history>>

NewGroup(c) ==
    /\ pc[c] = "newGroup" /\ call[c].type \notin authz[Org(c)].nested
    /\ Goes(c, "newGroup", "newAttach", call[c])
    /\ authz' = [authz EXCEPT ![Org(c)].nested = @ \cup {call[c].type}]
    /\ UNCHANGED <<cached, events, failures, history>>

AttachGroup(c) ==
    /\ pc[c] = "newAttach" /\ call[c].type \in authz[Org(c)].nested
    /\ Goes(c, "newAttach", "scopes", call[c])
    /\ authz' = [authz EXCEPT ![Org(c)].attached = @ \cup {call[c].type}]
    /\ UNCHANGED <<cached, events, failures, history>>

\* A permission that the role at hand is to have; others are not made again.
NewPermission(c, s) ==
    /\ pc[c] = "scopes" /\ s \in ScopesOf[call[c].type]
    /\ s \notin call[c].permissions \cup authz[Org(c)].permissions
    /\ Goes(c, "scopes", "scopes", [call[c] EXCEPT !.permissions = @ \cup {s}])
    /\ authz' = [authz EXCEPT ![Org(c)].permissions = @ \cup {s}]
    /\ UNCHANGED <<cached, events, failures, history>>

\* Mistake: a role that does not exist is passed over.
UpdateRoleOnly(c) ==
    /\ pc[c] = "scopes" /\ ScopesOf[call[c].type] \subseteq call[c].permissions
    /\ Goes(c, "scopes", "type", call[c])
    /\ UNCHANGED <<authz, cached, events, failures, history>>

\* A role that exists is updated with the permissions of its type.
UpdateRole(c) ==
    /\ pc[c] = "scopes" /\ ScopesOf[call[c].type] \subseteq call[c].permissions
    /\ Goes(c, "scopes", IF call[c].type \in call[c].roles THEN "type" ELSE "newRole",
            call[c])
    /\ UNCHANGED <<authz, cached, events, failures, history>>

NewRole(c) ==
    /\ pc[c] = "newRole" /\ call[c].type \notin authz[Org(c)].roles
    /\ Goes(c, "newRole", "newAssign", call[c])
    /\ authz' = [authz EXCEPT ![Org(c)].roles = @ \cup {call[c].type}]
    /\ UNCHANGED <<cached, events, failures, history>>

AssignRole(c) ==
    /\ pc[c] = "newAssign" /\ call[c].type \in authz[Org(c)].nested
    /\ Goes(c, "newAssign", "type", call[c])
    /\ authz' = [authz EXCEPT ![Org(c)].assigned = @ \cup {call[c].type}]
    /\ UNCHANGED <<cached, events, failures, history>>

ConfigUpdated(c) ==
    /\ pc[c] = "type" /\ call[c].todo = {}
    /\ Goes(c, "type", "idle", NoCall)
    /\ UNCHANGED <<authz, cached, events, failures, history>>

-----------------------------------------------------------------------------

\* Stages in which a group or a role may stay behind that is attached to
\* nothing.
Tearing == {"nested", "attach", "roles", "assign", "newAttach", "newAssign",
            "dropNested", "dropRoles"}

\* Where a handler goes that caught an error.
\*
\* Mistake: a deletion that failed counts as one that succeeded.
CaughtAsSuccess(stage) ==
    IF stage \in {"dropNested", "dropRoles", "dropPermissions", "dropPrimary"}
    THEN "publish" ELSE "idle"

Caught(stage) == "idle"

\* A call fails, or the process stops.  Of those made at once with it some are
\* yet carried out.
CallFails(c) ==
    /\ pc[c] # "idle" /\ failures < MaxFailures
    /\ failures' = failures + 1
    /\ \E X \in SUBSET {x \in call[c].todo : ~Exists(c, pc[c], x)} :
          authz' = IF pc[c] \in DOMAIN Then THEN After(c, pc[c], X) ELSE authz
    /\ Goes(c, pc[c], Caught(pc[c]), call[c])
    /\ damaged' = damaged \cup {Org(c)}
    /\ torn' = IF pc[c] \in Tearing THEN torn \cup {Org(c)} ELSE torn
    /\ UNCHANGED <<cached, events, disturbed>>

\* Other handlers read the list of nested groups, and cached lists expire.
ReadList(o) ==
    /\ authz[o].primary /\ cached[o] = None
    /\ cached' = [cached EXCEPT ![o] = authz[o].attached]
    /\ UNCHANGED <<authz, events, pc, call, requests, failures, history>>

Expire(o) ==
    /\ cached[o] # None
    /\ cached' = [cached EXCEPT ![o] = None]
    /\ UNCHANGED <<authz, events, pc, call, requests, failures, history>>

Next ==
    \/ \E c \in Calls :
          \/ \E o \in Orgs : \/ CreateWorkspace(c, o) \/ DeleteWorkspace(c, o)
                             \/ UpdateWorkspaceConfig(c, o)
          \/ \E x \in Types \cup Scopes : Answered(c, x)
          \/ AllAnswered(c)
          \/ CreatePrimary(c) \/ AlreadyExists(c) \/ AddNestedGroups(c) \/ AddOwners(c)
          \/ NestedGroups(c) \/ ReadRoles(c) \/ DeleteNestedGroups(c)
          \/ DeletePrimary(c) \/ Publish(c)
          \/ \E t \in Types : NextType(c, t)
          \/ \E s \in Scopes : NewPermission(c, s)
          \/ NewGroup(c) \/ AttachGroup(c) \/ UpdateRole(c) \/ NewRole(c)
          \/ AssignRole(c) \/ ConfigUpdated(c)
          \/ CallFails(c)
    \/ \E o \in Orgs : ReadList(o) \/ Expire(o)

Spec == Init /\ [][Next]_vars

-----------------------------------------------------------------------------
(* Properties.                                                             *)

Stages == DOMAIN Then \cup {"idle", "primary", "attach", "owners", "list", "read",
    "detach", "dropPrimary", "publish", "type", "newGroup", "newAttach", "scopes",
    "newRole", "newAssign"}

CallRecords ==
    [org : Orgs \cup {None}, todo : SUBSET (Types \cup Scopes), nested : SUBSET Types,
     permissions : SUBSET Scopes, roles : SUBSET Types, type : Types \cup {None}]

\* A handler that is done, or has caught an error, has forgotten its workspace.
CallsOK ==
    /\ pc \in [Calls -> Stages]
    /\ call \in [Calls -> CallRecords]
    /\ \A c \in Calls :
          /\ pc[c] = "idle" => call[c] = NoCall
          /\ pc[c] # "idle" => Org(c) \in Orgs
          /\ call[c].todo \subseteq IF pc[c] \in {"permissions", "dropPermissions"}
                                    THEN Scopes ELSE Types
          /\ pc[c] \in {"newGroup", "newAttach", "scopes", "newRole", "newAssign"} =>
                call[c].type \in Types

\* Every variable has its type.
TypeOK ==
    /\ authz \in [Orgs -> Parts]
    /\ DOMAIN cached = Orgs
    /\ \A o \in Orgs : cached[o] = None \/ cached[o] \subseteq Types
    /\ events \subseteq Orgs
    /\ CallsOK
    /\ requests \in 0 .. MaxRequests /\ failures \in 0 .. MaxFailures
    /\ damaged \subseteq Orgs /\ torn \subseteq damaged /\ disturbed \subseteq Orgs

\* Whatever fails, nothing of a workspace outlives its primary group, so that
\* the name can be taken again: it is created first and removed last.  But for
\* workspaces on which handlers overlapped, or that were deleted by a stale
\* list, and for groups that a failure left unattached.
NothingOutlivesPrimary ==
    \A o \in Orgs \ (disturbed \cup torn) : ~authz[o].primary => authz[o] = Nothing

\* Handlers one after the other, of which no call fails, leave a whole
\* workspace or nothing.
SerialWorkspacesAreWhole ==
    \A o \in Orgs \ (disturbed \cup damaged) :
        ~Busy(o) => authz[o] \in {Nothing, Complete}

\* The scopes that some role is to have.
ScopesOfRoles == UNION {ScopesOf[t] : t \in Types}

\* An update mends what a failure has left of a workspace, but for its owners
\* and for the permissions that no role is to have, which it leaves as they
\* are: unless the failure came between the creation of a group or a role and
\* its attachment, which no update makes up for.
UpdateMends ==
    [][\A c \in Calls :
          ConfigUpdated(c) /\ Org(c) \notin disturbed \cup torn =>
             LET has == authz[Org(c)] IN
             /\ ScopesOfRoles \subseteq has.permissions
             /\ has = [Complete EXCEPT !.owned = has.owned,
                                       !.permissions = has.permissions]]_vars

\* The wipe of the documents is announced when nothing is left of the
\* workspace: not before, and not when the deletion failed.
PublishedWhenGone ==
    [][\A c \in Calls :
          Publish(c) /\ Org(c) \notin disturbed \cup torn => authz[Org(c)] = Nothing]_vars
=============================================================================
