--------------------------- MODULE WorkspacesProofs ---------------------------
(***************************************************************************)
(* Theorems about Workspaces, for any workspaces, types of roles, scopes   *)
(* and handlers, and whatever number of calls fail; and about Wipes, the   *)
(* clean-up of a deleted workspace, in the section at the end.             *)
(*                                                                         *)
(* A handler alone on a workspace knows what it has to do: what the        *)
(* service holds follows, at each of its stages, from what the handler has *)
(* read and what is left to do.  During says how far that goes when        *)
(* earlier calls have failed, Exact when none has.                         *)
(***************************************************************************)
EXTENDS Workspaces, TLAPS

\* One handler at a time works on a workspace that is not disturbed.
OneAtATime ==
    \A c, d \in Calls :
        pc[c] # "idle" /\ pc[d] # "idle" /\ c # d /\ Org(c) = Org(d) =>
            Org(c) \in disturbed

\* What is attached to a workspace exists, what is assigned is a role, and
\* owners are members of a group.
Sound(a) ==
    /\ a.attached \subseteq a.nested
    /\ a.assigned \subseteq a.roles
    /\ a.owned => a.nested # {}

\* A workspace at rest has no group or role that is attached to nothing.
AtRest(a) ==
    /\ Sound(a)
    /\ a.nested = a.attached
    /\ a.roles = a.assigned
    /\ ~a.primary => a = Nothing

Creating == {"nested", "attach", "permissions", "roles", "assign", "owners"}
Dropping == {"dropNested", "dropRoles", "dropPermissions", "dropPrimary"}
Updating == {"type", "newGroup", "newAttach", "scopes", "newRole", "newAssign"}

\* The types that an update has dealt with, and the one it deals with.
Dealt(r) == Types \ (r.todo \cup {r.type})

\* What the service holds of a workspace, a, while one handler is in a stage,
\* with what it has read and what is left to do in r.
DuringCreation(stage, a, r) ==
    /\ a.primary
    /\ stage = "nested" => Types \ r.todo \subseteq a.nested
    /\ stage # "nested" => a.nested = Types
    /\ stage \notin {"nested", "attach"} => a.attached = Types
    /\ stage \notin {"roles", "assign"} => a.roles = a.assigned
    /\ stage = "assign" => a.roles \ a.assigned \subseteq r.todo

DuringDeletion(stage, a, r) ==
    /\ a.primary
    /\ stage \in {"list", "read", "detach"} =>
          a.nested = a.attached /\ a.roles = a.assigned
    /\ stage \in {"read", "detach"} => r.nested = a.nested
    /\ stage = "detach" => r.roles = a.roles
    /\ stage \in {"detach", "dropNested", "dropRoles"} => r.permissions = a.permissions
    /\ stage \in Dropping =>
          /\ a.attached = {}
          /\ a.nested = IF stage = "dropNested" THEN r.todo ELSE {}
          /\ a.roles = CASE stage = "dropNested" -> r.roles
                         [] stage = "dropRoles" -> r.todo
                         [] OTHER -> {}
          /\ stage = "dropPermissions" => a.permissions = r.todo
          /\ stage = "dropPrimary" => a.permissions = {}

DuringUpdate(stage, a, r) ==
    /\ a.primary /\ a.listed
    /\ r.permissions = a.permissions
    /\ r.nested \subseteq a.nested /\ r.roles \subseteq a.roles
    /\ stage = "type" => /\ Types \ r.todo \subseteq a.nested \cap a.roles
                         /\ \A t \in Types \ r.todo : ScopesOf[t] \subseteq r.permissions
    /\ stage # "type" => /\ r.type \in Types \ r.todo
                         /\ Dealt(r) \subseteq a.nested \cap a.roles
                         /\ \A t \in Dealt(r) : ScopesOf[t] \subseteq r.permissions
    /\ stage \in {"newRole", "newAssign"} => ScopesOf[r.type] \subseteq r.permissions
    /\ stage \in {"newAttach", "scopes", "newRole", "newAssign"} => r.type \in a.nested
    /\ IF stage = "newAttach" THEN a.nested \subseteq a.attached \cup {r.type}
                              ELSE a.nested = a.attached
    /\ IF stage = "newAssign" THEN r.type \in a.roles /\ a.roles \subseteq a.assigned \cup {r.type}
                              ELSE a.roles = a.assigned

During(stage, a, r) ==
    /\ Sound(a)
    /\ stage = "primary" => AtRest(a)
    /\ stage \in Creating => DuringCreation(stage, a, r)
    /\ stage \in {"list", "read", "detach"} \cup Dropping => DuringDeletion(stage, a, r)
    /\ stage = "publish" => a = Nothing
    /\ stage \in Updating => DuringUpdate(stage, a, r)

\* Whatever has failed, short of leaving something unattached.
Mendable ==
    \A o \in Orgs \ (disturbed \cup torn) :
        /\ ~Busy(o) => AtRest(authz[o])
        /\ \A c \in Calls :
              pc[c] # "idle" /\ Org(c) = o => During(pc[c], authz[o], call[c])

\* All that the service holds of a workspace, on which no call has failed.
Exact(stage, a, r) ==
    /\ stage = "primary" => a \in {Nothing, Complete}
    /\ stage \in Creating =>
          /\ a.primary /\ ~a.owned
          /\ a.listed <=> (stage \notin {"nested", "attach"})
          /\ a.nested = IF stage = "nested" THEN Types \ r.todo ELSE Types
          /\ a.attached = IF stage \in {"nested", "attach"} THEN {} ELSE Types
          /\ a.permissions = CASE stage \in {"nested", "attach"} -> {}
                               [] stage = "permissions" -> Scopes \ r.todo
                               [] OTHER -> Scopes
          /\ a.roles = CASE stage \in {"nested", "attach", "permissions"} -> {}
                         [] stage = "roles" -> Types \ r.todo
                         [] OTHER -> Types
          /\ a.assigned = CASE stage = "assign" -> Types \ r.todo
                            [] stage = "owners" -> Types
                            [] OTHER -> {}
    /\ stage \in {"list", "read", "detach"} => a = Complete
    /\ stage \in Updating =>
          /\ a = Complete /\ stage \in {"type", "scopes"}
          /\ r.nested = Types /\ r.roles = Types /\ r.permissions = Scopes

SerialExact ==
    \A o \in Orgs \ (disturbed \cup damaged) :
        /\ ~Busy(o) => authz[o] \in {Nothing, Complete}
        /\ \A c \in Calls :
              pc[c] # "idle" /\ Org(c) = o => Exact(pc[c], authz[o], call[c])

-----------------------------------------------------------------------------
(* Types.                                                                  *)

LEMMA EmptyCall ==
    /\ NoCall \in CallRecords
    /\ NoCall.org = None /\ NoCall.todo = {}
  BY DEF NoCall, CallRecords

\* What is left to do at the beginning of a stage.
LEMMA TodoFits ==
    ASSUME CallsOK, NEW c \in Calls, NEW stage \in Stages
    PROVE  Todo(c, stage) \subseteq IF stage \in {"permissions", "dropPermissions"}
                                    THEN Scopes ELSE Types
  <1>1. /\ call[c].nested \subseteq Types /\ call[c].roles \subseteq Types
        /\ call[c].permissions \subseteq Scopes
      BY DEF CallsOK, CallRecords
  <1>2. CASE stage \in {"nested", "roles", "assign", "permissions"}
      BY <1>2 DEF Todo
  <1>3. CASE stage \in {"dropNested", "dropRoles", "dropPermissions"}
      BY <1>1, <1>3 DEF Todo
  <1>4. CASE stage \notin {"nested", "roles", "assign", "permissions",
                           "dropNested", "dropRoles", "dropPermissions"}
      BY <1>4 DEF Todo
  <1> QED
      BY <1>2, <1>3, <1>4

\* A handler that goes on, or begins.
LEMMA CallChanges ==
    ASSUME CallsOK, NEW c \in Calls, NEW to \in Stages, NEW r \in CallRecords,
           to = "idle" \/ r.org \in Orgs,
           to = "idle" => r = NoCall,
           r.todo \subseteq IF to \in {"permissions", "dropPermissions"}
                            THEN Scopes ELSE Types,
           to \in {"newGroup", "newAttach", "scopes", "newRole", "newAssign"} =>
              r.type \in Types,
           pc' = [pc EXCEPT ![c] = to],
           call' = [call EXCEPT ![c] = r]
    PROVE  CallsOK'
  <1>1. pc' \in [Calls -> Stages] /\ call' \in [Calls -> CallRecords]
      BY DEF CallsOK
  <1>2. ASSUME NEW d \in Calls
        PROVE  /\ pc'[d] = "idle" => call'[d] = NoCall
               /\ pc'[d] # "idle" => call'[d].org \in Orgs
               /\ call'[d].todo \subseteq
                     IF pc'[d] \in {"permissions", "dropPermissions"}
                     THEN Scopes ELSE Types
               /\ pc'[d] \in {"newGroup", "newAttach", "scopes", "newRole", "newAssign"} =>
                     call'[d].type \in Types
      <2>1. CASE d = c
          BY <2>1 DEF CallsOK
      <2>2. CASE d # c
          <3>1. pc'[d] = pc[d] /\ call'[d] = call[d]
              BY <2>2 DEF CallsOK
          <3> QED
              BY <3>1 DEF CallsOK, Org
      <2> QED
          BY <2>1, <2>2
  <1> QED
      BY <1>1, <1>2 DEF CallsOK, Org

LEMMA MovesCalls ==
    ASSUME CallsOK, NEW c \in Calls, NEW from \in Stages \ ({"idle"} \cup Updating),
           NEW to \in Stages \ Updating, Moves(c, from, to)
    PROVE  CallsOK'
  <1> DEFINE r == [call[c] EXCEPT !.todo = Todo(c, to)]
  <1>1. Todo(c, to) \subseteq IF to \in {"permissions", "dropPermissions"}
                             THEN Scopes ELSE Types
      BY TodoFits
  <1>2. pc[c] = from /\ call[c] \in CallRecords /\ call[c].org \in Orgs
      BY DEF Moves, Goes, CallsOK, Org
  <1>3. r \in CallRecords /\ r.org = call[c].org /\ r.todo = Todo(c, to)
      BY <1>1, <1>2 DEF CallRecords
  <1>4. /\ pc' = [pc EXCEPT ![c] = to]
        /\ call' = [call EXCEPT ![c] = IF to = "idle" THEN NoCall ELSE r]
      BY DEF Moves, Goes
  <1> HIDE DEF r
  <1>5. CASE to = "idle"
      BY <1>4, <1>5, EmptyCall, CallChanges
  <1>6. CASE to # "idle"
      BY <1>1, <1>2, <1>3, <1>4, <1>6, CallChanges DEF Updating
  <1> QED
      BY <1>5, <1>6

\* A request is taken.
LEMMA StartType ==
    ASSUME TypeOK, NEW c \in Calls, NEW to \in {"primary", "list", "type"},
           NEW r \in CallRecords, r.org \in Orgs, r.todo \subseteq Types,
           Start(c, to, r), UNCHANGED <<authz, cached>>
    PROVE  TypeOK'
  <1>1. CallsOK'
      BY CallChanges DEF TypeOK, Start, Stages
  <1>2. requests' \in 0 .. MaxRequests
      BY WorkspacesAssumption DEF TypeOK, Start
  <1>3. disturbed' \subseteq Orgs
      BY DEF TypeOK, Start
  <1> QED
      BY <1>1, <1>2, <1>3 DEF TypeOK, Start

LEMMA StartsType ==
    ASSUME TypeOK, NEW c \in Calls, NEW o \in Orgs,
           CreateWorkspace(c, o) \/ DeleteWorkspace(c, o) \/ UpdateWorkspaceConfig(c, o)
    PROVE  TypeOK'
  <1>1. CASE CreateWorkspace(c, o) \/ DeleteWorkspace(c, o)
      <2> DEFINE r == [NoCall EXCEPT !.org = o]
      <2>1. r \in CallRecords /\ r.org = o /\ r.todo = {}
          BY DEF NoCall, CallRecords
      <2>2. \E to \in {"primary", "list"} : Start(c, to, r) /\ UNCHANGED <<authz, cached>>
          BY <1>1 DEF CreateWorkspace, DeleteWorkspace
      <2> HIDE DEF r
      <2> QED
          BY <2>1, <2>2, StartType
  <1>2. CASE UpdateWorkspaceConfig(c, o)
      <2> DEFINE r == [NoCall EXCEPT !.org = o, !.todo = Types, !.nested = authz[o].nested,
                          !.roles = authz[o].roles, !.permissions = authz[o].permissions]
      <2>1. authz[o] \in Parts
          BY DEF TypeOK
      <2>2. r \in CallRecords /\ r.org = o /\ r.todo = Types
          BY <2>1 DEF NoCall, CallRecords, Parts
      <2>3. Start(c, "type", r) /\ UNCHANGED <<authz, cached>>
          BY <1>2 DEF UpdateWorkspaceConfig
      <2> HIDE DEF r
      <2> QED
          BY <2>2, <2>3, StartType
  <1> QED
      BY <1>1, <1>2

\* What the calls of a stage leave is a workspace as well.
LEMMA AfterType ==
    ASSUME TypeOK, NEW c \in Calls, pc[c] # "idle", NEW X \in SUBSET call[c].todo
    PROVE  After(c, pc[c], X) \in [Orgs -> Parts]
  <1>1. Org(c) \in Orgs /\ authz \in [Orgs -> Parts]
      BY DEF TypeOK, CallsOK
  <1>2. X \subseteq IF pc[c] \in {"permissions", "dropPermissions"} THEN Scopes ELSE Types
      BY DEF TypeOK, CallsOK
  <1>3. authz[Org(c)] \in Parts
      BY <1>1
  <1>4. CASE pc[c] \in {"nested", "roles"}
      BY <1>1, <1>2, <1>3, <1>4 DEF After, Parts
  <1>5. CASE pc[c] = "permissions"
      BY <1>1, <1>2, <1>3, <1>5 DEF After, Parts
  <1>6. CASE pc[c] = "assign"
      BY <1>1, <1>2, <1>3, <1>6 DEF After, Parts
  <1>7. CASE pc[c] = "dropNested"
      <2> DEFINE b == IF authz[Org(c)].nested \subseteq X THEN FALSE ELSE authz[Org(c)].owned
      <2>1. b \in BOOLEAN
          BY <1>3 DEF Parts
      <2>2. After(c, pc[c], X) =
               [authz EXCEPT ![Org(c)].nested = authz[Org(c)].nested \ X,
                             ![Org(c)].assigned = authz[Org(c)].assigned \ X,
                             ![Org(c)].owned = b]
          BY <1>1, <1>3, <1>7 DEF After, Parts
      <2> HIDE DEF b
      <2> QED
          BY <1>1, <1>3, <2>1, <2>2 DEF Parts
  <1>8. CASE pc[c] \in {"dropRoles", "dropPermissions"}
      BY <1>1, <1>3, <1>8 DEF After, Parts
  <1>9. CASE pc[c] \notin {"nested", "roles", "permissions", "assign", "dropNested",
                           "dropRoles", "dropPermissions"}
      BY <1>1, <1>9 DEF After
  <1> QED
      BY <1>4, <1>5, <1>6, <1>7, <1>8, <1>9

LEMMA StagesType ==
    ASSUME TypeOK, NEW c \in Calls,
           (\E x \in Types \cup Scopes : Answered(c, x)) \/ AllAnswered(c)
    PROVE  TypeOK'
  <1>1. ASSUME NEW x \in Types \cup Scopes, Answered(c, x) PROVE TypeOK'
      <2> DEFINE r == [call[c] EXCEPT !.todo = call[c].todo \ {x}]
      <2>1. /\ pc[c] \in DOMAIN Then /\ pc[c] # "idle"
            /\ x \in call[c].todo
            /\ pc' = [pc EXCEPT ![c] = pc[c]]
            /\ call' = [call EXCEPT ![c] = r]
            /\ authz' = After(c, pc[c], {x})
            /\ UNCHANGED <<cached, events, failures, history, requests>>
          BY <1>1 DEF Answered, One, Goes, Then, CallRecords, TypeOK, CallsOK
      <2>2. call[c] \in CallRecords /\ call[c].org \in Orgs /\ pc[c] \in Stages
          BY <2>1 DEF TypeOK, CallsOK, Org
      <2>3. r \in CallRecords /\ r.org \in Orgs /\ r.todo \subseteq call[c].todo
          BY <2>2 DEF CallRecords
      <2> HIDE DEF r
      <2>4. CallsOK'
          <3>1. pc[c] \notin {"newGroup", "newAttach", "scopes", "newRole", "newAssign"}
              BY <2>1 DEF Then
          <3>2. r.todo \subseteq IF pc[c] \in {"permissions", "dropPermissions"}
                                THEN Scopes ELSE Types
              BY <2>3 DEF TypeOK, CallsOK
          <3>3. CallsOK /\ pc[c] # "idle"
              BY <2>1 DEF TypeOK
          <3> HIDE DEF Then
          <3> QED
              BY ONLY <2>1, <2>2, <2>3, <3>1, <3>2, <3>3, CallChanges
      <2>5. authz' \in [Orgs -> Parts]
          BY <2>1, AfterType
      <2> QED
          BY <2>1, <2>4, <2>5 DEF TypeOK, history
  <1>2. CASE AllAnswered(c)
      <2>1. /\ pc[c] \in DOMAIN Then /\ Moves(c, pc[c], Then[pc[c]])
            /\ UNCHANGED <<authz, cached, events, failures, history, requests>>
          BY <1>2 DEF AllAnswered, Moves, Goes
      <2>2. /\ pc[c] \in Stages \ ({"idle"} \cup Updating)
            /\ Then[pc[c]] \in Stages \ Updating
          BY <2>1 DEF Then, Stages, Updating
      <2>3. CallsOK'
          BY <2>1, <2>2, MovesCalls DEF TypeOK
      <2> QED
          BY <2>1, <2>3 DEF TypeOK, history
  <1> QED
      BY <1>1, <1>2

\* The steps of a creation and of a deletion.
LEMMA MovesType ==
    ASSUME TypeOK, NEW c \in Calls,
           \/ CreatePrimary(c) \/ AlreadyExists(c) \/ AddNestedGroups(c) \/ AddOwners(c)
           \/ DeleteNestedGroups(c) \/ DeletePrimary(c) \/ Publish(c)
    PROVE  TypeOK'
  <1>1. CallsOK'
      <2>1. \E from \in {"primary", "attach", "owners", "detach", "dropPrimary", "publish"},
               to \in {"nested", "permissions", "idle", "dropNested", "publish"} :
                 Moves(c, from, to)
          BY DEF CreatePrimary, AlreadyExists, AddNestedGroups, AddOwners,
                 DeleteNestedGroups, DeletePrimary, Publish
      <2>2. PICK from \in {"primary", "attach", "owners", "detach", "dropPrimary", "publish"},
                 to \in {"nested", "permissions", "idle", "dropNested", "publish"} :
                 Moves(c, from, to)
          BY <2>1
      <2>3. from \in Stages \ ({"idle"} \cup Updating) /\ to \in Stages \ Updating
          BY DEF Stages, Updating, Then
      <2> QED
          BY <2>2, <2>3, MovesCalls DEF TypeOK
  <1>2. /\ authz' \in [Orgs -> Parts]
        /\ UNCHANGED <<failures, requests, history>>
        /\ cached' = cached \/ cached' = [cached EXCEPT ![Org(c)] = None]
        /\ events' = events \/ events' = events \cup {Org(c)}
      <2>1. Org(c) \in Orgs
          BY DEF CreatePrimary, AlreadyExists, AddNestedGroups, AddOwners, TypeOK, CallsOK,
                 DeleteNestedGroups, DeletePrimary, Publish, Moves, Goes
      <2>2. authz \in [Orgs -> Parts] /\ authz[Org(c)] \in Parts
          BY <2>1 DEF TypeOK
      <2>3. call[c].nested \subseteq Types
          BY DEF TypeOK, CallsOK, CallRecords
      <2>4. CASE CreatePrimary(c)
          BY <2>1, <2>2, <2>4 DEF CreatePrimary, Parts, Moves, Goes
      <2>5. CASE AlreadyExists(c) \/ Publish(c)
          BY <2>1, <2>2, <2>5 DEF AlreadyExists, Publish, Moves, Goes
      <2>6. CASE AddOwners(c)
          BY <2>1, <2>2, <2>6 DEF AddOwners, Parts, Moves, Goes
      <2>7. CASE AddNestedGroups(c)
          BY <2>1, <2>2, <2>7 DEF AddNestedGroups, Parts, Moves, Goes
      <2>8. CASE DeleteNestedGroups(c)
          BY <2>1, <2>2, <2>3, <2>8 DEF DeleteNestedGroups, Parts, Moves, Goes
      <2>9. CASE DeletePrimary(c)
          BY <2>1, <2>2, <2>9 DEF DeletePrimary, Parts, Moves, Goes
      <2> QED
          BY <2>4, <2>5, <2>6, <2>7, <2>8, <2>9
  <1>3. pc[c] # "idle"
      BY DEF CreatePrimary, AlreadyExists, AddNestedGroups, AddOwners,
             DeleteNestedGroups, DeletePrimary, Publish, Moves, Goes
  <1>4. Org(c) \in Orgs
      BY <1>3 DEF TypeOK, CallsOK
  <1> QED
      BY <1>1, <1>2, <1>4 DEF TypeOK, history

\* The reads of a deletion.
LEMMA ReadsType ==
    ASSUME TypeOK, NEW c \in Calls, NestedGroups(c) \/ ReadRoles(c)
    PROVE  TypeOK'
  <1>1. /\ pc[c] # "idle" /\ pc[c] \in {"list", "read"}
        /\ UNCHANGED <<authz, events, failures, damaged, torn, requests>>
      BY DEF NestedGroups, ReadRoles, Goes, history
  <1>2. Org(c) \in Orgs /\ call[c] \in CallRecords /\ authz[Org(c)] \in Parts
      BY <1>1 DEF TypeOK, CallsOK
  <1>3. call[c].org \in Orgs /\ call[c].todo \subseteq Types
      BY <1>1, <1>2 DEF TypeOK, CallsOK, Org
  <1>4. CASE NestedGroups(c)
      <2> DEFINE r == [call[c] EXCEPT !.nested = List(Org(c))]
                 to == IF List(Org(c)) = {} THEN "idle" ELSE "read"
      <2>1. List(Org(c)) \subseteq Types
          BY <1>2 DEF List, TypeOK, Parts
      <2>2. r \in CallRecords /\ r.org \in Orgs /\ r.todo \subseteq Types
          BY <1>2, <1>3, <2>1 DEF CallRecords
      <2>3. /\ pc' = [pc EXCEPT ![c] = to]
            /\ call' = [call EXCEPT ![c] = IF to = "idle" THEN NoCall ELSE r]
            /\ cached' = [cached EXCEPT ![Org(c)] = List(Org(c))]
            /\ disturbed' \in {disturbed, disturbed \cup {Org(c)}}
          BY <1>4 DEF NestedGroups, Goes
      <2>4. CallsOK'
          <3>1. to \in {"idle", "read"} /\ to \in Stages
              BY DEF Stages
          <3> HIDE DEF r, to
          <3>2. CASE to = "idle"
              BY <2>3, <3>1, <3>2, CallChanges, EmptyCall DEF TypeOK
          <3>3. CASE to = "read"
              BY <2>2, <2>3, <3>1, <3>3, CallChanges DEF TypeOK
          <3> QED
              BY <3>1, <3>2, <3>3
      <2> HIDE DEF r, to
      <2> QED
          BY <1>1, <1>2, <2>1, <2>3, <2>4 DEF TypeOK
  <1>5. CASE ReadRoles(c)
      <2> DEFINE r == [call[c] EXCEPT !.roles = authz[Org(c)].roles,
                                      !.permissions = authz[Org(c)].permissions]
      <2>1. r \in CallRecords /\ r.org \in Orgs /\ r.todo \subseteq Types
          BY <1>2, <1>3 DEF CallRecords, Parts
      <2>2. /\ pc' = [pc EXCEPT ![c] = "detach"]
            /\ call' = [call EXCEPT ![c] = r]
            /\ UNCHANGED <<cached, disturbed>>
          BY <1>5 DEF ReadRoles, Goes, history
      <2>3. "detach" \in Stages
          BY DEF Stages
      <2> HIDE DEF r
      <2>4. CallsOK'
          BY <2>1, <2>2, <2>3, CallChanges DEF TypeOK
      <2> QED
          BY <1>1, <2>2, <2>4 DEF TypeOK
  <1> QED
      BY <1>4, <1>5

\* The steps of an update.
LEMMA UpdatesType ==
    ASSUME TypeOK, NEW c \in Calls,
           \/ \E t \in Types : NextType(c, t)
           \/ \E s \in Scopes : NewPermission(c, s)
           \/ NewGroup(c) \/ AttachGroup(c) \/ UpdateRole(c) \/ NewRole(c)
           \/ AssignRole(c) \/ ConfigUpdated(c)
    PROVE  TypeOK'
  <1>1. /\ pc[c] \in Updating
        /\ UNCHANGED <<cached, events, failures, history, requests>>
      BY DEF NextType, NewPermission, NewGroup, AttachGroup, UpdateRole, NewRole,
             AssignRole, ConfigUpdated, Goes, Updating
  <1>2. /\ Org(c) \in Orgs /\ call[c].org = Org(c)
        /\ call[c] \in CallRecords /\ authz[Org(c)] \in Parts
        /\ call[c].todo \subseteq Types
        /\ pc[c] # "type" => call[c].type \in Types
      BY <1>1 DEF TypeOK, CallsOK, Updating, Org
  <1>3. CallsOK'
      <2>1. ASSUME NEW to \in Updating, NEW r \in CallRecords, r.org = Org(c),
                   r.todo \subseteq Types, to # "type" => r.type \in Types,
                   pc' = [pc EXCEPT ![c] = to], call' = [call EXCEPT ![c] = r]
            PROVE  CallsOK'
          <3>1. to \in Stages /\ to # "idle" /\ to \notin {"permissions", "dropPermissions"}
              BY DEF Stages, Updating
          <3> QED
              BY <1>2, <2>1, <3>1, CallChanges DEF TypeOK
      <2>2. ASSUME NEW t \in Types, NextType(c, t) PROVE CallsOK'
          <3> DEFINE r == [call[c] EXCEPT !.todo = call[c].todo \ {t}, !.type = t]
                     to == IF t \in call[c].nested THEN "scopes" ELSE "newGroup"
          <3>1. /\ r \in CallRecords /\ r.org = Org(c) /\ r.todo \subseteq Types
                /\ r.type \in Types /\ to \in Updating
              BY <1>2 DEF CallRecords, Updating
          <3>2. pc' = [pc EXCEPT ![c] = to] /\ call' = [call EXCEPT ![c] = r]
              BY <1>2, <2>2 DEF NextType, Goes, CallRecords
          <3> HIDE DEF r, to
          <3> QED
              BY <2>1, <3>1, <3>2
      <2>3. ASSUME NEW s \in Scopes, NewPermission(c, s) PROVE CallsOK'
          <3> DEFINE r == [call[c] EXCEPT !.permissions = call[c].permissions \cup {s}]
          <3>1. /\ r \in CallRecords /\ r.org = Org(c) /\ r.todo \subseteq Types
                /\ r.type \in Types
              BY <1>2, <2>3 DEF CallRecords, NewPermission
          <3>2. pc' = [pc EXCEPT ![c] = "scopes"] /\ call' = [call EXCEPT ![c] = r]
              BY <1>2, <2>3 DEF NewPermission, Goes, CallRecords
          <3>3. "scopes" \in Updating
              BY DEF Updating
          <3> HIDE DEF r
          <3> QED
              BY <2>1, <3>1, <3>2, <3>3
      <2>4. CASE NewGroup(c) \/ AttachGroup(c) \/ UpdateRole(c) \/ NewRole(c) \/ AssignRole(c)
          <3>1. /\ pc[c] # "type" /\ call' = [call EXCEPT ![c] = call[c]]
                /\ \E to \in Updating : pc' = [pc EXCEPT ![c] = to]
              BY <2>4 DEF NewGroup, AttachGroup, UpdateRole, NewRole, AssignRole, Goes, Updating
          <3> QED
              BY <1>2, <2>1, <3>1
      <2>5. CASE ConfigUpdated(c)
          <3>1. pc' = [pc EXCEPT ![c] = "idle"] /\ call' = [call EXCEPT ![c] = NoCall]
              BY <2>5 DEF ConfigUpdated, Goes
          <3>2. "idle" \in Stages
              BY DEF Stages
          <3> QED
              BY <3>1, <3>2, EmptyCall, CallChanges DEF TypeOK
      <2> QED
          BY <2>2, <2>3, <2>4, <2>5
  <1>4. authz' \in [Orgs -> Parts]
      <2>1. authz \in [Orgs -> Parts]
          BY DEF TypeOK
      <2>2. CASE NewGroup(c) \/ AttachGroup(c) \/ NewRole(c) \/ AssignRole(c)
          <3>1. call[c].type \in Types
              BY <1>2, <2>2 DEF NewGroup, AttachGroup, NewRole, AssignRole
          <3> QED
              BY <1>2, <2>1, <2>2, <3>1
                 DEF NewGroup, AttachGroup, NewRole, AssignRole, Parts
      <2>3. CASE \E s \in Scopes : NewPermission(c, s)
          BY <1>2, <2>1, <2>3 DEF NewPermission, Parts
      <2>4. CASE (\E t \in Types : NextType(c, t)) \/ UpdateRole(c) \/ ConfigUpdated(c)
          BY <2>1, <2>4 DEF NextType, UpdateRole, ConfigUpdated
      <2> QED
          BY <2>2, <2>3, <2>4
  <1> QED
      BY <1>1, <1>3, <1>4 DEF TypeOK, history

\* Failures, and what becomes of the cache by itself.
LEMMA FailsType ==
    ASSUME TypeOK, NEW c \in Calls, CallFails(c)
    PROVE  TypeOK'
  <1>1. /\ pc[c] # "idle"
        /\ pc' = [pc EXCEPT ![c] = "idle"] /\ call' = [call EXCEPT ![c] = NoCall]
        /\ UNCHANGED <<cached, events, disturbed, requests>>
      BY DEF CallFails, Goes, Caught
  <1>2. Org(c) \in Orgs
      BY <1>1 DEF TypeOK, CallsOK
  <1>3. CallsOK'
      <2>1. "idle" \in Stages
          BY DEF Stages
      <2> QED
          BY <1>1, <2>1, EmptyCall, CallChanges DEF TypeOK
  <1>4. authz' \in [Orgs -> Parts]
      BY <1>1, AfterType DEF CallFails, TypeOK
  <1>5. failures' \in 0 .. MaxFailures
      BY WorkspacesAssumption DEF TypeOK, CallFails
  <1>6. damaged' \subseteq Orgs /\ torn' \subseteq damaged'
      BY <1>2 DEF TypeOK, CallFails
  <1> QED
      BY <1>1, <1>3, <1>4, <1>5, <1>6 DEF TypeOK

LEMMA CacheType ==
    ASSUME TypeOK, NEW o \in Orgs, ReadList(o) \/ Expire(o)
    PROVE  TypeOK'
  <1>1. authz[o].attached \subseteq Types
      BY DEF TypeOK, Parts
  <1>2. /\ DOMAIN cached' = Orgs
        /\ \A p \in Orgs : cached'[p] = None \/ cached'[p] \subseteq Types
      BY <1>1 DEF ReadList, Expire, TypeOK
  <1>3. CallsOK'
      BY DEF TypeOK, CallsOK, ReadList, Expire, Org
  <1> QED
      BY <1>2, <1>3 DEF TypeOK, ReadList, Expire, history

LEMMA InitType == Init => TypeOK
  <1> SUFFICES ASSUME Init PROVE TypeOK
      OBVIOUS
  <1>1. Nothing \in Parts /\ Complete \in Parts
      BY DEF Nothing, Complete, Parts
  <1>2. authz \in [Orgs -> Parts]
      BY <1>1 DEF Init
  <1>3. CallsOK
      <2>1. "idle" \in Stages
          BY DEF Stages
      <2> QED
          BY <2>1, EmptyCall DEF Init, CallsOK
  <1>4. 0 \in 0 .. MaxRequests /\ 0 \in 0 .. MaxFailures
      BY WorkspacesAssumption
  <1> QED
      BY <1>2, <1>3, <1>4 DEF Init, TypeOK

LEMMA StepType == TypeOK /\ [Next]_vars => TypeOK'
  <1> SUFFICES ASSUME TypeOK, [Next]_vars PROVE TypeOK'
      OBVIOUS
  <1>1. CASE UNCHANGED vars
      BY <1>1 DEF TypeOK, CallsOK, Org, vars, history
  <1>2. CASE Next
      BY <1>2, StartsType, StagesType, MovesType, ReadsType, UpdatesType, FailsType,
         CacheType DEF Next
  <1> QED
      BY <1>1, <1>2

\* Every variable of Workspaces keeps its type, whatever overlaps and fails.
THEOREM TypeCorrect == Spec => []TypeOK
  <1> QED
      BY InitType, StepType, PTL DEF Spec

-----------------------------------------------------------------------------
(* What the service holds at each stage of a handler.                      *)

Inv == TypeOK /\ OneAtATime /\ Mendable /\ SerialExact

\* What holds of a workspace while a handler works on it.
LEMMA Here ==
    ASSUME Inv, NEW c \in Calls, pc[c] # "idle"
    PROVE  /\ Org(c) \in Orgs /\ Org(c) = call[c].org
           /\ authz \in [Orgs -> Parts] /\ authz[Org(c)] \in Parts
           /\ call[c] \in CallRecords
           /\ Org(c) \notin disturbed \cup torn => During(pc[c], authz[Org(c)], call[c])
           /\ Org(c) \notin disturbed \cup damaged => Exact(pc[c], authz[Org(c)], call[c])
           /\ torn \subseteq damaged
  BY DEF Inv, TypeOK, CallsOK, Org, Mendable, SerialExact

\* What holds of a workspace that nobody works on.
LEMMA Resting ==
    ASSUME Inv, NEW o \in Orgs, ~Busy(o)
    PROVE  /\ authz[o] \in Parts
           /\ o \notin disturbed \cup torn => AtRest(authz[o])
           /\ o \notin disturbed \cup damaged => authz[o] \in {Nothing, Complete}
           /\ torn \subseteq damaged
  BY DEF Inv, TypeOK, Mendable, SerialExact

\* A step of a handler changes one workspace, on which it is alone unless the
\* workspace is disturbed.
LEMMA Frame ==
    ASSUME Inv, NEW c \in Calls, pc[c] # "idle", NEW to, NEW r,
           to # "idle" => r.org = Org(c),
           pc' = [pc EXCEPT ![c] = to],
           call' = [call EXCEPT ![c] = IF to = "idle" THEN NoCall ELSE r],
           \A o \in Orgs \ {Org(c)} : authz'[o] = authz[o],
           disturbed \subseteq disturbed', torn \subseteq torn', damaged \subseteq damaged',
           Org(c) \notin disturbed' \cup torn' =>
              IF to = "idle" THEN AtRest(authz'[Org(c)])
                             ELSE During(to, authz'[Org(c)], r),
           Org(c) \notin disturbed' \cup damaged' =>
              IF to = "idle" THEN authz'[Org(c)] \in {Nothing, Complete}
                             ELSE Exact(to, authz'[Org(c)], r)
    PROVE  OneAtATime' /\ Mendable' /\ SerialExact'
  <1>1. /\ pc'[c] = to
        /\ to # "idle" => Org(c)' = Org(c) /\ call'[c] = r
        /\ \A d \in Calls \ {c} : pc'[d] = pc[d] /\ call'[d] = call[d] /\ Org(d)' = Org(d)
      BY DEF Inv, TypeOK, CallsOK, Org
  <1>2. OneAtATime'
      BY <1>1 DEF Inv, OneAtATime
  <1>3. \A d \in Calls \ {c} :
           pc[d] # "idle" /\ Org(d) = Org(c) => Org(c) \in disturbed'
      BY DEF Inv, OneAtATime
  <1>4. \A o \in Orgs \ {Org(c)} : Busy(o)' = Busy(o)
      <2> TAKE o \in Orgs \ {Org(c)}
      <2>1. Busy(o) <=> \E d \in Calls \ {c} : pc[d] # "idle" /\ Org(d) = o
          BY DEF Busy
      <2>2. Busy(o)' <=> \E d \in Calls \ {c} : pc'[d] # "idle" /\ Org(d)' = o
          BY <1>1 DEF Busy
      <2> QED
          BY <1>1, <2>1, <2>2 DEF Busy
  <1>5. to # "idle" => Busy(Org(c))'
      BY <1>1 DEF Busy
  <1>6. Mendable'
      <2> SUFFICES ASSUME NEW o \in Orgs, o \notin disturbed' \cup torn'
                   PROVE  /\ ~Busy(o)' => AtRest(authz'[o])
                          /\ \A d \in Calls : pc'[d] # "idle" /\ Org(d)' = o =>
                                During(pc'[d], authz'[o], call'[d])
          BY DEF Mendable
      <2>1. CASE o = Org(c)
          BY <1>1, <1>3, <1>5, <2>1
      <2>2. CASE o # Org(c)
          BY <1>1, <1>4, <2>2 DEF Inv, Mendable
      <2> QED
          BY <2>1, <2>2
  <1>7. SerialExact'
      <2> SUFFICES ASSUME NEW o \in Orgs, o \notin disturbed' \cup damaged'
                   PROVE  /\ ~Busy(o)' => authz'[o] \in {Nothing, Complete}
                          /\ \A d \in Calls : pc'[d] # "idle" /\ Org(d)' = o =>
                                Exact(pc'[d], authz'[o], call'[d])
          BY DEF SerialExact
      <2>1. CASE o = Org(c)
          BY <1>1, <1>3, <1>5, <2>1
      <2>2. CASE o # Org(c)
          BY <1>1, <1>4, <2>2 DEF Inv, SerialExact
      <2> QED
          BY <2>1, <2>2
  <1> QED
      BY <1>2, <1>6, <1>7

\* The same of the steps that go from one stage to the next.
LEMMA MovesFrame ==
    ASSUME Inv, NEW c \in Calls, NEW from, NEW to, from # "idle", Moves(c, from, to),
           \A o \in Orgs \ {Org(c)} : authz'[o] = authz[o],
           UNCHANGED history,
           Org(c) \notin disturbed \cup torn =>
              IF to = "idle" THEN AtRest(authz'[Org(c)])
              ELSE During(to, authz'[Org(c)], [call[c] EXCEPT !.todo = Todo(c, to)]),
           Org(c) \notin disturbed \cup damaged =>
              IF to = "idle" THEN authz'[Org(c)] \in {Nothing, Complete}
              ELSE Exact(to, authz'[Org(c)], [call[c] EXCEPT !.todo = Todo(c, to)])
    PROVE  OneAtATime' /\ Mendable' /\ SerialExact'
  <1> DEFINE r == [call[c] EXCEPT !.todo = Todo(c, to)]
  <1>1. pc[c] # "idle" /\ r.org = Org(c)
      BY Here DEF Moves, Goes, CallRecords
  <1>2. /\ pc' = [pc EXCEPT ![c] = to]
        /\ call' = [call EXCEPT ![c] = IF to = "idle" THEN NoCall ELSE r]
        /\ disturbed' = disturbed /\ torn' = torn /\ damaged' = damaged
      BY DEF Moves, Goes, history
  <1>3. /\ Org(c) \notin disturbed' \cup torn' =>
              IF to = "idle" THEN AtRest(authz'[Org(c)])
                             ELSE During(to, authz'[Org(c)], r)
        /\ Org(c) \notin disturbed' \cup damaged' =>
              IF to = "idle" THEN authz'[Org(c)] \in {Nothing, Complete}
                             ELSE Exact(to, authz'[Org(c)], r)
      BY <1>2
  <1> HIDE DEF r
  <1> QED
      BY <1>1, <1>2, <1>3, Frame

\* A request taken finds the workspace at rest, unless it is disturbed.
LEMMA StartFrame ==
    ASSUME Inv, NEW c \in Calls, NEW to, NEW r, to # "idle", r.org \in Orgs,
           Start(c, to, r), authz' = authz,
           ~Busy(r.org) /\ r.org \notin disturbed \cup torn => During(to, authz[r.org], r),
           ~Busy(r.org) /\ r.org \notin disturbed \cup damaged => Exact(to, authz[r.org], r)
    PROVE  OneAtATime' /\ Mendable' /\ SerialExact'
  <1>1. /\ pc[c] = "idle" /\ pc'[c] = to /\ call'[c] = r /\ Org(c)' = r.org
        /\ \A d \in Calls \ {c} : pc'[d] = pc[d] /\ call'[d] = call[d] /\ Org(d)' = Org(d)
        /\ torn' = torn /\ damaged' = damaged
        /\ disturbed' = IF Busy(r.org) THEN disturbed \cup {r.org} ELSE disturbed
      BY DEF Inv, TypeOK, CallsOK, Org, Start
  <1>2. disturbed \subseteq disturbed' /\ (Busy(r.org) => r.org \in disturbed')
      BY <1>1
  <1>3. \A d \in Calls \ {c} : pc[d] # "idle" /\ Org(d) = r.org => Busy(r.org)
      BY DEF Busy
  <1>4. \A o \in Orgs \ {r.org} : Busy(o)' = Busy(o)
      <2> TAKE o \in Orgs \ {r.org}
      <2>1. Busy(o) <=> \E d \in Calls \ {c} : pc[d] # "idle" /\ Org(d) = o
          BY <1>1 DEF Busy
      <2>2. Busy(o)' <=> \E d \in Calls \ {c} : pc'[d] # "idle" /\ Org(d)' = o
          BY <1>1 DEF Busy
      <2> QED
          BY <1>1, <2>1, <2>2 DEF Busy
  <1>5. Busy(r.org)'
      BY <1>1 DEF Busy
  <1>6. OneAtATime'
      BY <1>1, <1>2, <1>3 DEF Inv, OneAtATime
  <1>7. Mendable'
      BY <1>1, <1>2, <1>3, <1>4, <1>5 DEF Inv, Mendable
  <1>8. SerialExact'
      BY <1>1, <1>2, <1>3, <1>4, <1>5 DEF Inv, SerialExact
  <1> QED
      BY <1>6, <1>7, <1>8

\* Two workspaces of the same parts are the same.
LEMMA SameParts ==
    ASSUME NEW a \in Parts, NEW b \in Parts,
           a.primary = b.primary, a.listed = b.listed, a.owned = b.owned,
           a.nested = b.nested, a.attached = b.attached, a.permissions = b.permissions,
           a.roles = b.roles, a.assigned = b.assigned
    PROVE  a = b
  BY DEF Parts

\* The parts of what is nothing, and of what is complete.
LEMMA NothingParts ==
    /\ Nothing \in Parts
    /\ ~Nothing.primary /\ ~Nothing.listed /\ ~Nothing.owned
    /\ Nothing.nested = {} /\ Nothing.attached = {} /\ Nothing.permissions = {}
    /\ Nothing.roles = {} /\ Nothing.assigned = {}
  BY DEF Nothing, Parts

LEMMA CompleteParts ==
    /\ Complete \in Parts
    /\ Complete.primary /\ Complete.listed /\ Complete.owned
    /\ Complete.nested = Types /\ Complete.attached = Types
    /\ Complete.permissions = Scopes
    /\ Complete.roles = Types /\ Complete.assigned = Types
  BY DEF Complete, Parts

\* Requests find a workspace whole, or as failures have left it.
LEMMA StartsKeep ==
    ASSUME Inv, NEW c \in Calls, NEW o \in Orgs,
           CreateWorkspace(c, o) \/ DeleteWorkspace(c, o) \/ UpdateWorkspaceConfig(c, o)
    PROVE  OneAtATime' /\ Mendable' /\ SerialExact'
  <1>1. CASE CreateWorkspace(c, o)
      <2> DEFINE r == [NoCall EXCEPT !.org = o]
      <2>1. r.org = o /\ Start(c, "primary", r) /\ authz' = authz
          BY <1>1 DEF CreateWorkspace, NoCall
      <2> HIDE DEF r
      <2>2. AtRest(authz[o]) => During("primary", authz[o], r)
          BY DEF During, AtRest, Creating, Dropping, Updating
      <2>3. authz[o] \in {Nothing, Complete} => Exact("primary", authz[o], r)
          BY DEF Exact, Creating, Updating
      <2> QED
          BY <2>1, <2>2, <2>3, Resting, StartFrame
  <1>2. CASE DeleteWorkspace(c, o)
      <2> DEFINE r == [NoCall EXCEPT !.org = o]
      <2>1. r.org = o /\ Start(c, "list", r) /\ authz' = authz /\ authz[o].primary
          BY <1>2 DEF DeleteWorkspace, NoCall
      <2> HIDE DEF r
      <2>2. AtRest(authz[o]) => During("list", authz[o], r)
          BY <2>1 DEF During, AtRest, Creating, Dropping, Updating, DuringDeletion
      <2>3. authz[o] \in {Nothing, Complete} => Exact("list", authz[o], r)
          BY <2>1 DEF Exact, Creating, Updating, Nothing
      <2> QED
          BY <2>1, <2>2, <2>3, Resting, StartFrame
  <1>3. CASE UpdateWorkspaceConfig(c, o)
      <2> DEFINE r == [NoCall EXCEPT !.org = o, !.todo = Types, !.nested = authz[o].nested,
                          !.roles = authz[o].roles, !.permissions = authz[o].permissions]
      <2>1. /\ Start(c, "type", r) /\ authz' = authz
            /\ authz[o].primary /\ authz[o].listed
          BY <1>3 DEF UpdateWorkspaceConfig
      <2>2. /\ r.org = o /\ r.todo = Types /\ r.nested = authz[o].nested
            /\ r.roles = authz[o].roles /\ r.permissions = authz[o].permissions
          BY DEF NoCall
      <2> HIDE DEF r
      <2>3. AtRest(authz[o]) => During("type", authz[o], r)
          BY <2>1, <2>2 DEF During, AtRest, Creating, Dropping, Updating, DuringUpdate
      <2>4. authz[o] \in {Nothing, Complete} => Exact("type", authz[o], r)
          <3>1. authz[o] # Nothing
              BY <2>1, NothingParts
          <3>2. authz[o] = Complete =>
                   r.nested = Types /\ r.roles = Types /\ r.permissions = Scopes
              BY <2>2, CompleteParts
          <3> QED
              BY <3>1, <3>2 DEF Exact, Creating, Updating
      <2> QED
          BY <2>1, <2>2, <2>3, <2>4, Resting, StartFrame
  <1> QED
      BY <1>1, <1>2, <1>3

\* The primary group is created when nothing of the workspace is there.
LEMMA CreatePrimaryKeeps ==
    ASSUME Inv, NEW c \in Calls, CreatePrimary(c) \/ AlreadyExists(c)
    PROVE  OneAtATime' /\ Mendable' /\ SerialExact'
  <1> DEFINE a == authz[Org(c)]
             b == authz'[Org(c)]
  <1>1. pc[c] = "primary"
      BY DEF CreatePrimary, AlreadyExists, Moves, Goes
  <1>2. /\ Org(c) \in Orgs /\ authz \in [Orgs -> Parts] /\ a \in Parts
        /\ Org(c) \notin disturbed \cup torn => AtRest(a)
        /\ Org(c) \notin disturbed \cup damaged => a \in {Nothing, Complete}
      BY <1>1, Here DEF During, Exact
  <1>3. CASE CreatePrimary(c)
      <2> DEFINE r == [call[c] EXCEPT !.todo = Todo(c, "nested")]
      <2>1. /\ b = [a EXCEPT !.primary = TRUE] /\ ~a.primary
            /\ \A o \in Orgs \ {Org(c)} : authz'[o] = authz[o]
            /\ Moves(c, "primary", "nested") /\ UNCHANGED history
          BY <1>2, <1>3 DEF CreatePrimary, Parts
      <2>2. r.todo = Types
          BY <1>1, Here DEF Todo, CallRecords
      <2> HIDE DEF r
      <2>3. AtRest(a) => During("nested", b, r)
          <3> SUFFICES ASSUME AtRest(a) PROVE During("nested", b, r)
              OBVIOUS
          <3>1. /\ b.primary /\ b.attached = {} /\ b.nested = {} /\ b.roles = {}
                /\ b.assigned = {} /\ ~b.owned
              BY <2>1 DEF AtRest, Nothing
          <3>2. Sound(b) /\ DuringCreation("nested", b, r)
              BY <3>1, <2>2 DEF Sound, DuringCreation
          <3> QED
              BY <3>2 DEF During, Creating, Dropping, Updating
      <2>4. a \in {Nothing, Complete} => Exact("nested", b, r)
          <3> SUFFICES ASSUME a \in {Nothing, Complete} PROVE Exact("nested", b, r)
              OBVIOUS
          <3>1. a = Nothing
              BY <2>1, CompleteParts
          <3>2. Types \ r.todo = {}
              BY <2>2
          <3>3. /\ b.primary /\ b.nested = {} /\ ~b.listed /\ ~b.owned /\ b.attached = {}
                /\ b.permissions = {} /\ b.roles = {} /\ b.assigned = {}
              BY <2>1, <3>1, NothingParts DEF Parts
          <3> QED
              BY <3>2, <3>3 DEF Exact, Creating, Updating
      <2> QED
          BY <1>2, <2>1, <2>3, <2>4, MovesFrame DEF r
  <1>4. CASE AlreadyExists(c)
      <2>1. /\ authz' = authz /\ Moves(c, "primary", "idle") /\ UNCHANGED history
          BY <1>4 DEF AlreadyExists
      <2> QED
          BY <1>2, <2>1, MovesFrame
  <1> QED
      BY <1>3, <1>4

\* What calls of a stage, for X, change of a workspace, a, and what they leave, b.
Changes(stage, a, b, X) ==
    /\ b.primary = a.primary /\ b.listed = a.listed /\ b.attached = a.attached
    /\ b.nested = CASE stage = "nested" -> a.nested \cup X
                    [] stage = "dropNested" -> a.nested \ X
                    [] OTHER -> a.nested
    /\ b.permissions = CASE stage = "permissions" -> a.permissions \cup X
                         [] stage = "dropPermissions" -> a.permissions \ X
                         [] OTHER -> a.permissions
    /\ b.roles = CASE stage = "roles" -> a.roles \cup X
                   [] stage = "dropRoles" -> a.roles \ X
                   [] OTHER -> a.roles
    /\ b.assigned = CASE stage = "assign" -> a.assigned \cup (X \cap a.nested \cap a.roles)
                      [] stage \in {"dropNested", "dropRoles"} -> a.assigned \ X
                      [] OTHER -> a.assigned
    /\ b.owned <=> a.owned /\ ~(stage = "dropNested" /\ a.nested \subseteq X)

LEMMA AfterParts ==
    ASSUME Inv, NEW c \in Calls, pc[c] # "idle", NEW X \in SUBSET call[c].todo
    PROVE  /\ \A o \in Orgs \ {Org(c)} : After(c, pc[c], X)[o] = authz[o]
           /\ After(c, pc[c], X)[Org(c)] \in Parts
           /\ Changes(pc[c], authz[Org(c)], After(c, pc[c], X)[Org(c)], X)
  <1>1. Org(c) \in Orgs /\ authz \in [Orgs -> Parts] /\ authz[Org(c)] \in Parts
      BY Here
  <1>2. After(c, pc[c], X)[Org(c)] \in Parts
      BY <1>1, AfterType DEF Inv
  <1>3. CASE pc[c] \in {"nested", "permissions", "roles"}
      BY <1>1, <1>2, <1>3 DEF After, Parts, Changes
  <1>4. CASE pc[c] = "assign"
      BY <1>1, <1>2, <1>4 DEF After, Parts, Changes
  <1>5. CASE pc[c] = "dropNested"
      <2> DEFINE b == IF authz[Org(c)].nested \subseteq X THEN FALSE ELSE authz[Org(c)].owned
      <2>1. b <=> authz[Org(c)].owned /\ ~(authz[Org(c)].nested \subseteq X)
          BY <1>1 DEF Parts
      <2>2. After(c, pc[c], X) =
               [authz EXCEPT ![Org(c)].nested = authz[Org(c)].nested \ X,
                             ![Org(c)].assigned = authz[Org(c)].assigned \ X,
                             ![Org(c)].owned = b]
          BY <1>1, <1>5 DEF After, Parts, Changes
      <2> HIDE DEF b
      <2> QED
          BY <1>1, <1>2, <1>5, <2>1, <2>2 DEF Parts, Changes
  <1>6. CASE pc[c] \in {"dropRoles", "dropPermissions"}
      BY <1>1, <1>2, <1>6 DEF After, Parts, Changes
  <1>7. CASE pc[c] \notin {"nested", "roles", "permissions", "assign", "dropNested",
                           "dropRoles", "dropPermissions"}
      BY <1>1, <1>2, <1>7 DEF After, Changes
  <1> QED
      BY <1>3, <1>4, <1>5, <1>6, <1>7

\* An answer is one thing less to do.
LEMMA AnsweredKeeps ==
    ASSUME Inv, NEW c \in Calls, NEW x, Answered(c, x)
    PROVE  OneAtATime' /\ Mendable' /\ SerialExact'
  <1> DEFINE stage == pc[c]
             a == authz[Org(c)]
             b == authz'[Org(c)]
             r == call[c]
             q == [call[c] EXCEPT !.todo = call[c].todo \ {x}]
  <1>1. /\ stage \in DOMAIN Then /\ stage # "idle" /\ x \in r.todo
        /\ pc' = [pc EXCEPT ![c] = stage] /\ call' = [call EXCEPT ![c] = q]
        /\ authz' = After(c, stage, {x}) /\ UNCHANGED history
      BY DEF Answered, One, Goes, Then, Inv, TypeOK, CallsOK, CallRecords
  <1>2. /\ Org(c) \in Orgs /\ a \in Parts /\ r \in CallRecords
        /\ Org(c) \notin disturbed \cup torn => During(stage, a, r)
        /\ Org(c) \notin disturbed \cup damaged => Exact(stage, a, r)
      BY <1>1, Here
  <1>3. r.todo \subseteq IF stage \in {"permissions", "dropPermissions"} THEN Scopes ELSE Types
      BY DEF Inv, TypeOK, CallsOK
  <1>4. /\ q.org = Org(c) /\ q.todo = r.todo \ {x} /\ q.nested = r.nested
        /\ q.roles = r.roles /\ q.permissions = r.permissions
      BY <1>2 DEF CallRecords, Org
  <1>5. /\ \A o \in Orgs \ {Org(c)} : authz'[o] = authz[o]
        /\ Changes(stage, a, b, {x})
      <2>1. {x} \in SUBSET call[c].todo /\ pc[c] # "idle" /\ authz' = After(c, pc[c], {x})
          BY <1>1
      <2> QED
          BY <2>1, AfterParts
  <1> HIDE DEF q
  <1>6. During(stage, a, r) => During(stage, b, q)
      <2> SUFFICES ASSUME During(stage, a, r) PROVE During(stage, b, q)
          OBVIOUS
      <2>1. CASE stage = "nested"
          <3>1. /\ b.primary = a.primary /\ b.attached = a.attached
                /\ b.nested = a.nested \cup {x} /\ b.roles = a.roles
                /\ b.assigned = a.assigned /\ (b.owned <=> a.owned)
              BY <1>5, <2>1 DEF Changes
          <3>2. Sound(a) /\ DuringCreation("nested", a, r)
              BY <2>1 DEF During, Creating
          <3>3. Sound(b)
              BY <3>1, <3>2 DEF Sound
          <3>4. DuringCreation("nested", b, q)
              BY <1>4, <3>1, <3>2 DEF DuringCreation
          <3> QED
              BY <2>1, <3>3, <3>4 DEF During, Creating, Dropping, Updating
      <2>2. CASE stage = "permissions"
          BY <1>1, <1>3, <1>4, <1>5, <2>2 DEF During, Sound, DuringCreation, Changes, Creating,
             Dropping, Updating
      <2>3. CASE stage = "roles"
          BY <1>1, <1>3, <1>4, <1>5, <2>3 DEF During, Sound, DuringCreation, Changes, Creating,
             Dropping, Updating
      <2>4. CASE stage = "assign"
          <3>1. /\ b.primary = a.primary /\ b.attached = a.attached
                /\ b.nested = a.nested /\ b.roles = a.roles
                /\ b.assigned = a.assigned \cup ({x} \cap a.nested \cap a.roles)
                /\ (b.owned <=> a.owned)
              BY <1>5, <2>4 DEF Changes
          <3>2. Sound(a) /\ DuringCreation("assign", a, r) /\ a.nested = Types
              BY <2>4 DEF During, DuringCreation, Creating
          <3>3. Sound(b)
              BY <3>1, <3>2 DEF Sound
          <3>4. DuringCreation("assign", b, q)
              BY <1>1, <1>3, <1>4, <2>4, <3>1, <3>2 DEF DuringCreation
          <3> QED
              BY <2>4, <3>3, <3>4 DEF During, Creating, Dropping, Updating
      <2>5. CASE stage = "dropNested"
          <3>1. /\ b.primary = a.primary /\ b.attached = a.attached
                /\ b.nested = a.nested \ {x} /\ b.roles = a.roles
                /\ b.permissions = a.permissions /\ b.assigned = a.assigned \ {x}
                /\ (b.owned <=> a.owned /\ ~(a.nested \subseteq {x}))
              BY <1>5, <2>5 DEF Changes
          <3>2. Sound(a) /\ DuringDeletion("dropNested", a, r)
              BY <2>5 DEF During, Dropping
          <3>3. a.attached = {}
              BY <3>2 DEF DuringDeletion, Dropping
          <3>4. Sound(b)
              BY <3>1, <3>2, <3>3 DEF Sound
          <3>5. DuringDeletion("dropNested", b, q)
              BY <1>4, <3>1, <3>2 DEF DuringDeletion, Dropping
          <3> QED
              BY <2>5, <3>4, <3>5 DEF During, Creating, Dropping, Updating
      <2>6. CASE stage = "dropRoles"
          BY <1>1, <1>3, <1>4, <1>5, <2>6 DEF During, Sound, DuringDeletion, Changes, Creating,
             Dropping, Updating
      <2>7. CASE stage = "dropPermissions"
          BY <1>1, <1>3, <1>4, <1>5, <2>7 DEF During, Sound, DuringDeletion, Changes, Creating,
             Dropping, Updating
      <2> QED
          BY <1>1, <2>1, <2>2, <2>3, <2>4, <2>5, <2>6, <2>7 DEF Then
  <1>7. Exact(stage, a, r) => Exact(stage, b, q)
      <2> SUFFICES ASSUME Exact(stage, a, r) PROVE Exact(stage, b, q)
          OBVIOUS
      <2>1. CASE stage = "nested"
          BY <1>1, <1>3, <1>4, <1>5, <2>1 DEF Exact, Changes, Creating, Updating
      <2>5. CASE stage = "permissions"
          <3>1. /\ b.primary = a.primary /\ b.listed = a.listed /\ b.attached = a.attached
                /\ b.nested = a.nested /\ b.roles = a.roles
                /\ b.permissions = a.permissions \cup {x} /\ b.assigned = a.assigned
                /\ (b.owned <=> a.owned)
              BY <1>5, <2>5 DEF Changes
          <3>2. x \in Scopes /\ q.todo = r.todo \ {x}
              BY <1>1, <1>3, <1>4, <2>5
          <3> QED
              BY <2>5, <3>1, <3>2 DEF Exact, Creating, Updating
      <2>2. CASE stage = "roles"
          BY <1>1, <1>3, <1>4, <1>5, <2>2 DEF Exact, Changes, Creating, Updating
      <2>3. CASE stage = "assign"
          BY <1>1, <1>3, <1>4, <1>5, <2>3 DEF Exact, Changes, Creating, Updating
      <2>4. CASE stage \in {"dropNested", "dropRoles", "dropPermissions"}
          BY <2>4 DEF Exact, Changes, Creating, Updating
      <2> QED
          BY <1>1, <2>1, <2>2, <2>3, <2>4, <2>5 DEF Then
  <1> QED
      BY <1>1, <1>2, <1>4, <1>5, <1>6, <1>7, Frame DEF history

\* When all is answered, the next stage finds what it builds on.
LEMMA AllAnsweredKeeps ==
    ASSUME Inv, NEW c \in Calls, AllAnswered(c)
    PROVE  OneAtATime' /\ Mendable' /\ SerialExact'
  <1> DEFINE stage == pc[c]
             to == Then[pc[c]]
             a == authz[Org(c)]
             r == call[c]
             q == [call[c] EXCEPT !.todo = Todo(c, to)]
  <1>1. /\ stage \in DOMAIN Then /\ stage # "idle" /\ r.todo = {}
        /\ Moves(c, stage, to) /\ authz' = authz /\ UNCHANGED history
      BY DEF AllAnswered, Then
  <1>2. /\ a \in Parts /\ r \in CallRecords
        /\ Org(c) \notin disturbed \cup torn => During(stage, a, r)
        /\ Org(c) \notin disturbed \cup damaged => Exact(stage, a, r)
      BY <1>1, Here
  <1>3. /\ q.todo = Todo(c, to) /\ q.nested = r.nested
        /\ q.roles = r.roles /\ q.permissions = r.permissions
      BY <1>2 DEF CallRecords
  <1>4. /\ to # "idle"
        /\ stage = "nested" => to = "attach"
        /\ stage = "permissions" => to = "roles" /\ q.todo = Types
        /\ stage = "roles" => to = "assign" /\ q.todo = Types
        /\ stage = "assign" => to = "owners"
        /\ stage = "dropNested" => to = "dropRoles" /\ q.todo = r.roles
        /\ stage = "dropRoles" => to = "dropPermissions" /\ q.todo = r.permissions
        /\ stage = "dropPermissions" => to = "dropPrimary"
      BY <1>1, <1>3 DEF Then, Todo
  <1>5. a.nested \subseteq Types /\ a.roles \subseteq Types /\ a.permissions \subseteq Scopes
      BY <1>2 DEF Parts
  <1> HIDE DEF q, to
  <1>6. During(stage, a, r) => During(to, a, q)
      <2> SUFFICES ASSUME During(stage, a, r) PROVE During(to, a, q)
          OBVIOUS
      <2>1. CASE stage = "nested"
          <3>1. Sound(a) /\ a.primary /\ a.roles = a.assigned /\ a.nested = Types
              BY <1>1, <1>5, <2>1 DEF During, DuringCreation, Creating
          <3>2. DuringCreation("attach", a, q)
              BY <3>1 DEF DuringCreation
          <3> QED
              BY <1>4, <2>1, <3>1, <3>2 DEF During, Creating, Dropping, Updating
      <2>2. CASE stage = "permissions"
          BY <1>1, <1>3, <1>4, <1>5, <2>2 DEF During, Sound, DuringCreation, Creating,
             Dropping, Updating
      <2>3. CASE stage = "roles"
          BY <1>1, <1>3, <1>4, <1>5, <2>3 DEF During, Sound, DuringCreation, Creating,
             Dropping, Updating
      <2>4. CASE stage = "assign"
          BY <1>1, <1>3, <1>4, <1>5, <2>4 DEF During, Sound, DuringCreation, Creating,
             Dropping, Updating
      <2>5. CASE stage = "dropNested"
          BY <1>1, <1>3, <1>4, <1>5, <2>5 DEF During, Sound, DuringDeletion, Creating,
             Dropping, Updating
      <2>6. CASE stage = "dropRoles"
          BY <1>1, <1>3, <1>4, <1>5, <2>6 DEF During, Sound, DuringDeletion, Creating,
             Dropping, Updating
      <2>7. CASE stage = "dropPermissions"
          BY <1>1, <1>3, <1>4, <1>5, <2>7 DEF During, Sound, DuringDeletion, Creating,
             Dropping, Updating
      <2> QED
          BY <1>1, <2>1, <2>2, <2>3, <2>4, <2>5, <2>6, <2>7 DEF Then
  <1>7. Exact(stage, a, r) => Exact(to, a, q)
      <2> SUFFICES ASSUME Exact(stage, a, r) PROVE Exact(to, a, q)
          OBVIOUS
      <2>1. CASE stage = "nested"
          BY <1>1, <1>3, <1>4, <1>5, <2>1 DEF Exact, Creating, Updating
      <2>2. CASE stage = "permissions"
          BY <1>1, <1>3, <1>4, <1>5, <2>2 DEF Exact, Creating, Updating
      <2>3. CASE stage = "roles"
          BY <1>1, <1>3, <1>4, <1>5, <2>3 DEF Exact, Creating, Updating
      <2>4. CASE stage = "assign"
          BY <1>1, <1>3, <1>4, <1>5, <2>4 DEF Exact, Creating, Updating
      <2>5. CASE stage \in {"dropNested", "dropRoles", "dropPermissions"}
          BY <1>4, <2>5 DEF Exact, Creating, Updating
      <2> QED
          BY <1>1, <2>1, <2>2, <2>3, <2>4, <2>5 DEF Then
  <1> QED
      BY <1>1, <1>2, <1>4, <1>6, <1>7, MovesFrame DEF q

\* The end of a creation: the groups are attached, and the owners added.
LEMMA CreationKeeps ==
    ASSUME Inv, NEW c \in Calls, AddNestedGroups(c) \/ AddOwners(c)
    PROVE  OneAtATime' /\ Mendable' /\ SerialExact'
  <1> DEFINE a == authz[Org(c)]
             b == authz'[Org(c)]
             r == call[c]
  <1>1. pc[c] \in {"attach", "owners"}
      BY DEF AddNestedGroups, AddOwners, Moves, Goes
  <1>2. /\ Org(c) \in Orgs /\ authz \in [Orgs -> Parts] /\ a \in Parts /\ r \in CallRecords
        /\ Org(c) \notin disturbed \cup torn => During(pc[c], a, r)
        /\ Org(c) \notin disturbed \cup damaged => Exact(pc[c], a, r)
      BY <1>1, Here
  <1>3. CASE AddNestedGroups(c)
      <2> DEFINE q == [call[c] EXCEPT !.todo = Todo(c, "permissions")]
      <2>1. /\ pc[c] = "attach" /\ Moves(c, "attach", "permissions") /\ UNCHANGED history
            /\ \A o \in Orgs \ {Org(c)} : authz'[o] = authz[o]
            /\ b = [a EXCEPT !.attached = a.attached \cup a.nested, !.listed = TRUE]
          BY <1>2, <1>3 DEF AddNestedGroups, Moves, Goes, Parts
      <2>2. /\ b.primary = a.primary /\ b.listed /\ b.owned = a.owned /\ b.nested = a.nested
            /\ b.attached = a.attached \cup a.nested /\ b.permissions = a.permissions
            /\ b.roles = a.roles /\ b.assigned = a.assigned
            /\ a.nested \subseteq Types
          BY <1>2, <2>1 DEF Parts
      <2>3. q.todo = Scopes
          BY <1>2 DEF CallRecords, Todo
      <2> HIDE DEF q
      <2>4. During("attach", a, r) => During("permissions", b, q)
          BY <2>2, <2>3 DEF During, Sound, DuringCreation, Creating, Dropping, Updating
      <2>5. Exact("attach", a, r) => Exact("permissions", b, q)
          BY <2>2, <2>3 DEF Exact, Creating, Updating
      <2> QED
          BY <1>2, <2>1, <2>4, <2>5, MovesFrame DEF q
  <1>4. CASE AddOwners(c)
      <2>1. /\ pc[c] = "owners" /\ Moves(c, "owners", "idle") /\ UNCHANGED history
            /\ \A o \in Orgs \ {Org(c)} : authz'[o] = authz[o]
            /\ b = [a EXCEPT !.owned = TRUE]
          BY <1>2, <1>4 DEF AddOwners, Moves, Goes, Parts
      <2>2. /\ b.primary = a.primary /\ b.listed = a.listed /\ b.owned /\ b.nested = a.nested
            /\ b.attached = a.attached /\ b.permissions = a.permissions
            /\ b.roles = a.roles /\ b.assigned = a.assigned
            /\ b \in Parts
          BY <1>2, <2>1 DEF Parts
      <2>3. During("owners", a, r) => AtRest(b)
          BY <2>2, WorkspacesAssumption
             DEF During, Sound, DuringCreation, Creating, Dropping, Updating, AtRest
      <2>4. Exact("owners", a, r) => b = Complete
          <3> SUFFICES ASSUME Exact("owners", a, r) PROVE b = Complete
              OBVIOUS
          <3>1. /\ a.primary /\ a.listed /\ a.nested = Types /\ a.attached = Types
                /\ a.permissions = Scopes /\ a.roles = Types /\ a.assigned = Types
              BY DEF Exact, Creating, Updating
          <3>2. /\ b.primary = Complete.primary /\ b.listed = Complete.listed
                /\ b.owned = Complete.owned
              BY <1>2, <2>2, <3>1 DEF Parts, Complete
          <3> HIDE DEF b
          <3> QED
              BY <2>2, <3>1, <3>2, CompleteParts, SameParts
      <2> QED
          BY <1>2, <2>1, <2>3, <2>4, MovesFrame
  <1> QED
      BY <1>3, <1>4

\* A deletion reads what there is to remove.
LEMMA ReadsKeep ==
    ASSUME Inv, NEW c \in Calls, NestedGroups(c) \/ ReadRoles(c)
    PROVE  OneAtATime' /\ Mendable' /\ SerialExact'
  <1> DEFINE a == authz[Org(c)]
             r == call[c]
  <1>1. pc[c] \in {"list", "read"} /\ authz' = authz /\ damaged' = damaged /\ torn' = torn
      BY DEF NestedGroups, ReadRoles, Goes, history
  <1>2. /\ Org(c) \in Orgs /\ a \in Parts /\ r \in CallRecords /\ r.org = Org(c)
        /\ Org(c) \notin disturbed \cup torn => During(pc[c], a, r)
        /\ Org(c) \notin disturbed \cup damaged => Exact(pc[c], a, r)
        /\ torn \subseteq damaged
      BY <1>1, Here
  <1>3. CASE NestedGroups(c)
      <2> DEFINE q == [call[c] EXCEPT !.nested = List(Org(c))]
                 to == IF List(Org(c)) = {} THEN "idle" ELSE "read"
      <2>1. /\ pc[c] = "list" /\ pc' = [pc EXCEPT ![c] = to]
            /\ call' = [call EXCEPT ![c] = IF to = "idle" THEN NoCall ELSE q]
            /\ disturbed \subseteq disturbed'
            /\ Org(c) \notin disturbed' => List(Org(c)) = a.attached
          BY <1>3 DEF NestedGroups, Goes
      <2>2. q.org = Org(c) /\ q.nested = List(Org(c))
          BY <1>2 DEF CallRecords
      <2>3. to = "idle" => List(Org(c)) = {}
          OBVIOUS
      <2>4. to \in {"idle", "read"}
          OBVIOUS
      <2> HIDE DEF q, to
      <2>5. During("list", a, r) /\ Org(c) \notin disturbed' =>
               IF to = "idle" THEN AtRest(a) ELSE During(to, a, q)
          <3> SUFFICES ASSUME During("list", a, r), Org(c) \notin disturbed'
                       PROVE  IF to = "idle" THEN AtRest(a) ELSE During(to, a, q)
              OBVIOUS
          <3>1. Sound(a) /\ a.primary /\ a.nested = a.attached /\ a.roles = a.assigned
              BY DEF During, DuringDeletion, Creating, Dropping, Updating
          <3>2. AtRest(a)
              BY <3>1 DEF AtRest
          <3>3. DuringDeletion("read", a, q)
              BY <2>1, <2>2, <3>1 DEF DuringDeletion, Dropping
          <3>4. During("read", a, q)
              BY <3>1, <3>3 DEF During, Creating, Dropping, Updating
          <3> QED
              BY <2>4, <3>2, <3>4
      <2>6. Exact("list", a, r) => a = Complete /\ Exact("read", a, q)
          BY DEF Exact, Creating, Updating
      <2> QED
          BY <1>1, <1>2, <2>1, <2>2, <2>4, <2>5, <2>6, Frame
  <1>4. CASE ReadRoles(c)
      <2> DEFINE q == [call[c] EXCEPT !.roles = a.roles, !.permissions = a.permissions]
      <2>1. /\ pc[c] = "read" /\ pc' = [pc EXCEPT ![c] = "detach"]
            /\ call' = [call EXCEPT ![c] = q] /\ disturbed' = disturbed
          BY <1>4 DEF ReadRoles, Goes, history
      <2>2. /\ q.org = Org(c) /\ q.nested = r.nested
            /\ q.roles = a.roles /\ q.permissions = a.permissions
          BY <1>2 DEF CallRecords
      <2> HIDE DEF q
      <2>3. During("read", a, r) => During("detach", a, q)
          <3> SUFFICES ASSUME During("read", a, r) PROVE During("detach", a, q)
              OBVIOUS
          <3>1. /\ Sound(a) /\ a.primary /\ a.nested = a.attached /\ a.roles = a.assigned
                /\ r.nested = a.nested
              BY DEF During, DuringDeletion, Creating, Dropping, Updating
          <3>2. DuringDeletion("detach", a, q)
              BY <2>2, <3>1 DEF DuringDeletion, Dropping
          <3> QED
              BY <3>1, <3>2 DEF During, Creating, Dropping, Updating
      <2>4. Exact("read", a, r) => Exact("detach", a, q)
          BY DEF Exact, Creating, Updating
      <2> QED
          BY <1>1, <1>2, <2>1, <2>2, <2>3, <2>4, Frame
  <1> QED
      BY <1>3, <1>4

\* A deletion detaches the nested groups, and removes the primary group last.
LEMMA DeletionKeeps ==
    ASSUME Inv, NEW c \in Calls, DeleteNestedGroups(c) \/ DeletePrimary(c) \/ Publish(c)
    PROVE  OneAtATime' /\ Mendable' /\ SerialExact'
  <1> DEFINE a == authz[Org(c)]
             b == authz'[Org(c)]
             r == call[c]
  <1>1. pc[c] \in {"detach", "dropPrimary", "publish"} /\ UNCHANGED history
      BY DEF DeleteNestedGroups, DeletePrimary, Publish, Moves, Goes
  <1>2. /\ Org(c) \in Orgs /\ authz \in [Orgs -> Parts] /\ a \in Parts /\ r \in CallRecords
        /\ Org(c) \notin disturbed \cup torn => During(pc[c], a, r)
        /\ torn \subseteq damaged
      BY <1>1, Here
  <1>3. CASE DeleteNestedGroups(c)
      <2> DEFINE q == [call[c] EXCEPT !.todo = Todo(c, "dropNested")]
      <2>1. /\ pc[c] = "detach" /\ Moves(c, "detach", "dropNested")
            /\ \A o \in Orgs \ {Org(c)} : authz'[o] = authz[o]
            /\ b = [a EXCEPT !.attached = a.attached \ r.nested]
          BY <1>2, <1>3 DEF DeleteNestedGroups, Moves, Goes, Parts
      <2>2. /\ b.primary = a.primary /\ b.owned = a.owned /\ b.nested = a.nested
            /\ b.attached = a.attached \ r.nested /\ b.permissions = a.permissions
            /\ b.roles = a.roles /\ b.assigned = a.assigned
          BY <1>2, <2>1 DEF Parts
      <2>3. /\ q.todo = r.nested /\ q.nested = r.nested /\ q.roles = r.roles
            /\ q.permissions = r.permissions
          BY <1>2 DEF CallRecords, Todo
      <2> HIDE DEF q
      <2>4. During("detach", a, r) => During("dropNested", b, q)
          <3> SUFFICES ASSUME During("detach", a, r) PROVE During("dropNested", b, q)
              OBVIOUS
          <3>1. /\ Sound(a) /\ a.primary /\ a.nested = a.attached /\ r.nested = a.nested
                /\ r.roles = a.roles /\ r.permissions = a.permissions
              BY DEF During, DuringDeletion, Creating, Dropping, Updating
          <3>2. DuringDeletion("dropNested", b, q)
              BY <2>2, <2>3, <3>1 DEF DuringDeletion, Dropping
          <3>3. Sound(b)
              BY <2>2, <3>1 DEF Sound
          <3> QED
              BY <3>2, <3>3 DEF During, Creating, Dropping, Updating
      <2>5. Exact("dropNested", b, q)
          BY DEF Exact, Creating, Updating
      <2> QED
          BY <1>1, <1>2, <2>1, <2>4, <2>5, MovesFrame DEF q
  <1>4. CASE DeletePrimary(c)
      <2> DEFINE q == [call[c] EXCEPT !.todo = Todo(c, "publish")]
      <2>1. /\ pc[c] = "dropPrimary" /\ Moves(c, "dropPrimary", "publish")
            /\ \A o \in Orgs \ {Org(c)} : authz'[o] = authz[o]
            /\ b = [a EXCEPT !.primary = FALSE, !.listed = FALSE]
          BY <1>2, <1>4 DEF DeletePrimary, Moves, Goes, Parts
      <2>2. /\ b \in Parts /\ ~b.primary /\ ~b.listed
            /\ b.owned = a.owned /\ b.nested = a.nested
            /\ b.attached = a.attached /\ b.permissions = a.permissions
            /\ b.roles = a.roles /\ b.assigned = a.assigned
          BY <1>2, <2>1 DEF Parts
      <2> HIDE DEF q
      <2>3. During("dropPrimary", a, r) => During("publish", b, q)
          <3> SUFFICES ASSUME During("dropPrimary", a, r) PROVE During("publish", b, q)
              OBVIOUS
          <3>1. Sound(a) /\ DuringDeletion("dropPrimary", a, r)
              BY DEF During, Creating, Dropping, Updating
          <3>2. a.attached = {} /\ a.nested = {} /\ a.roles = {} /\ a.permissions = {}
              BY <3>1 DEF DuringDeletion, Dropping
          <3>3. a.assigned = {} /\ ~a.owned
              BY <3>1, <3>2 DEF Sound
          <3>4. /\ b.primary = Nothing.primary /\ b.listed = Nothing.listed
                /\ b.owned = Nothing.owned
              BY <1>2, <2>2, <3>3 DEF Parts, Nothing
          <3>5. /\ b.nested = Nothing.nested /\ b.attached = Nothing.attached
                /\ b.permissions = Nothing.permissions /\ b.roles = Nothing.roles
                /\ b.assigned = Nothing.assigned
              BY <2>2, <3>2, <3>3, NothingParts
          <3>6. b = Nothing
              <4> HIDE DEF b
              <4> QED
                  BY ONLY <2>2, <3>4, <3>5, NothingParts, SameParts
          <3> QED
              BY <3>6, NothingParts DEF During, Sound, Creating, Dropping, Updating
      <2>4. Exact("publish", b, q)
          BY DEF Exact, Creating, Updating
      <2> QED
          BY <1>1, <1>2, <2>1, <2>3, <2>4, MovesFrame DEF q
  <1>5. CASE Publish(c)
      <2>1. pc[c] = "publish" /\ Moves(c, "publish", "idle") /\ authz' = authz
          BY <1>5 DEF Publish, Moves, Goes
      <2>2. During("publish", a, r) => AtRest(a) /\ a = Nothing
          BY NothingParts DEF During, AtRest, Sound
      <2> QED
          BY <1>1, <1>2, <2>1, <2>2, MovesFrame
  <1> QED
      BY <1>3, <1>4, <1>5

\* An update deals with one type of role after the other.
LEMMA UpdatesKeep ==
    ASSUME Inv, NEW c \in Calls,
           \/ \E t \in Types : NextType(c, t)
           \/ \E s \in Scopes : NewPermission(c, s)
           \/ NewGroup(c) \/ AttachGroup(c) \/ UpdateRole(c) \/ NewRole(c)
           \/ AssignRole(c) \/ ConfigUpdated(c)
    PROVE  OneAtATime' /\ Mendable' /\ SerialExact'
  <1> DEFINE stage == pc[c]
             a == authz[Org(c)]
             b == authz'[Org(c)]
             r == call[c]
  <1>1. stage \in Updating /\ stage # "idle" /\ UNCHANGED history
      BY DEF NextType, NewPermission, NewGroup, AttachGroup, UpdateRole, NewRole,
             AssignRole, ConfigUpdated, Goes, Updating
  <1>2. /\ Org(c) \in Orgs /\ authz \in [Orgs -> Parts] /\ a \in Parts /\ r \in CallRecords
        /\ r.org = Org(c) /\ r.todo \subseteq Types
        /\ stage # "type" => r.type \in Types
      BY <1>1, Here DEF Inv, TypeOK, CallsOK, Updating
  <1>3. /\ Org(c) \notin disturbed \cup torn => Sound(a) /\ DuringUpdate(stage, a, r)
        /\ Org(c) \notin disturbed \cup damaged =>
              /\ Sound(a) /\ DuringUpdate(stage, a, r)
              /\ a = Complete /\ stage \in {"type", "scopes"}
              /\ r.nested = Types /\ r.roles = Types /\ r.permissions = Scopes
      BY <1>1, Here DEF During, Exact
  \* It is enough to say what a step makes of the workspace and of the handler.
  <1>4. ASSUME NEW to \in Updating, NEW q, q.org = Org(c),
               pc' = [pc EXCEPT ![c] = to], call' = [call EXCEPT ![c] = q],
               \A o \in Orgs \ {Org(c)} : authz'[o] = authz[o],
               Sound(a) /\ DuringUpdate(stage, a, r) =>
                  Sound(b) /\ DuringUpdate(to, b, q),
               a = Complete /\ stage \in {"type", "scopes"} /\ r.nested = Types
                 /\ r.roles = Types /\ r.permissions = Scopes =>
                  /\ b = Complete /\ to \in {"type", "scopes"} /\ q.nested = Types
                  /\ q.roles = Types /\ q.permissions = Scopes
        PROVE  OneAtATime' /\ Mendable' /\ SerialExact'
      <2>1. to # "idle"
          BY DEF Updating
      <2>2. Sound(b) /\ DuringUpdate(to, b, q) => During(to, b, q)
          BY DEF During, Creating, Dropping, Updating
      <2>3. b = Complete /\ to \in {"type", "scopes"} /\ q.nested = Types
               /\ q.roles = Types /\ q.permissions = Scopes => Exact(to, b, q)
          BY DEF Exact, Creating, Updating
      <2>4. Org(c) \notin disturbed \cup torn => During(to, b, q)
          BY <1>3, <1>4, <2>2
      <2>5. Org(c) \notin disturbed \cup damaged => Exact(to, b, q)
          BY <1>3, <1>4, <2>3
      <2>6. pc[c] # "idle" /\ disturbed' = disturbed /\ torn' = torn /\ damaged' = damaged
          BY <1>1 DEF history
      <2>7. call' = [call EXCEPT ![c] = IF to = "idle" THEN NoCall ELSE q]
          BY <1>4, <2>1
      <2> QED
          BY <1>4, <2>1, <2>4, <2>5, <2>6, <2>7, Frame
  <1>5. ASSUME NEW t \in Types, NextType(c, t)
        PROVE  OneAtATime' /\ Mendable' /\ SerialExact'
      <2> DEFINE q == [call[c] EXCEPT !.todo = call[c].todo \ {t}, !.type = t]
                 to == IF t \in r.nested THEN "scopes" ELSE "newGroup"
      <2>1. /\ stage = "type" /\ t \in r.todo /\ authz' = authz
            /\ pc' = [pc EXCEPT ![c] = to] /\ call' = [call EXCEPT ![c] = q]
          BY <1>2, <1>5 DEF NextType, Goes, CallRecords
      <2>2. /\ q.org = Org(c) /\ q.todo = r.todo \ {t} /\ q.type = t /\ q.nested = r.nested
            /\ q.roles = r.roles /\ q.permissions = r.permissions
          BY <1>2 DEF CallRecords
      <2>3. /\ to \in Updating /\ to # "type" /\ to \in {"scopes", "newGroup"}
            /\ to = "scopes" <=> t \in r.nested
          BY DEF Updating
      <2> HIDE DEF q, to
      <2>4. DuringUpdate("type", a, r) => DuringUpdate(to, a, q)
          <3> SUFFICES ASSUME DuringUpdate("type", a, r) PROVE DuringUpdate(to, a, q)
              OBVIOUS
          <3>1. Dealt(q) = Types \ r.todo
              BY <2>1, <2>2 DEF Dealt
          <3> QED
              BY <1>2, <2>1, <2>2, <2>3, <3>1 DEF DuringUpdate
      <2> QED
          BY <1>4, <2>1, <2>2, <2>3, <2>4
  <1>6. ASSUME NEW s \in Scopes, NewPermission(c, s)
        PROVE  OneAtATime' /\ Mendable' /\ SerialExact'
      <2> DEFINE q == [call[c] EXCEPT !.permissions = call[c].permissions \cup {s}]
      <2>1. /\ stage = "scopes" /\ s \notin r.permissions
            /\ pc' = [pc EXCEPT ![c] = "scopes"] /\ call' = [call EXCEPT ![c] = q]
            /\ \A o \in Orgs \ {Org(c)} : authz'[o] = authz[o]
            /\ b = [a EXCEPT !.permissions = a.permissions \cup {s}]
          BY <1>2, <1>6 DEF NewPermission, Goes, CallRecords, Parts
      <2>2. /\ q.org = Org(c) /\ q.todo = r.todo /\ q.type = r.type /\ q.nested = r.nested
            /\ q.roles = r.roles /\ q.permissions = r.permissions \cup {s}
          BY <1>2 DEF CallRecords
      <2>3. /\ b.primary = a.primary /\ b.listed = a.listed /\ b.owned = a.owned
            /\ b.nested = a.nested /\ b.attached = a.attached
            /\ b.permissions = a.permissions \cup {s}
            /\ b.roles = a.roles /\ b.assigned = a.assigned
          BY <1>2, <2>1 DEF Parts
      <2>4. "scopes" \in Updating
          BY DEF Updating
      <2> HIDE DEF q
      <2>5. Sound(a) => Sound(b)
          BY <2>3 DEF Sound
      <2>6. DuringUpdate("scopes", a, r) => DuringUpdate("scopes", b, q)
          BY <2>2, <2>3 DEF DuringUpdate, Dealt
      <2> QED
          BY <1>4, <2>1, <2>2, <2>4, <2>5, <2>6
  <1>7. CASE NewGroup(c)
      <2>1. /\ stage = "newGroup" /\ pc' = [pc EXCEPT ![c] = "newAttach"]
            /\ call' = [call EXCEPT ![c] = r]
            /\ \A o \in Orgs \ {Org(c)} : authz'[o] = authz[o]
            /\ b = [a EXCEPT !.nested = a.nested \cup {r.type}]
          BY <1>2, <1>7 DEF NewGroup, Goes, Parts
      <2>2. /\ b.primary = a.primary /\ b.listed = a.listed /\ b.owned = a.owned
            /\ b.nested = a.nested \cup {r.type} /\ b.attached = a.attached
            /\ b.permissions = a.permissions
            /\ b.roles = a.roles /\ b.assigned = a.assigned
          BY <1>2, <2>1 DEF Parts
      <2>3. "newAttach" \in Updating
          BY DEF Updating
      <2>4. Sound(a) => Sound(b)
          BY <2>2 DEF Sound
      <2>5. DuringUpdate("newGroup", a, r) => DuringUpdate("newAttach", b, r)
          BY <2>2 DEF DuringUpdate
      <2> QED
          BY <1>2, <1>4, <2>1, <2>3, <2>4, <2>5
  <1>8. CASE AttachGroup(c)
      <2>1. /\ stage = "newAttach" /\ pc' = [pc EXCEPT ![c] = "scopes"]
            /\ call' = [call EXCEPT ![c] = r] /\ r.type \in a.nested
            /\ \A o \in Orgs \ {Org(c)} : authz'[o] = authz[o]
            /\ b = [a EXCEPT !.attached = a.attached \cup {r.type}]
          BY <1>2, <1>8 DEF AttachGroup, Goes, Parts
      <2>2. /\ b.primary = a.primary /\ b.listed = a.listed /\ b.owned = a.owned
            /\ b.nested = a.nested /\ b.attached = a.attached \cup {r.type}
            /\ b.permissions = a.permissions
            /\ b.roles = a.roles /\ b.assigned = a.assigned
          BY <1>2, <2>1 DEF Parts
      <2>3. "scopes" \in Updating
          BY DEF Updating
      <2>4. Sound(a) => Sound(b)
          BY <2>1, <2>2 DEF Sound
      <2>5. Sound(a) /\ DuringUpdate("newAttach", a, r) => DuringUpdate("scopes", b, r)
          BY <2>1, <2>2 DEF DuringUpdate, Sound
      <2> QED
          BY <1>2, <1>4, <2>1, <2>3, <2>4, <2>5
  <1>9. CASE UpdateRole(c)
      <2> DEFINE to == IF r.type \in r.roles THEN "type" ELSE "newRole"
      <2>1. /\ stage = "scopes" /\ pc' = [pc EXCEPT ![c] = to]
            /\ ScopesOf[r.type] \subseteq r.permissions
            /\ call' = [call EXCEPT ![c] = r] /\ authz' = authz
          BY <1>9 DEF UpdateRole, Goes
      <2>2. /\ to \in Updating /\ to \in {"type", "newRole"}
            /\ to = "type" <=> r.type \in r.roles
          BY DEF Updating
      <2> HIDE DEF to
      <2>3. DuringUpdate("scopes", a, r) => DuringUpdate(to, a, r)
          <3> SUFFICES ASSUME DuringUpdate("scopes", a, r) PROVE DuringUpdate(to, a, r)
              OBVIOUS
          <3>1. Types \ r.todo \subseteq Dealt(r) \cup {r.type}
              BY DEF Dealt
          <3> QED
              BY <2>1, <2>2, <3>1 DEF DuringUpdate
      <2> QED
          BY <1>2, <1>4, <2>1, <2>2, <2>3
  <1>10. CASE NewRole(c)
      <2>1. /\ stage = "newRole" /\ pc' = [pc EXCEPT ![c] = "newAssign"]
            /\ call' = [call EXCEPT ![c] = r]
            /\ \A o \in Orgs \ {Org(c)} : authz'[o] = authz[o]
            /\ b = [a EXCEPT !.roles = a.roles \cup {r.type}]
          BY <1>2, <1>10 DEF NewRole, Goes, Parts
      <2>2. /\ b.primary = a.primary /\ b.listed = a.listed /\ b.owned = a.owned
            /\ b.nested = a.nested /\ b.attached = a.attached
            /\ b.permissions = a.permissions
            /\ b.roles = a.roles \cup {r.type} /\ b.assigned = a.assigned
          BY <1>2, <2>1 DEF Parts
      <2>3. "newAssign" \in Updating
          BY DEF Updating
      <2>4. Sound(a) => Sound(b)
          BY <2>2 DEF Sound
      <2>5. DuringUpdate("newRole", a, r) => DuringUpdate("newAssign", b, r)
          BY <2>2 DEF DuringUpdate
      <2> QED
          BY <1>2, <1>4, <2>1, <2>3, <2>4, <2>5
  <1>11. CASE AssignRole(c)
      <2>1. /\ stage = "newAssign" /\ pc' = [pc EXCEPT ![c] = "type"]
            /\ call' = [call EXCEPT ![c] = r]
            /\ \A o \in Orgs \ {Org(c)} : authz'[o] = authz[o]
            /\ b = [a EXCEPT !.assigned = a.assigned \cup {r.type}]
          BY <1>2, <1>11 DEF AssignRole, Goes, Parts
      <2>2. /\ b.primary = a.primary /\ b.listed = a.listed /\ b.owned = a.owned
            /\ b.nested = a.nested /\ b.attached = a.attached
            /\ b.permissions = a.permissions
            /\ b.roles = a.roles /\ b.assigned = a.assigned \cup {r.type}
          BY <1>2, <2>1 DEF Parts
      <2>3. "type" \in Updating
          BY DEF Updating
      <2>4. DuringUpdate("newAssign", a, r) => r.type \in a.nested \cap a.roles
          BY DEF DuringUpdate
      <2>5. Sound(a) /\ DuringUpdate("newAssign", a, r) => Sound(b)
          BY <2>2, <2>4 DEF Sound
      <2>6. Sound(a) /\ DuringUpdate("newAssign", a, r) => DuringUpdate("type", b, r)
          <3> SUFFICES ASSUME Sound(a), DuringUpdate("newAssign", a, r)
                       PROVE  DuringUpdate("type", b, r)
              OBVIOUS
          <3>1. Types \ r.todo \subseteq Dealt(r) \cup {r.type}
              BY DEF Dealt
          <3>2. b.roles = b.assigned
              BY <2>2 DEF DuringUpdate, Sound
          <3> QED
              BY <2>2, <2>4, <3>1, <3>2 DEF DuringUpdate
      <2> QED
          BY <1>2, <1>4, <2>1, <2>3, <2>5, <2>6
  <1>12. CASE ConfigUpdated(c)
      <2>1. /\ stage = "type" /\ authz' = authz
            /\ pc' = [pc EXCEPT ![c] = "idle"]
            /\ call' = [call EXCEPT ![c] = NoCall]
          BY <1>12 DEF ConfigUpdated, Goes
      <2>2. Sound(a) /\ DuringUpdate("type", a, r) => AtRest(a)
          BY DEF DuringUpdate, AtRest
      <2> QED
          BY <1>1, <1>2, <1>3, <2>1, <2>2, Frame DEF history
  <1> QED
      BY <1>5, <1>6, <1>7, <1>8, <1>9, <1>10, <1>11, <1>12

\* A call that fails leaves something unattached, or a workspace to be mended.
LEMMA FailsKeep ==
    ASSUME Inv, NEW c \in Calls, CallFails(c)
    PROVE  OneAtATime' /\ Mendable' /\ SerialExact'
  <1> DEFINE stage == pc[c]
             a == authz[Org(c)]
             b == authz'[Org(c)]
             r == call[c]
  <1>1. /\ stage # "idle" /\ disturbed' = disturbed
        /\ pc' = [pc EXCEPT ![c] = "idle"]
        /\ call' = [call EXCEPT ![c] = NoCall]
        /\ damaged' = damaged \cup {Org(c)} /\ torn \subseteq torn'
        /\ stage \in Tearing => Org(c) \in torn'
      BY DEF CallFails, Goes, Caught
  <1>2. /\ Org(c) \in Orgs /\ a \in Parts /\ stage \in Stages
        /\ Org(c) \notin disturbed \cup torn => During(stage, a, r)
      BY <1>1, Here DEF Inv, TypeOK, CallsOK
  <1>3. PICK X \in SUBSET r.todo :
           authz' = IF stage \in DOMAIN Then THEN After(c, stage, X) ELSE authz
      BY DEF CallFails
  <1>4. /\ \A o \in Orgs \ {Org(c)} : authz'[o] = authz[o]
        /\ stage \in DOMAIN Then => Changes(stage, a, b, X)
        /\ stage \notin DOMAIN Then => b = a
      BY <1>1, <1>3, AfterParts
  <1>5. ASSUME Org(c) \notin disturbed' \cup torn' PROVE AtRest(b)
      <2>1. stage \notin Tearing /\ During(stage, a, r)
          BY <1>1, <1>2, <1>5
      <2>2. CASE stage = "permissions"
          <3>1. /\ Sound(a) /\ a.primary /\ a.nested = a.attached /\ a.roles = a.assigned
              BY <2>1, <2>2 DEF During, DuringCreation, Creating
          <3>2. /\ b.primary = a.primary /\ b.nested = a.nested /\ b.attached = a.attached
                /\ b.roles = a.roles /\ b.assigned = a.assigned /\ (b.owned <=> a.owned)
              BY <1>4, <2>2 DEF Changes, Then
          <3> QED
              BY <3>1, <3>2 DEF AtRest, Sound
      <2>3. CASE stage = "dropPermissions"
          <3>1. Sound(a) /\ DuringDeletion("dropPermissions", a, r)
              BY <2>1, <2>3 DEF During, Creating, Dropping, Updating
          <3>2. a.primary /\ a.nested = {} /\ a.attached = {} /\ a.roles = {}
              BY <3>1 DEF DuringDeletion, Dropping
          <3>3. /\ b.primary = a.primary /\ b.nested = a.nested /\ b.attached = a.attached
                /\ b.roles = a.roles /\ b.assigned = a.assigned /\ (b.owned <=> a.owned)
              BY <1>4, <2>3 DEF Changes, Then
          <3> QED
              BY <3>1, <3>2, <3>3 DEF AtRest, Sound
      <2>4. CASE stage \notin DOMAIN Then
          <3>1. b = a
              BY <1>4, <2>4
          <3>2. stage \in {"primary", "owners", "list", "read", "detach", "dropPrimary",
                           "publish", "type", "newGroup", "scopes", "newRole"}
              BY <1>1, <1>2, <2>1, <2>4 DEF Stages, Tearing
          <3>3. CASE stage \in {"primary", "publish"}
              BY <2>1, <3>1, <3>3, NothingParts DEF During, AtRest, Sound
          <3>4. CASE stage = "owners"
              <4>1. Sound(a) /\ DuringCreation("owners", a, r)
                  BY <2>1, <3>4 DEF During, Creating
              <4> QED
                  BY <3>1, <4>1 DEF DuringCreation, AtRest
          <3>5. CASE stage \in {"list", "read", "detach", "dropPrimary"}
              <4>1. Sound(a) /\ DuringDeletion(stage, a, r)
                  BY <2>1, <3>5 DEF During, Dropping
              <4>2. a.primary /\ a.nested = a.attached /\ a.roles = a.assigned
                  BY <3>5, <4>1 DEF DuringDeletion, Dropping, Sound
              <4> QED
                  BY <3>1, <4>1, <4>2 DEF AtRest
          <3>6. CASE stage \in {"type", "newGroup", "scopes", "newRole"}
              <4>1. Sound(a) /\ DuringUpdate(stage, a, r)
                  BY <2>1, <3>6 DEF During, Updating
              <4> QED
                  BY <3>1, <3>6, <4>1 DEF DuringUpdate, AtRest
          <3> QED
              BY <3>2, <3>3, <3>4, <3>5, <3>6
      <2> QED
          BY <2>1, <2>2, <2>3, <2>4 DEF Tearing, Then
  <1> QED
      BY <1>1, <1>4, <1>5, Frame

\* The cache holds nothing of what the service holds.
LEMMA CacheKeeps ==
    ASSUME Inv, NEW o \in Orgs, ReadList(o) \/ Expire(o)
    PROVE  OneAtATime' /\ Mendable' /\ SerialExact'
  <1>1. UNCHANGED <<authz, pc, call, disturbed, torn, damaged>>
      BY DEF ReadList, Expire, history
  <1> QED
      BY <1>1 DEF Inv, OneAtATime, Mendable, SerialExact, Busy, Org

-----------------------------------------------------------------------------

LEMMA InitInv == Init => Inv
  <1> SUFFICES ASSUME Init PROVE Inv
      OBVIOUS
  <1>1. \A c \in Calls : pc[c] = "idle"
      BY DEF Init
  <1>2. \A o \in Orgs : authz[o] \in {Nothing, Complete}
      BY DEF Init
  <1>3. AtRest(Nothing) /\ AtRest(Complete)
      BY NothingParts, CompleteParts, WorkspacesAssumption DEF AtRest, Sound
  <1> QED
      BY <1>1, <1>2, <1>3, InitType DEF Inv, OneAtATime, Mendable, SerialExact

LEMMA StepInv == Inv /\ [Next]_vars => Inv'
  <1> SUFFICES ASSUME Inv, [Next]_vars PROVE Inv'
      OBVIOUS
  <1>1. TypeOK'
      BY StepType DEF Inv
  <1>2. CASE UNCHANGED vars
      <2>1. UNCHANGED <<authz, pc, call, disturbed, torn, damaged>>
          BY <1>2 DEF vars, history
      <2> QED
          BY <1>1, <2>1 DEF Inv, OneAtATime, Mendable, SerialExact, Busy, Org
  <1>3. CASE Next
      <2>1. OneAtATime' /\ Mendable' /\ SerialExact'
          BY <1>3, StartsKeep, AnsweredKeeps, AllAnsweredKeeps, CreatePrimaryKeeps,
             CreationKeeps, ReadsKeep, DeletionKeeps, UpdatesKeep, FailsKeep, CacheKeeps
             DEF Next
      <2> QED
          BY <1>1, <2>1 DEF Inv
  <1> QED
      BY <1>2, <1>3

LEMMA Invariance == Spec => []Inv
  <1> QED
      BY InitInv, StepInv, PTL DEF Spec

\* Nothing of a workspace outlives its primary group, which is created first
\* and removed last: so the name can be taken again.
THEOREM NothingOutlives == Spec => []NothingOutlivesPrimary
  <1>1. Inv => NothingOutlivesPrimary
      <2> SUFFICES ASSUME Inv, NEW o \in Orgs \ (disturbed \cup torn), ~authz[o].primary
                   PROVE  authz[o] = Nothing
          BY DEF NothingOutlivesPrimary
      <2>1. CASE ~Busy(o)
          BY <2>1, Resting DEF AtRest
      <2>2. CASE Busy(o)
          <3>1. PICK c \in Calls : pc[c] # "idle" /\ Org(c) = o
              BY <2>2 DEF Busy
          <3>2. During(pc[c], authz[o], call[c]) /\ pc[c] \in Stages
              BY <3>1, Here DEF Inv, TypeOK, CallsOK
          <3>3. pc[c] \in {"primary", "publish"}
              <4>1. pc[c] \notin Creating
                  BY <3>2 DEF During, DuringCreation
              <4>2. pc[c] \notin {"list", "read", "detach"} \cup Dropping
                  BY <3>2 DEF During, DuringDeletion
              <4>3. pc[c] \notin Updating
                  BY <3>2 DEF During, DuringUpdate
              <4> QED
                  BY <3>1, <3>2, <4>1, <4>2, <4>3
                     DEF Stages, Then, Creating, Dropping, Updating
          <3> QED
              BY <3>2, <3>3 DEF During, AtRest
      <2> QED
          BY <2>1, <2>2
  <1> QED
      BY <1>1, Invariance, PTL

\* Handlers one after the other that meet no failure leave a whole workspace,
\* or nothing of it.
THEOREM SerialWhole == Spec => []SerialWorkspacesAreWhole
  <1>1. Inv => SerialWorkspacesAreWhole
      BY DEF Inv, SerialExact, SerialWorkspacesAreWhole
  <1> QED
      BY <1>1, Invariance, PTL

\* An update that comes to its end has mended what failures left of a workspace.
THEOREM UpdatesMend == Spec => UpdateMends
  <1>1. Inv /\ [Next]_vars =>
           [\A c \in Calls :
               ConfigUpdated(c) /\ Org(c) \notin disturbed \cup torn =>
                  LET has == authz[Org(c)] IN
                  /\ ScopesOfRoles \subseteq has.permissions
                  /\ has = [Complete EXCEPT !.owned = has.owned,
                                            !.permissions = has.permissions]]_vars
      <2> SUFFICES ASSUME Inv, NEW c \in Calls, ConfigUpdated(c),
                          Org(c) \notin disturbed \cup torn
                   PROVE  /\ ScopesOfRoles \subseteq authz[Org(c)].permissions
                          /\ authz[Org(c)] =
                                [Complete EXCEPT !.owned = authz[Org(c)].owned,
                                                 !.permissions = authz[Org(c)].permissions]
          OBVIOUS
      <2> DEFINE a == authz[Org(c)]
                 e == [Complete EXCEPT !.owned = authz[Org(c)].owned,
                                       !.permissions = authz[Org(c)].permissions]
      <2>1. pc[c] = "type" /\ call[c].todo = {}
          BY DEF ConfigUpdated
      <2>2. a \in Parts /\ DuringUpdate("type", a, call[c])
          BY <2>1, Here DEF During, Updating
      <2>3. /\ a.nested \subseteq Types /\ a.roles \subseteq Types
          BY <2>2 DEF Parts
      <2>4. /\ a.primary /\ a.listed /\ a.nested = Types /\ a.attached = Types
            /\ a.roles = Types /\ a.assigned = Types
            /\ \A t \in Types : ScopesOf[t] \subseteq a.permissions
          BY <2>1, <2>2, <2>3 DEF DuringUpdate
      <2>5. /\ e \in Parts /\ e.primary /\ e.listed /\ e.owned = a.owned
            /\ e.nested = Types /\ e.attached = Types /\ e.roles = Types
            /\ e.assigned = Types /\ e.permissions = a.permissions
          BY <2>2 DEF Complete, Parts
      <2>6. a.primary = e.primary /\ a.listed = e.listed
          BY <2>2, <2>4, <2>5 DEF Parts
      <2>7. ScopesOfRoles \subseteq a.permissions
          BY <2>4 DEF ScopesOfRoles
      <2> HIDE DEF a, e
      <2>8. a = e
          BY <2>2, <2>4, <2>5, <2>6, SameParts
      <2> QED
          BY <2>7, <2>8 DEF a, e
  <1> QED
      BY <1>1, Invariance, PTL DEF Spec, UpdateMends

\* The wipe of its documents is announced when nothing is left of a workspace.
THEOREM PublishedWhenAllIsGone == Spec => PublishedWhenGone
  <1>1. Inv /\ [Next]_vars =>
           [\A c \in Calls :
               Publish(c) /\ Org(c) \notin disturbed \cup torn =>
                  authz[Org(c)] = Nothing]_vars
      <2> SUFFICES ASSUME Inv, NEW c \in Calls, Publish(c),
                          Org(c) \notin disturbed \cup torn
                   PROVE  authz[Org(c)] = Nothing
          OBVIOUS
      <2>1. pc[c] = "publish"
          BY DEF Publish, Moves, Goes
      <2> QED
          BY <2>1, Here DEF During
  <1> QED
      BY <1>1, Invariance, PTL DEF Spec, PublishedWhenGone

-----------------------------------------------------------------------------
(***************************************************************************)
(* The clean-up after the deletion of a workspace, Wipes, for any          *)
(* documents, workspaces and bounds.                                       *)
(*                                                                         *)
(* A handler removes documents by the name of the workspace that its event *)
(* carries.  That is safe because a name with an event on its way is of no *)
(* workspace, or is known to have been taken again.                        *)
(***************************************************************************)
CONSTANTS Layers, Others, Model, Home, MaxRepeats

VARIABLES workspaces, stored, entry, saves, outbox, wipeEvents, handler, tiles,
          uploads, rules, wipeRequests, repeats, missed, stray, reused

W == INSTANCE Wipes WITH events <- wipeEvents, requests <- wipeRequests

WipeStages == {"none", "layers", "policy", "remove", "unindex", "done"}
Handlings == [step : WipeStages, ids : SUBSET Layers, left : SUBSET W!Models]

\* The name of a deleted workspace, which an event carries, is of none that
\* exists, or was reused.
NamesAreFree == \A o \in Orgs : o \in outbox \cup wipeEvents => o \notin workspaces \/ o \in reused

\* What TypeOK says of a handler.
HandlerOK(e) ==
    /\ handler[e].step # "none" => e \in wipeEvents
    /\ handler[e].step \in {"remove", "unindex"} => handler[e].left # {}

WipesInv == W!TypeOK /\ NamesAreFree

-----------------------------------------------------------------------------

LEMMA LeftOK ==
    ASSUME W!WipesConstants
    PROVE  /\ W!Models # {}
           /\ \A step : W!Left(step) \in SUBSET W!Models
           /\ \A step \in {"remove", "unindex"} : W!Left(step) # {}
           /\ W!Steps.start = "layers" /\ W!Steps.layers = "policy"
           /\ W!Steps.policy = "remove" /\ W!Steps.remove = "unindex"
           /\ \A e : W!AfterPolicy(e) \in {"done", "remove"}
  BY DEF W!WipesConstants, W!Models, W!Left, W!Steps, W!AfterPolicy

\* The types of the steps that a handler of events takes with Goes.
LEMMA GoesType ==
    ASSUME W!WipesConstants, W!TypeOK, NEW e \in W!Events, NEW from, NEW to \in WipeStages,
           NEW ids \in SUBSET Layers, NEW left \in SUBSET W!Models,
           W!Goes(e, from, to, ids, left),
           wipeEvents' \subseteq wipeEvents,
           \A x \in W!Events \ {e} : x \in wipeEvents => x \in wipeEvents',
           to # "none" => e \in wipeEvents',
           to \in {"remove", "unindex"} => left # {}
    PROVE  /\ handler' \in [W!Events -> Handlings]
           /\ \A x \in W!Events : HandlerOK(x)'
           /\ outbox' \subseteq W!Events /\ wipeEvents' \subseteq W!Events /\ reused' \subseteq Orgs
           /\ workspaces' \subseteq Orgs /\ saves' \subseteq W!Docs /\ uploads' \subseteq Layers
           /\ wipeRequests' \in 0 .. MaxRequests /\ repeats' \in 0 .. MaxRepeats
  <1> DEFINE h == [step |-> to, ids |-> ids, left |-> left]
  <1>1. handler \in [W!Events -> Handlings]
      BY DEF W!TypeOK, Handlings, WipeStages
  <1>2. h \in Handlings /\ h.step = to /\ h.left = left
      BY DEF Handlings
  <1>3. handler' = [handler EXCEPT ![e] = h]
      BY DEF W!Goes
  <1> HIDE DEF h
  <1>4. handler' \in [W!Events -> Handlings] /\ handler'[e] = h
        /\ \A x \in W!Events \ {e} : handler'[x] = handler[x]
      BY <1>1, <1>2, <1>3
  <1>5. ASSUME NEW x \in W!Events PROVE HandlerOK(x)'
      <2>1. CASE x = e
          BY <1>2, <1>4, <2>1 DEF HandlerOK
      <2>2. CASE x # e
          <3>1. handler[x].step # "none" => x \in wipeEvents
              BY DEF W!TypeOK
          <3>2. handler[x].step \in {"remove", "unindex"} => handler[x].left # {}
              BY DEF W!TypeOK
          <3> QED
              BY <1>4, <2>2, <3>1, <3>2 DEF HandlerOK
      <2> QED
          BY <2>1, <2>2
  <1>6. reused' \subseteq Orgs
      BY DEF W!Goes, W!TypeOK
  <1> QED
      BY <1>4, <1>5, <1>6 DEF W!Goes, W!TypeOK, W!clientVars

LEMMA WipesInitType ==
    ASSUME W!WipesConstants, W!Init
    PROVE  W!TypeOK
  <1>1. stored \in [W!Docs -> Orgs \cup {None}]
      BY DEF W!WipesConstants, W!Init
  <1>2. \A e \in W!Events : handler[e] = W!NoHandler
      BY DEF W!Init, W!Events
  <1>3. W!NoHandler \in Handlings /\ W!NoHandler.step = "none"
      BY DEF W!NoHandler, Handlings, WipeStages
  <1>4. handler \in [W!Events -> Handlings]
      BY <1>3 DEF W!Init, W!Events
  <1>5. \A e \in W!Events : HandlerOK(e)
      BY <1>2, <1>3 DEF HandlerOK
  <1>6. wipeRequests \in 0 .. MaxRequests /\ repeats \in 0 .. MaxRepeats
      BY DEF W!WipesConstants, W!Init
  <1> QED
      BY <1>1, <1>4, <1>5, <1>6 DEF W!Init, W!TypeOK, HandlerOK, Handlings, WipeStages

\* Requests, and the publication of events, leave the handlers as they are.
LEMMA ClientsType ==
    ASSUME W!WipesConstants, W!TypeOK,
           \/ \E d \in W!Docs : W!Admit(d) \/ W!Save(d)
           \/ \E d \in Layers : W!RemoveLayer(d) \/ W!LoadLayer(d) \/ W!UploadMapTile(d) \/ W!UploadFails(d)
           \/ \E o \in Orgs : W!DeleteWorkspace(o) \/ W!CreateWorkspace(o)
           \/ \E e \in W!Events : W!Publish(e) \/ W!PublishFails(e)
           \/ W!Expire
    PROVE  W!TypeOK'
  <1>1. handler' = handler /\ wipeEvents \subseteq wipeEvents' /\ repeats' = repeats
      BY DEF W!Admit, W!Save, W!RemoveLayer, W!LoadLayer, W!UploadMapTile, W!UploadFails,
             W!DeleteWorkspace, W!CreateWorkspace, W!Publish, W!PublishFails, W!Expire, W!clientVars
  <1>2. \A x \in W!Events : HandlerOK(x)'
      <2> TAKE x \in W!Events
      <2>1. handler[x].step # "none" => x \in wipeEvents
          BY DEF W!TypeOK
      <2>2. handler[x].step \in {"remove", "unindex"} => handler[x].left # {}
          BY DEF W!TypeOK
      <2> QED
          BY <1>1, <2>1, <2>2 DEF HandlerOK
  <1>3. wipeRequests' \in 0 .. MaxRequests
      <2>1. CASE W!Asks
          BY <2>1 DEF W!WipesConstants, W!Asks, W!TypeOK
      <2>2. CASE wipeRequests' = wipeRequests
          BY <2>2 DEF W!TypeOK
      <2>3. CASE \E d \in W!Docs : W!Admit(d) \/ W!Save(d)
          BY <2>1, <2>2, <2>3 DEF W!Admit, W!Save
      <2>4. CASE \E d \in Layers : W!RemoveLayer(d) \/ W!LoadLayer(d) \/ W!UploadMapTile(d) \/ W!UploadFails(d)
          <3>1. CASE \E d \in Layers : W!RemoveLayer(d) \/ W!LoadLayer(d)
              BY <2>1, <3>1 DEF W!RemoveLayer, W!LoadLayer
          <3>2. CASE \E d \in Layers : W!UploadMapTile(d) \/ W!UploadFails(d)
              BY <2>2, <3>2 DEF W!UploadMapTile, W!UploadFails
          <3> QED
              BY <2>4, <3>1, <3>2
      <2>5. CASE \E o \in Orgs : W!DeleteWorkspace(o) \/ W!CreateWorkspace(o)
          BY <2>1, <2>5 DEF W!DeleteWorkspace, W!CreateWorkspace
      <2>6. CASE W!Expire \/ \E e \in W!Events : W!Publish(e) \/ W!PublishFails(e)
          <3>1. W!clientVars' = W!clientVars
              BY <2>6 DEF W!Publish, W!PublishFails, W!Expire
          <3> QED
              BY <2>2, <3>1 DEF W!clientVars
      <2> QED
          BY <2>3, <2>4, <2>5, <2>6
  <1>4. stored' \in [W!Docs -> Orgs \cup {None}] /\ entry' \in [W!Docs -> Orgs \cup {None}]
      <2>1. CASE \E d \in W!Docs : W!Save(d)
          <3>1. PICK d \in W!Docs : W!Save(d)
              BY <2>1
          <3>2. Home[d] \in Orgs
              BY DEF W!WipesConstants
          <3> QED
              BY <3>1, <3>2 DEF W!Save, W!TypeOK
      <2>2. CASE \E d \in Layers : W!RemoveLayer(d)
          BY <2>2 DEF W!RemoveLayer, W!TypeOK
      <2>3. CASE UNCHANGED <<stored, entry>>
          BY <2>3 DEF W!TypeOK
      <2> QED
          BY <2>1, <2>2, <2>3
             DEF W!Admit, W!LoadLayer, W!UploadMapTile, W!UploadFails, W!DeleteWorkspace,
                 W!CreateWorkspace, W!Publish, W!PublishFails, W!Expire
  <1>5. /\ workspaces' \subseteq Orgs /\ saves' \subseteq W!Docs
        /\ outbox' \subseteq W!Events /\ wipeEvents' \subseteq W!Events
        /\ tiles' \subseteq Layers /\ uploads' \subseteq Layers /\ rules' \subseteq Layers
        /\ missed' \subseteq Layers /\ stray' \subseteq W!Docs /\ reused' \subseteq Orgs
      <2>1. CASE \E d \in W!Docs : W!Admit(d) \/ W!Save(d)
          BY <2>1 DEF W!Admit, W!Save, W!TypeOK, W!history
      <2>2. CASE \E d \in Layers : W!RemoveLayer(d) \/ W!LoadLayer(d) \/ W!UploadMapTile(d) \/ W!UploadFails(d)
          BY <2>2 DEF W!RemoveLayer, W!LoadLayer, W!UploadMapTile, W!UploadFails, W!TypeOK,
                      W!history, W!Events
      <2>3. CASE \E o \in Orgs : W!DeleteWorkspace(o) \/ W!CreateWorkspace(o)
          BY <2>3 DEF W!DeleteWorkspace, W!CreateWorkspace, W!TypeOK, W!history, W!Events
      <2>4. CASE \E e \in W!Events : W!Publish(e) \/ W!PublishFails(e)
          BY <2>4 DEF W!Publish, W!PublishFails, W!Of, W!TypeOK, W!history, W!clientVars
      <2>5. CASE W!Expire
          BY <2>5 DEF W!Expire, W!TypeOK, W!history, W!clientVars
      <2> QED
          BY <2>1, <2>2, <2>3, <2>4, <2>5
  <1> QED
      BY <1>1, <1>2, <1>3, <1>4, <1>5 DEF W!TypeOK, HandlerOK

LEMMA HandleType ==
    ASSUME W!WipesConstants, W!TypeOK, NEW e \in W!Events, W!Handle(e), ~W!Acknowledge(e)
    PROVE  W!TypeOK'
  <1> DEFINE H == handler[e]
             Going(to, ids, left) ==
                /\ W!Goes(e, H.step, to, ids, left)
                /\ to \in {"remove", "unindex"} => left # {}
                /\ e \in wipeEvents /\ wipeEvents' = wipeEvents
  <1>1. /\ H.step \in WipeStages /\ H.ids \in SUBSET Layers /\ H.left \in SUBSET W!Models
        /\ H.step # "none" => e \in wipeEvents
      BY DEF W!TypeOK, WipeStages
  <1>2. stored \in [W!Docs -> Orgs \cup {None}] /\ entry \in [W!Docs -> Orgs \cup {None}]
      BY DEF W!TypeOK
  <1>3. \E to \in WipeStages, ids \in SUBSET Layers, left \in SUBSET W!Models : Going(to, ids, left)
      <2>1. CASE W!Deliver(e)
          <3>1. CASE e \in Layers
              BY <2>1, <3>1 DEF W!Deliver, W!Goes, WipeStages
          <3>2. CASE e \notin Layers
              BY <2>1, <3>2, LeftOK DEF W!Deliver, W!Goes, WipeStages
          <3> QED
              BY <3>1, <3>2
      <2>2. CASE W!RemoveLayerMapTilesFromStream(e)
          <3>1. Going("policy", W!Of(e) \cap Layers, {})
              BY <1>1, <2>2, LeftOK DEF W!RemoveLayerMapTilesFromStream, W!Goes
          <3> HIDE DEF Going
          <3> QED
              BY <3>1 DEF WipeStages
      <2>9. CASE W!StreamFails(e)
          <3>1. Going("done", {}, {})
              BY <1>1, <2>9 DEF W!StreamFails, W!Goes
          <3> HIDE DEF Going
          <3> QED
              BY <3>1 DEF WipeStages
      <2>3. CASE W!RemoveLayerMapTiles(e) \/ W!PolicyFails(e)
          <3>1. W!Goes(e, "policy", W!AfterPolicy(e), H.ids, W!Left(W!AfterPolicy(e))) /\ wipeEvents' = wipeEvents
              BY <2>3 DEF W!RemoveLayerMapTiles, W!PolicyFails
          <3>2. W!AfterPolicy(e) \in {"done", "remove"}
              BY LeftOK
          <3>3. H.step = "policy" /\ H.ids \in SUBSET Layers
              BY <1>1, <3>1 DEF W!Goes
          <3>4. Going(W!AfterPolicy(e), H.ids, W!Left(W!AfterPolicy(e)))
              BY <1>1, <3>1, <3>2, <3>3, LeftOK
          <3> HIDE DEF Going
          <3> QED
              BY <3>2, <3>3, <3>4, LeftOK DEF WipeStages
      <2>4. ASSUME NEW m \in W!Models, W!RemoveByQuery(e, m)
             PROVE  \E to \in WipeStages, ids \in SUBSET Layers, left \in SUBSET W!Models : Going(to, ids, left)
          <3>1. /\ W!Goes(e, "remove", W!AfterModel(e, m, "unindex"), H.ids, W!StillLeft(e, m, "unindex"))
                /\ H.step = "remove" /\ m \in H.left /\ wipeEvents' = wipeEvents
              BY <2>4, LeftOK DEF W!RemoveByQuery
          <3>2. \/ H.left = {m} /\ W!AfterModel(e, m, "unindex") = "unindex"
                   /\ W!StillLeft(e, m, "unindex") = W!Left("unindex")
                \/ H.left # {m} /\ W!AfterModel(e, m, "unindex") = "remove"
                   /\ W!StillLeft(e, m, "unindex") = H.left \ {m}
              BY <3>1 DEF W!AfterModel, W!StillLeft
          <3> HIDE DEF H
          <3>3. /\ W!AfterModel(e, m, "unindex") \in {"remove", "unindex"}
                /\ W!StillLeft(e, m, "unindex") \in SUBSET W!Models
                /\ W!StillLeft(e, m, "unindex") # {}
              BY <1>1, <3>1, <3>2, LeftOK
          <3> QED
              BY <1>1, <3>1, <3>3 DEF WipeStages
      <2>5. ASSUME NEW m \in W!Models, W!RemoveFails(e, m)
             PROVE  \E to \in WipeStages, ids \in SUBSET Layers, left \in SUBSET W!Models : Going(to, ids, left)
          BY <1>1, <2>5 DEF W!RemoveFails, WipeStages
      <2>6. ASSUME NEW m \in W!Models, W!EsDeleteByQuery(e, m)
             PROVE  \E to \in WipeStages, ids \in SUBSET Layers, left \in SUBSET W!Models : Going(to, ids, left)
          <3>1. /\ W!Goes(e, "unindex", W!AfterModel(e, m, "done"), H.ids, W!StillLeft(e, m, "done"))
                /\ H.step = "unindex" /\ m \in H.left /\ wipeEvents' = wipeEvents
              BY <2>6 DEF W!EsDeleteByQuery
          <3>2. \/ H.left = {m} /\ W!AfterModel(e, m, "done") = "done"
                   /\ W!StillLeft(e, m, "done") = W!Left("done")
                \/ H.left # {m} /\ W!AfterModel(e, m, "done") = "unindex"
                   /\ W!StillLeft(e, m, "done") = H.left \ {m}
              BY <3>1 DEF W!AfterModel, W!StillLeft
          <3> HIDE DEF H
          <3>3. /\ W!AfterModel(e, m, "done") \in {"done", "unindex"}
                /\ W!StillLeft(e, m, "done") \in SUBSET W!Models
                /\ W!AfterModel(e, m, "done") = "unindex" => W!StillLeft(e, m, "done") # {}
              BY <1>1, <3>1, <3>2, LeftOK
          <3> QED
              BY <1>1, <3>1, <3>3 DEF WipeStages
      <2> HIDE DEF Going
      <2>8. \/ W!Deliver(e) \/ W!RemoveLayerMapTilesFromStream(e) \/ W!StreamFails(e)
            \/ W!RemoveLayerMapTiles(e) \/ W!PolicyFails(e)
            \/ \E m \in W!Models : W!RemoveByQuery(e, m) \/ W!RemoveFails(e, m) \/ W!EsDeleteByQuery(e, m)
          BY DEF W!Handle
      <2> QED
          BY <2>1, <2>2, <2>3, <2>4, <2>5, <2>6, <2>8, <2>9
  <1>4. /\ handler' \in [W!Events -> Handlings]
        /\ \A x \in W!Events : HandlerOK(x)'
        /\ outbox' \subseteq W!Events /\ wipeEvents' \subseteq W!Events /\ reused' \subseteq Orgs
        /\ workspaces' \subseteq Orgs /\ saves' \subseteq W!Docs /\ uploads' \subseteq Layers
        /\ wipeRequests' \in 0 .. MaxRequests /\ repeats' \in 0 .. MaxRepeats
      BY <1>3, GoesType
  <1>5. stored' \in [W!Docs -> Orgs \cup {None}] /\ entry' \in [W!Docs -> Orgs \cup {None}]
      BY <1>2 DEF W!Handle, W!Deliver, W!RemoveLayerMapTilesFromStream, W!StreamFails, W!RemoveLayerMapTiles,
                  W!PolicyFails, W!RemoveByQuery, W!RemoveFails, W!EsDeleteByQuery
  <1>6. /\ tiles' \subseteq Layers /\ rules' \subseteq Layers /\ missed' \subseteq Layers
        /\ stray' \subseteq W!Docs
      <2>1. CASE W!RemoveLayerMapTiles(e) \/ W!PolicyFails(e)
          BY <1>1, <2>1 DEF W!RemoveLayerMapTiles, W!PolicyFails, W!RulesOf, W!Awaited, W!TypeOK
      <2>2. CASE \E m \in W!Models : W!RemoveByQuery(e, m) \/ W!RemoveFails(e, m) \/ W!EsDeleteByQuery(e, m)
          BY <2>2 DEF W!RemoveByQuery, W!RemoveFails, W!EsDeleteByQuery, W!TypeOK
      <2>3. CASE W!Deliver(e) \/ W!RemoveLayerMapTilesFromStream(e) \/ W!StreamFails(e)
          BY <2>3 DEF W!Deliver, W!RemoveLayerMapTilesFromStream, W!StreamFails, W!TypeOK
      <2> QED
          BY <2>1, <2>2, <2>3 DEF W!Handle
  <1> QED
      BY <1>4, <1>5, <1>6 DEF W!TypeOK, HandlerOK, Handlings, WipeStages

\* An event that is acknowledged, or that will come back.
LEMMA ReturnType ==
    ASSUME W!WipesConstants, W!TypeOK, NEW e \in W!Events, W!Acknowledge(e) \/ W!Repeat(e)
    PROVE  W!TypeOK'
  <1>1. W!NoHandler \in Handlings /\ W!NoHandler.step = "none"
      BY DEF W!NoHandler, Handlings, WipeStages
  <1>2. handler \in [W!Events -> Handlings]
      BY DEF W!TypeOK, Handlings, WipeStages
  <1>3. /\ handler' \in [W!Events -> Handlings] /\ handler'[e] = W!NoHandler
        /\ \A x \in W!Events \ {e} : handler'[x] = handler[x]
      BY <1>1, <1>2 DEF W!Acknowledge, W!Repeat
  <1>4. wipeEvents \ {e} \subseteq wipeEvents' /\ wipeEvents' \subseteq wipeEvents
      BY DEF W!Acknowledge, W!Repeat
  <1>5. ASSUME NEW x \in W!Events PROVE HandlerOK(x)'
      <2>1. CASE x = e
          BY <1>1, <1>3, <2>1 DEF HandlerOK
      <2>2. CASE x # e
          <3>1. handler[x].step # "none" => x \in wipeEvents
              BY DEF W!TypeOK
          <3>2. handler[x].step \in {"remove", "unindex"} => handler[x].left # {}
              BY DEF W!TypeOK
          <3> QED
              BY <1>3, <1>4, <2>2, <3>1, <3>2 DEF HandlerOK
      <2> QED
          BY <2>1, <2>2
  <1>6. repeats' \in 0 .. MaxRepeats
      BY DEF W!WipesConstants, W!Acknowledge, W!Repeat, W!TypeOK
  <1>7. reused' \subseteq Orgs
      BY DEF W!Acknowledge, W!Repeat, W!TypeOK, W!history
  <1> QED
      BY <1>3, <1>4, <1>5, <1>6, <1>7
         DEF W!Acknowledge, W!Repeat, W!TypeOK, HandlerOK, Handlings, WipeStages, W!clientVars,
             W!history

LEMMA WipesStepType ==
    ASSUME W!WipesConstants, W!TypeOK, [W!Next]_(W!vars)
    PROVE  W!TypeOK'
  <1>1. CASE UNCHANGED W!vars
      BY <1>1 DEF W!TypeOK, W!vars, W!clientVars, W!history
  <1>2. CASE W!Next
      BY <1>2, ClientsType, HandleType, ReturnType DEF W!Next, W!Stop, W!DeliverTwice
  <1> QED
      BY <1>1, <1>2

\* Every variable has its type, and a handler of an event that is not
\* acknowledged has work left where it removes anything.
THEOREM WipesTypeCorrect ==
    ASSUME W!WipesConstants
    PROVE  W!Spec => []W!TypeOK
  <1>1. W!Init => W!TypeOK
      BY WipesInitType
  <1>2. W!TypeOK /\ [W!Next]_(W!vars) => W!TypeOK'
      BY WipesStepType
  <1> QED
      BY <1>1, <1>2, PTL DEF W!Spec

-----------------------------------------------------------------------------
(* Names.                                                                  *)

LEMMA WipesInitInv ==
    ASSUME W!WipesConstants, W!Init
    PROVE  WipesInv
  BY WipesInitType DEF WipesInv, W!Init, NamesAreFree

LEMMA WipesStepInv ==
    ASSUME W!WipesConstants, WipesInv, [W!Next]_(W!vars)
    PROVE  WipesInv'
  <1> SUFFICES NamesAreFree'
      BY WipesStepType DEF WipesInv
  <1>1. CASE \E o \in Orgs : W!DeleteWorkspace(o)
      BY <1>1 DEF W!DeleteWorkspace, WipesInv, NamesAreFree, W!history
  <1>2. CASE \E o \in Orgs : W!CreateWorkspace(o)
      BY <1>2 DEF W!CreateWorkspace, WipesInv, NamesAreFree
  <1>3. CASE \E d \in Layers : W!RemoveLayer(d)
      BY <1>3 DEF W!WipesConstants, W!RemoveLayer, WipesInv, NamesAreFree, W!history, W!Docs
  <1>4. CASE \E e \in W!Events : W!Publish(e) \/ W!PublishFails(e)
      BY <1>4 DEF W!Publish, W!PublishFails, WipesInv, NamesAreFree, W!clientVars, W!history
  <1>5. CASE \E e \in W!Events : W!Acknowledge(e)
      BY <1>5 DEF W!Acknowledge, WipesInv, NamesAreFree, W!clientVars
  <1>6. CASE UNCHANGED <<workspaces, outbox, wipeEvents, reused>>
      BY <1>6 DEF WipesInv, NamesAreFree
  <1>7. ASSUME NEW e \in W!Events, W!Handle(e), ~W!Acknowledge(e)
        PROVE  UNCHANGED <<workspaces, outbox, wipeEvents, reused>>
      <2>1. \E from, to, ids, left : W!Goes(e, from, to, ids, left)
          BY <1>7 DEF W!Handle, W!Deliver, W!RemoveLayerMapTilesFromStream, W!StreamFails, W!RemoveLayerMapTiles,
                      W!PolicyFails, W!RemoveByQuery, W!RemoveFails, W!EsDeleteByQuery
      <2>2. wipeEvents' = wipeEvents
          BY <1>7 DEF W!Handle, W!Deliver, W!RemoveLayerMapTilesFromStream, W!StreamFails, W!RemoveLayerMapTiles,
                      W!PolicyFails, W!RemoveByQuery, W!RemoveFails, W!EsDeleteByQuery
      <2> QED
          BY <2>1, <2>2 DEF W!Goes, W!clientVars
  <1> QED
      BY <1>1, <1>2, <1>3, <1>4, <1>5, <1>6, <1>7
         DEF W!Next, W!Admit, W!Save, W!LoadLayer, W!UploadMapTile, W!UploadFails, W!Stop, W!DeliverTwice,
             W!Repeat, W!Expire, W!clientVars, W!history, W!vars

\* However late or often events are delivered, and after a success too, a wipe removes no
\* document of a workspace that exists, but for names taken again too early.
THEOREM ExistingAreKept ==
    ASSUME W!WipesConstants
    PROVE  W!Spec => W!ExistingWorkspacesAreKept
  <1>1. WipesInv /\ [W!Next]_(W!vars)
           => [\A e \in W!Events, m \in W!Models :
                  W!RemoveByQuery(e, m) \/ W!RemoveFails(e, m) =>
                     \A d \in W!Docs : stored[d] \in workspaces \ reused => stored'[d] = stored[d]]_(W!vars)
      <2> SUFFICES ASSUME WipesInv, NEW e \in W!Events, NEW m \in W!Models,
                          W!RemoveByQuery(e, m) \/ W!RemoveFails(e, m),
                          NEW d \in W!Docs, stored[d] \in workspaces \ reused
                   PROVE  stored'[d] = stored[d]
          OBVIOUS
      <2>1. handler[e].step = "remove" /\ e \in wipeEvents
          BY DEF W!RemoveByQuery, W!RemoveFails, WipesInv, W!TypeOK
      <2>2. stored[d] # e
          BY <2>1 DEF WipesInv, NamesAreFree, W!TypeOK
      <2> QED
          BY <2>2 DEF W!RemoveByQuery, W!RemoveFails, W!Matching
  <1>2. W!Init => WipesInv
      BY WipesInitInv
  <1>3. WipesInv /\ [W!Next]_(W!vars) => WipesInv'
      BY WipesStepInv
  <1> QED
      BY <1>1, <1>2, <1>3, PTL DEF W!Spec, W!ExistingWorkspacesAreKept

-----------------------------------------------------------------------------
(* What is left of a workspace, and who will remove it.                    *)

LEMMA GoesOn ==
    ASSUME W!TypeOK, NEW e \in W!Events, NEW from, NEW to, NEW ids, NEW left,
           W!Goes(e, from, to, ids, left)
    PROVE  /\ handler[e].step = from
           /\ handler'[e].step = to /\ handler'[e].ids = ids /\ handler'[e].left = left
           /\ \A x \in W!Events \ {e} : handler'[x] = handler[x]
           /\ UNCHANGED <<outbox, workspaces, uploads>>
  BY DEF W!Goes, W!TypeOK, W!clientVars

LEMMA Returned ==
    ASSUME W!TypeOK, NEW e \in W!Events, W!Acknowledge(e)
    PROVE  /\ handler[e].step = "done" /\ handler'[e].step = "none"
           /\ \A x \in W!Events \ {e} : handler'[x] = handler[x]
           /\ wipeEvents' = wipeEvents \ {e}
           /\ UNCHANGED <<outbox, workspaces, uploads, stored, entry, tiles, rules, missed, stray>>
  BY DEF W!Acknowledge, W!TypeOK, W!NoHandler, W!clientVars

\* The steps at which a handler of the event of a workspace has yet to remove a
\* document, and its entry.
RemovesLater(d, o) ==
    \/ o \in wipeEvents /\ handler[o].step \in {"none", "layers", "policy"}
    \/ handler[o].step = "remove" /\ W!ModelOf(d) \in handler[o].left

UnindexesLater(d, o) ==
    \/ o \in wipeEvents /\ handler[o].step \in {"none", "layers", "policy", "remove"}
    \/ handler[o].step = "unindex" /\ W!ModelOf(d) \in handler[o].left

DocumentsAwaited ==
    \A d \in W!Docs : stored[d] \in Orgs \ workspaces =>
        d \in stray \/ stored[d] \in outbox \/ RemovesLater(d, stored[d])

EntriesAwaited ==
    \A d \in W!Docs : entry[d] \in Orgs \ workspaces =>
        d \in stray \/ entry[d] \in outbox \/ UnindexesLater(d, entry[d])

\* An entry without its document is not left to an event still to be published.
LoneEntriesAwaited ==
    \A d \in W!Docs : entry[d] # None /\ stored[d] # entry[d] =>
        d \in stray \/ UnindexesLater(d, entry[d])

RemainsAwaited == DocumentsAwaited /\ EntriesAwaited /\ LoneEntriesAwaited

LEMMA RemainsInit ==
    ASSUME W!WipesConstants, W!Init
    PROVE  RemainsAwaited
  BY DEF W!Init, W!WipesConstants, RemainsAwaited, DocumentsAwaited, EntriesAwaited,
         LoneEntriesAwaited

\* Requests, and what becomes of their events.
LEMMA RemainsClients ==
    ASSUME W!WipesConstants, W!TypeOK, RemainsAwaited,
           \/ \E d \in W!Docs : W!Admit(d) \/ W!Save(d)
           \/ \E d \in Layers : W!RemoveLayer(d) \/ W!LoadLayer(d) \/ W!UploadMapTile(d) \/ W!UploadFails(d)
           \/ \E o \in Orgs : W!DeleteWorkspace(o) \/ W!CreateWorkspace(o)
           \/ \E e \in W!Events : W!Publish(e) \/ W!PublishFails(e) \/ W!Stop(e) \/ W!DeliverTwice(e)
           \/ W!Expire
    PROVE  RemainsAwaited'
  <1> USE DEF RemainsAwaited, DocumentsAwaited, EntriesAwaited, LoneEntriesAwaited, RemovesLater,
              UnindexesLater
  <1>0. /\ \A d \in W!Docs : stored[d] \in Orgs \cup {None} /\ entry[d] \in Orgs \cup {None}
        /\ Orgs \subseteq W!Events /\ None \notin Orgs
      BY DEF W!TypeOK, W!Events, W!WipesConstants
  <1>1. ASSUME NEW c \in W!Docs, W!Save(c) PROVE RemainsAwaited'
      <2>1. /\ \A d \in W!Docs \ {c} : UNCHANGED <<stored[d], entry[d]>>
            /\ stored'[c] = Home[c] /\ entry'[c] = Home[c]
            /\ UNCHANGED <<workspaces, outbox, wipeEvents, handler>>
            /\ \A d \in W!Docs \ {c} : d \in stray => d \in stray'
            /\ Home[c] \in workspaces \/ W!WillBeWiped(Home[c]) \/ c \in stray'
          BY <1>1 DEF W!Save, W!TypeOK
      <2> QED
          BY <1>0, <2>1 DEF W!WillBeWiped
  <1>2. ASSUME NEW c \in Layers, W!RemoveLayer(c) PROVE RemainsAwaited'
      <2>1. /\ \A d \in W!Docs \ {c} : UNCHANGED <<stored[d], entry[d]>>
            /\ stored'[c] = None /\ entry'[c] = None /\ outbox \subseteq outbox'
            /\ UNCHANGED <<workspaces, wipeEvents, handler, stray>>
          BY <1>2 DEF W!RemoveLayer, W!TypeOK, W!history, W!Docs
      <2> QED
          BY <1>0, <2>1
  <1>3. ASSUME NEW o \in Orgs, W!DeleteWorkspace(o) PROVE RemainsAwaited'
      BY <1>0, <1>3 DEF W!DeleteWorkspace, W!history
  <1>4. ASSUME NEW o \in Orgs, W!CreateWorkspace(o) PROVE RemainsAwaited'
      BY <1>0, <1>4 DEF W!CreateWorkspace
  <1>5. ASSUME NEW e \in W!Events, W!Publish(e) PROVE RemainsAwaited'
      <2>1. /\ handler[e].step = "none" /\ wipeEvents' = wipeEvents \cup {e} /\ outbox' = outbox \ {e}
            /\ UNCHANGED <<stored, entry, workspaces, handler, stray>>
          BY <1>5 DEF W!Publish, W!TypeOK, W!clientVars, W!history
      <2> QED
          BY <1>0, <2>1
  <1>6. ASSUME NEW e \in W!Events, W!PublishFails(e) PROVE RemainsAwaited'
      <2>1. /\ outbox' = outbox \ {e} /\ stray \subseteq stray'
            /\ UNCHANGED <<stored, entry, workspaces, handler, wipeEvents>>
            /\ \A d \in W!Docs : stored[d] = e /\ e \in Orgs => d \in stray'
          BY <1>6 DEF W!PublishFails, W!Of, W!clientVars
      <2> QED
          BY <1>0, <2>1
  <1>7. ASSUME NEW e \in W!Events, W!Stop(e) \/ W!DeliverTwice(e) PROVE RemainsAwaited'
      <2>1. /\ e \in wipeEvents /\ handler'[e].step = "none"
            /\ \A x \in W!Events \ {e} : handler'[x] = handler[x]
            /\ UNCHANGED <<stored, entry, workspaces, outbox, wipeEvents, stray>>
          BY <1>7 DEF W!Stop, W!DeliverTwice, W!Repeat, W!TypeOK, W!NoHandler, W!clientVars, W!history
      <2> QED
          BY <1>0, <2>1
  <1>8. CASE UNCHANGED <<stored, entry, workspaces, outbox, wipeEvents, handler, stray>>
      BY <1>8
  <1> QED
      BY <1>1, <1>2, <1>3, <1>4, <1>5, <1>6, <1>7, <1>8
         DEF W!Admit, W!LoadLayer, W!UploadMapTile, W!UploadFails, W!Expire, W!history,
             W!clientVars

\* A handler goes on: what it has yet to remove, it still has, or has removed.
LEMMA RemainsHandle ==
    ASSUME W!WipesConstants, W!TypeOK, RemainsAwaited, NEW e \in W!Events, W!Handle(e)
    PROVE  RemainsAwaited'
  <1> DEFINE H == handler[e]
  <1>1. /\ \A d \in W!Docs : stored[d] \in Orgs \cup {None} /\ entry[d] \in Orgs \cup {None}
        /\ Orgs \subseteq W!Events /\ None \notin Orgs
        /\ \A o \in Orgs : o \notin Layers
        /\ H.step # "none" => e \in wipeEvents
        /\ \A d \in W!Docs : W!ModelOf(d) \in W!Models
        /\ W!Left("remove") = W!Models /\ W!Left("unindex") = W!Models
      BY DEF W!TypeOK, W!Events, W!WipesConstants, W!Docs, W!Models, W!Left
  <1>2. /\ UNCHANGED <<workspaces, outbox>> /\ stray \subseteq stray'
        /\ wipeEvents \ {e} \subseteq wipeEvents'
        /\ \A x \in W!Events \ {e} : handler'[x] = handler[x]
        /\ \A d \in W!Docs : stored'[d] \in {stored[d], None} /\ entry'[d] \in {entry[d], None}
      <2>1. CASE W!Acknowledge(e)
          BY <2>1, Returned
      <2>2. CASE ~W!Acknowledge(e)
          <3>1. \E from, to, ids, left : W!Goes(e, from, to, ids, left)
              BY <2>2 DEF W!Handle, W!Deliver, W!RemoveLayerMapTilesFromStream, W!StreamFails,
                 W!RemoveLayerMapTiles, W!PolicyFails, W!RemoveByQuery, W!RemoveFails, W!EsDeleteByQuery
          <3>2. stray \subseteq stray' /\ wipeEvents \ {e} \subseteq wipeEvents'
              BY <2>2 DEF W!Handle, W!Deliver, W!RemoveLayerMapTilesFromStream, W!StreamFails,
                 W!RemoveLayerMapTiles, W!PolicyFails, W!RemoveByQuery, W!RemoveFails, W!EsDeleteByQuery
          <3>3. \A d \in W!Docs : stored'[d] \in {stored[d], None} /\ entry'[d] \in {entry[d], None}
              BY <2>2 DEF W!Handle, W!Deliver, W!RemoveLayerMapTilesFromStream, W!StreamFails,
                 W!RemoveLayerMapTiles, W!PolicyFails, W!RemoveByQuery, W!RemoveFails, W!EsDeleteByQuery
          <3> QED
              BY <3>1, <3>2, <3>3, GoesOn
      <2> QED
          BY <2>1, <2>2
  \* Only the documents and entries of its own workspace are in question.
  <1>3. ASSUME \A d \in W!Docs :
                  /\ stored'[d] = e /\ e \in Orgs \ workspaces =>
                        d \in stray' \/ e \in outbox \/ RemovesLater(d, e)'
                  /\ entry'[d] = e /\ e \in Orgs \ workspaces =>
                        d \in stray' \/ e \in outbox \/ UnindexesLater(d, e)'
                  /\ entry'[d] = e /\ e \in Orgs /\ stored'[d] # e =>
                        d \in stray' \/ UnindexesLater(d, e)'
                  /\ entry'[d] = entry[d] /\ entry[d] \notin {None, e} /\ stored'[d] # stored[d] =>
                        stored[d] = e
        PROVE  RemainsAwaited'
      <2>1. \A d, o : o \in Orgs \ {e} =>
               /\ RemovesLater(d, o) => RemovesLater(d, o)'
               /\ UnindexesLater(d, o) => UnindexesLater(d, o)'
          BY <1>1, <1>2 DEF RemovesLater, UnindexesLater
      <2>2. DocumentsAwaited'
          BY <1>1, <1>2, <1>3, <2>1 DEF RemainsAwaited, DocumentsAwaited
      <2>3. EntriesAwaited'
          BY <1>1, <1>2, <1>3, <2>1 DEF RemainsAwaited, EntriesAwaited
      <2>4. LoneEntriesAwaited'
          BY <1>1, <1>2, <1>3, <2>1 DEF RemainsAwaited, LoneEntriesAwaited
      <2> QED
          BY <2>2, <2>3, <2>4 DEF RemainsAwaited
  <1>4. CASE \/ W!Deliver(e) \/ W!RemoveLayerMapTilesFromStream(e)
             \/ W!RemoveLayerMapTiles(e) \/ W!PolicyFails(e)
      <2>1. /\ e \in Orgs => \/ handler'[e].step \in {"layers", "policy"}
                             \/ handler'[e].step = "remove" /\ handler'[e].left = W!Models
            /\ e \in Orgs => e \in wipeEvents'
            /\ UNCHANGED <<stored, entry>>
          BY <1>1, <1>4, GoesOn, LeftOK
             DEF W!Deliver, W!RemoveLayerMapTilesFromStream, W!StreamFails, W!RemoveLayerMapTiles, W!PolicyFails,
                 W!AfterPolicy
      <2> QED
          BY <1>1, <1>3, <2>1 DEF RemovesLater, UnindexesLater
  <1>5. ASSUME NEW m \in W!Models, W!RemoveByQuery(e, m) PROVE RemainsAwaited'
      <2>1. /\ H.step = "remove" /\ m \in H.left /\ e \in wipeEvents' /\ entry' = entry
            /\ IF H.left = {m} THEN handler'[e].step = "unindex" /\ handler'[e].left = W!Models
               ELSE handler'[e].step = "remove" /\ handler'[e].left = H.left \ {m}
            /\ \A d \in W!Docs : stored'[d] = IF W!ModelOf(d) = m /\ stored[d] = e THEN None ELSE stored[d]
          BY <1>1, <1>5, GoesOn, LeftOK DEF W!RemoveByQuery, W!Matching, W!AfterModel, W!StillLeft
      <2> QED
          BY <1>1, <1>2, <1>3, <2>1
             DEF RemovesLater, UnindexesLater, RemainsAwaited, DocumentsAwaited
  <1>6. ASSUME NEW m \in W!Models, W!RemoveFails(e, m) PROVE RemainsAwaited'
      <2>1. /\ entry' = entry
            /\ \A d \in W!Docs : stored[d] = e \/ entry[d] = e => d \in stray'
            /\ \A d \in W!Docs : stored'[d] # stored[d] => stored[d] = e
          BY <1>6 DEF W!RemoveFails
      <2> QED
          BY <1>1, <1>2, <1>3, <2>1
  <1>7. ASSUME NEW m \in W!Models, W!EsDeleteByQuery(e, m) PROVE RemainsAwaited'
      <2>1. /\ H.step = "unindex" /\ m \in H.left /\ e \in wipeEvents' /\ stored' = stored
            /\ H.left # {m} => handler'[e].step = "unindex" /\ handler'[e].left = H.left \ {m}
            /\ \A d \in W!Docs : W!ModelOf(d) = m /\ entry[d] = e => entry'[d] = None \/ d \in stray'
          BY <1>1, <1>7, GoesOn DEF W!EsDeleteByQuery, W!AfterModel, W!StillLeft
      <2> QED
          BY <1>1, <1>2, <1>3, <2>1
             DEF RemovesLater, UnindexesLater, RemainsAwaited, DocumentsAwaited, EntriesAwaited,
                 LoneEntriesAwaited
  <1>9. CASE W!StreamFails(e)
      <2>1. /\ UNCHANGED <<stored, entry>>
            /\ \A d \in W!Docs : stored[d] = e \/ entry[d] = e => d \in stray'
          BY <1>9 DEF W!StreamFails
      <2> QED
          BY <1>1, <1>2, <1>3, <2>1
  <1>8. CASE W!Acknowledge(e)
      <2>1. H.step = "done" /\ UNCHANGED <<stored, entry>>
          BY <1>8, Returned
      <2> QED
          BY <1>1, <1>2, <1>3, <2>1
             DEF RemovesLater, UnindexesLater, RemainsAwaited, DocumentsAwaited, EntriesAwaited,
                 LoneEntriesAwaited
  <1> QED
      BY <1>4, <1>5, <1>6, <1>7, <1>8, <1>9 DEF W!Handle

\* What is stored or indexed of a workspace that is gone, an event or its handler
\* has yet to remove, unless it is known to be stray.
THEOREM NothingIsForgotten ==
    ASSUME W!WipesConstants
    PROVE  W!Spec => [](DocumentsAwaited /\ EntriesAwaited)
  <1>1. W!Init => W!TypeOK /\ RemainsAwaited
      BY WipesInitType, RemainsInit
  <1>2. W!TypeOK /\ RemainsAwaited /\ [W!Next]_(W!vars) => (W!TypeOK /\ RemainsAwaited)'
      <2> SUFFICES ASSUME W!TypeOK, RemainsAwaited, [W!Next]_(W!vars) PROVE RemainsAwaited'
          BY WipesStepType
      <2>1. CASE UNCHANGED W!vars
          BY <2>1 DEF W!vars, W!clientVars, W!history, RemainsAwaited, DocumentsAwaited, EntriesAwaited,
                      LoneEntriesAwaited, RemovesLater, UnindexesLater
      <2>2. CASE W!Next
          BY <2>2, RemainsClients, RemainsHandle DEF W!Next
      <2> QED
          BY <2>1, <2>2
  <1>3. RemainsAwaited => DocumentsAwaited /\ EntriesAwaited
      BY DEF RemainsAwaited
  <1> QED
      BY <1>1, <1>2, <1>3, PTL DEF W!Spec

-----------------------------------------------------------------------------
(* Tiles.                                                                  *)

\* The tiles of a removed layer are named by a rule, or will be.
TilesAwaited ==
    \A d \in Layers : stored[d] = None /\ d \in tiles \cup uploads =>
        \/ d \in missed \cup rules \cup outbox
        \/ d \in wipeEvents /\ handler[d].step \in {"none", "policy"}

\* Before a handler removes a layer, the handler has seen it, or there is a rule for it.
LayersSeen ==
    \A o \in Orgs, d \in Layers :
        stored[d] = o /\ handler[o].step \in {"policy", "remove"} =>
            \/ handler[o].step = "policy" /\ d \in handler[o].ids
            \/ d \in missed \cup rules

\* The event of a layer is about that layer, and removes nothing.
OwnLayer ==
    \A d \in Layers : \/ handler[d].step \in {"none", "done"}
                      \/ handler[d].step = "policy" /\ handler[d].ids = {d}

RulesAwaited == TilesAwaited /\ LayersSeen /\ OwnLayer

LEMMA RulesInit ==
    ASSUME W!WipesConstants, W!Init
    PROVE  RulesAwaited
  <1>1. \A e \in W!Events : handler[e].step = "none"
      BY DEF W!Init, W!Events, W!NoHandler
  <1>2. \A d \in tiles \cup uploads : stored[d] # None
      BY DEF W!Init
  <1> QED
      BY <1>1, <1>2 DEF W!Events, RulesAwaited, TilesAwaited, LayersSeen, OwnLayer

\* Requests, what becomes of their events, and the bucket.
LEMMA RulesClients ==
    ASSUME W!WipesConstants, W!TypeOK, RulesAwaited,
           \/ \E d \in W!Docs : W!Admit(d) \/ W!Save(d)
           \/ \E d \in Layers : W!RemoveLayer(d) \/ W!LoadLayer(d) \/ W!UploadMapTile(d) \/ W!UploadFails(d)
           \/ \E o \in Orgs : W!DeleteWorkspace(o) \/ W!CreateWorkspace(o)
           \/ \E e \in W!Events : W!Publish(e) \/ W!PublishFails(e) \/ W!Stop(e) \/ W!DeliverTwice(e)
           \/ W!Expire
    PROVE  RulesAwaited'
  <1> USE DEF RulesAwaited, TilesAwaited, LayersSeen, OwnLayer
  <1>0. /\ Layers \subseteq W!Docs /\ Layers \subseteq W!Events /\ Orgs \subseteq W!Events
        /\ None \notin Orgs /\ \A o \in Orgs : o \notin Layers
      BY DEF W!Events, W!WipesConstants, W!Docs
  <1>1. ASSUME NEW c \in W!Docs, W!Save(c) PROVE RulesAwaited'
      <2>1. /\ \A d \in Layers : d # c => stored'[d] = stored[d]
            /\ c \in Layers => stored'[c] = Home[c] /\ stored'[c] # None
            /\ UNCHANGED <<outbox, wipeEvents, handler, tiles, uploads, rules>>
            /\ missed \subseteq missed'
            /\ c \in Layers /\ handler[Home[c]].step \in {"policy", "remove"} => c \in missed'
          BY <1>0, <1>1 DEF W!Save, W!TypeOK, W!WipesConstants
      <2> QED
          BY <1>0, <2>1
  <1>2. ASSUME NEW c \in Layers, W!RemoveLayer(c) PROVE RulesAwaited'
      <2>1. /\ \A d \in Layers : d # c => stored'[d] = stored[d]
            /\ stored'[c] = None /\ outbox' = outbox \cup {c}
            /\ UNCHANGED <<wipeEvents, handler, tiles, uploads, rules, missed>>
          BY <1>0, <1>2 DEF W!RemoveLayer, W!TypeOK, W!history
      <2> QED
          BY <1>0, <2>1
  <1>3. ASSUME NEW e \in W!Events, W!Publish(e) PROVE RulesAwaited'
      <2>1. /\ handler[e].step = "none" /\ wipeEvents' = wipeEvents \cup {e} /\ outbox' = outbox \ {e}
            /\ UNCHANGED <<stored, handler, tiles, uploads, rules, missed>>
          BY <1>3 DEF W!Publish, W!TypeOK, W!clientVars, W!history
      <2> QED
          BY <1>0, <2>1
  <1>4. ASSUME NEW e \in W!Events, W!PublishFails(e) PROVE RulesAwaited'
      <2>1. /\ outbox' = outbox \ {e} /\ missed' = missed \cup ({e} \cap Layers)
            /\ UNCHANGED <<stored, handler, wipeEvents, tiles, uploads, rules>>
          BY <1>4 DEF W!PublishFails, W!clientVars
      <2> QED
          BY <1>0, <2>1
  <1>5. ASSUME NEW e \in W!Events, W!Stop(e) \/ W!DeliverTwice(e) PROVE RulesAwaited'
      <2>1. /\ e \in wipeEvents /\ handler'[e].step = "none"
            /\ \A x \in W!Events \ {e} : handler'[x] = handler[x]
            /\ UNCHANGED <<stored, outbox, wipeEvents, tiles, uploads, rules, missed>>
          BY <1>5 DEF W!Stop, W!DeliverTwice, W!Repeat, W!TypeOK, W!NoHandler, W!clientVars, W!history
      <2> QED
          BY <1>0, <2>1
  <1>6. CASE \E d \in Layers : W!LoadLayer(d) \/ W!UploadMapTile(d) \/ W!UploadFails(d)
      <2>1. /\ \A d \in (tiles \cup uploads)' : d \in tiles \cup uploads \/ stored[d] # None
            /\ UNCHANGED <<stored, outbox, wipeEvents, handler, rules, missed>>
          BY <1>6 DEF W!LoadLayer, W!UploadMapTile, W!UploadFails, W!history
      <2> QED
          BY <2>1
  <1>7. CASE W!Expire
      BY <1>7 DEF W!Expire, W!clientVars, W!history
  <1>8. CASE UNCHANGED <<stored, outbox, wipeEvents, handler, tiles, uploads, rules, missed>>
      BY <1>8
  <1>9. ASSUME NEW o \in Orgs, W!DeleteWorkspace(o) PROVE RulesAwaited'
      BY <1>9 DEF W!DeleteWorkspace, W!history
  <1> QED
      BY <1>1, <1>2, <1>3, <1>4, <1>5, <1>6, <1>7, <1>8, <1>9
         DEF W!Admit, W!CreateWorkspace, W!history

LEMMA RulesHandle ==
    ASSUME W!WipesConstants, W!TypeOK, RulesAwaited, NEW e \in W!Events, W!Handle(e)
    PROVE  RulesAwaited'
  <1> USE DEF RulesAwaited, TilesAwaited, LayersSeen, OwnLayer
  <1> DEFINE H == handler[e]
  <1>0. /\ Layers \subseteq W!Docs /\ Layers \subseteq W!Events /\ Orgs \subseteq W!Events
        /\ None \notin Orgs /\ \A o \in Orgs : o \notin Layers
        /\ \A d \in W!Docs : stored[d] \in Orgs \cup {None}
        /\ H.step # "none" => e \in wipeEvents
      BY DEF W!Events, W!WipesConstants, W!Docs, W!TypeOK
  <1>1. /\ \A x \in W!Events \ {e} : handler'[x] = handler[x]
        /\ UNCHANGED <<outbox, uploads, tiles>>
      <2>1. CASE W!Acknowledge(e)
          BY <2>1, Returned
      <2>2. CASE ~W!Acknowledge(e)
          BY <2>2, GoesOn
             DEF W!Handle, W!Deliver, W!RemoveLayerMapTilesFromStream, W!StreamFails,
                 W!RemoveLayerMapTiles, W!PolicyFails, W!RemoveByQuery, W!RemoveFails, W!EsDeleteByQuery
      <2> QED
          BY <2>1, <2>2
  <1>2. CASE W!Deliver(e)
      <2>1. /\ UNCHANGED <<stored, wipeEvents, rules, missed>> /\ e \in wipeEvents
            /\ e \in Layers => handler'[e].step = "policy" /\ handler'[e].ids = {e}
            /\ e \notin Layers => handler'[e].step = "layers"
          BY <1>2, GoesOn, LeftOK DEF W!Deliver
      <2> QED
          BY <1>0, <1>1, <2>1
  <1>3. CASE W!RemoveLayerMapTilesFromStream(e)
      <2>1. UNCHANGED <<stored, wipeEvents, rules, missed>> /\ H.step = "layers"
            /\ handler'[e].step = "policy" /\ handler'[e].ids = W!Of(e) \cap Layers
          BY <1>3, GoesOn, LeftOK DEF W!RemoveLayerMapTilesFromStream
      <2>2. e \in Orgs => \A d \in Layers : stored[d] = e => d \in handler'[e].ids
          BY <1>0, <2>1 DEF W!Of
      <2> QED
          BY <1>0, <1>1, <2>1, <2>2
  <1>4. CASE W!RemoveLayerMapTiles(e) \/ W!PolicyFails(e)
      <2>1. /\ H.step = "policy" /\ handler'[e].step \in {"done", "remove"}
            /\ e \in Layers => handler'[e].step = "done"
            /\ UNCHANGED <<stored, wipeEvents>>
          BY <1>4, GoesOn, LeftOK DEF W!RemoveLayerMapTiles, W!PolicyFails, W!AfterPolicy
      <2>2. /\ H.ids \subseteq missed' \cup rules'
            /\ missed \subseteq missed' \cup rules'
            /\ rules \subseteq W!Awaited => rules \subseteq missed' \cup rules'
            /\ W!Awaited \subseteq missed' \cup rules'
          BY <1>4 DEF W!RemoveLayerMapTiles, W!PolicyFails, W!RulesOf, W!Awaited
      <2>3. ASSUME NEW d \in rules,
                   \/ stored[d] = None /\ d \in tiles \cup uploads
                   \/ \E o \in Orgs : stored[d] = o /\ handler[o].step \in {"policy", "remove"}
            PROVE  d \in missed' \cup rules'
          BY <2>2, <2>3 DEF W!Awaited
      <2>4. TilesAwaited'
          BY <1>0, <1>1, <2>1, <2>2, <2>3
      <2>5. LayersSeen'
          BY <1>0, <1>1, <2>1, <2>2, <2>3
      <2> QED
          BY <1>0, <1>1, <2>1, <2>4, <2>5
  <1>5. CASE \E m \in W!Models : W!RemoveByQuery(e, m) \/ W!RemoveFails(e, m)
      <2>1. /\ H.step = "remove" /\ handler'[e].step \in {"remove", "unindex", "done"}
            /\ UNCHANGED <<wipeEvents, rules, missed>>
            /\ \A d \in Layers : stored'[d] = stored[d] \/ stored[d] = e
            /\ \A d \in Layers : stored'[d] \in {stored[d], None}
          BY <1>0, <1>5, GoesOn, LeftOK
             DEF W!RemoveByQuery, W!RemoveFails, W!Matching, W!AfterModel
      <2> QED
          BY <1>0, <1>1, <2>1
  <1>6. CASE \/ \E m \in W!Models : W!EsDeleteByQuery(e, m)
             \/ W!StreamFails(e) \/ W!Acknowledge(e)
      <2>1. /\ H.step \in {"layers", "unindex", "done"} /\ handler'[e].step \in {"unindex", "done", "none"}
            /\ H.step = "done" => handler'[e].step = "none"
            /\ UNCHANGED <<stored, rules, missed>> /\ wipeEvents \ {e} \subseteq wipeEvents'
          BY <1>6, GoesOn, Returned DEF W!EsDeleteByQuery, W!StreamFails, W!AfterModel
      <2> QED
          BY <1>0, <1>1, <2>1
  <1> QED
      BY <1>2, <1>3, <1>4, <1>5, <1>6 DEF W!Handle

\* In whatever order events are handled, rules replaced and tiles uploaded, the tiles
\* of a removed layer are named by a rule or will be, unless that was missed.
THEOREM TilesAreNotForgotten ==
    ASSUME W!WipesConstants
    PROVE  W!Spec => []TilesAwaited
  <1>1. W!Init => W!TypeOK /\ RulesAwaited
      BY WipesInitType, RulesInit
  <1>2. W!TypeOK /\ RulesAwaited /\ [W!Next]_(W!vars) => (W!TypeOK /\ RulesAwaited)'
      <2> SUFFICES ASSUME W!TypeOK, RulesAwaited, [W!Next]_(W!vars) PROVE RulesAwaited'
          BY WipesStepType
      <2>1. CASE UNCHANGED W!vars
          BY <2>1 DEF W!vars, W!clientVars, W!history, RulesAwaited, TilesAwaited, LayersSeen,
                      OwnLayer
      <2>2. CASE W!Next
          BY <2>2, RulesClients, RulesHandle DEF W!Next
      <2> QED
          BY <2>1, <2>2
  <1>3. RulesAwaited => TilesAwaited
      BY DEF RulesAwaited
  <1> QED
      BY <1>1, <1>2, <1>3, PTL DEF W!Spec
=============================================================================
