----------------------------- MODULE Memberships -----------------------------
(***************************************************************************)
(* The members of a workspace, read through the cache.                     *)
(*                                                                         *)
(* The authorization service keeps a workspace as a primary group with     *)
(* nested groups, one for each role.  Reads go through Redis: look the key *)
(* up, ask the service on a miss, store the answer.  Writes go to the      *)
(* service and then remove the keys they make stale.  The handlers that    *)
(* change members decide on what they read this way: a member leaves or    *)
(* deletes the account, an administrator assigns the groups of a user or   *)
(* removes it, and the list of owners is replaced.  Every call is an       *)
(* await, any number of handlers interleave, and each call may fail.       *)
(***************************************************************************)
EXTENDS Naturals, FiniteSets

CONSTANTS
    Users,    \* user ids
    Groups,   \* the nested groups of the workspace, but for PUBLIC
    Owner,    \* the one for owners
    Admin,    \* the one for administrators
    Primary,  \* the primary group
    Calls,    \* handlers that may be under way at once
    Bound,    \* the requests of a behaviour
    None      \* a key that is not cached; no user

ASSUME MembershipAssumption ==
    /\ {Owner, Admin} \subseteq Groups /\ Owner # Admin
    /\ Primary \notin Users /\ Bound \in Nat
    /\ None \notin Users
    /\ \A G \in SUBSET Groups : None # G
    /\ \A m \in [Groups -> SUBSET Users] : None # m

VARIABLES
    members,    \* the members of each nested group
    cache,      \* the keys in Redis
    pc,         \* where each handler is
    request,    \* its request
    step,       \* what it reads, and why
    fetched,    \* what the service answered, to be cached
    mine,       \* the groups of the user who leaves, as it was read
    byOwner,    \* an owner makes the request, as it was read
    tasks,      \* the changes of groups it still has to make
    drops,      \* the keys it still has to remove from the cache
    disturbed,  \* history: the cache may hold what an overlap or a failure left
    late,       \* history: handlers with an answer from before a change of it
    raced,      \* history: keys that such an answer may have been stored for, or
                \* that a failure left in the cache
    owned,      \* history: the users that have been owners
    asked       \* history: the number of requests so far

cacheVars == <<members, cache>>
readVars == <<step, fetched, mine, byOwner>>
writeVars == <<tasks, drops>>
vars == <<cacheVars, pc, request, readVars, writeVars, disturbed, late, raced,
          owned, asked>>

-----------------------------------------------------------------------------

\* The keys of the nested groups, and of the groups of each user, and what
\* the service answers for each.
Keys == {Primary} \cup Users
GroupsOf(u) == {g \in Groups : u \in members[g]}
Answer(k) == IF k = Primary THEN members ELSE GroupsOf(k)
Answers(k) == IF k = Primary THEN [Groups -> SUBSET Users] ELSE SUBSET Groups

Ops == {"read", "leave", "delete", "update", "remove", "owners"}
Requests == [op : Ops, actor : Users \cup {None}, user : Users \cup {None},
             groups : SUBSET Groups, owners : SUBSET Users]
NoRequest == [op |-> "read", actor |-> None, user |-> None,
              groups |-> {}, owners |-> {}]

\* A change of a group, and the keys that are removed after it: the commands
\* are sent together, so that they are one step unless one of them fails.
Tasks == [group : Groups, users : SUBSET Users, add : BOOLEAN]
Drops == Groups \X SUBSET Keys

Key(c) == IF step[c] = "membership" THEN request[c].user ELSE Primary

Idle == \A c \in Calls : pc[c] = "idle"

Init ==
    /\ members \in {m \in [Groups -> SUBSET Users] : m[Owner] # {}}
    /\ cache = [k \in Keys |-> None]
    /\ pc = [c \in Calls |-> "idle"]
    /\ request = [c \in Calls |-> NoRequest]
    /\ step = [c \in Calls |-> "check"]
    /\ fetched = [c \in Calls |-> None]
    /\ mine = [c \in Calls |-> {}]
    /\ byOwner = [c \in Calls |-> FALSE]
    /\ tasks = [c \in Calls |-> {}]
    /\ drops = [c \in Calls |-> {}]
    /\ disturbed = FALSE
    /\ late = {} /\ raced = {}
    /\ owned = members[Owner]
    /\ asked = 0

-----------------------------------------------------------------------------
(* Requests.                                                               *)

Start(c, r, first) ==
    /\ pc[c] = "idle"
    /\ asked < Bound /\ asked' = asked + 1
    /\ pc' = [pc EXCEPT ![c] = "get"]
    /\ request' = [request EXCEPT ![c] = r]
    /\ step' = [step EXCEPT ![c] = first]
    /\ disturbed' = (disturbed \/ ~Idle)
    /\ UNCHANGED <<cacheVars, fetched, mine, byOwner, writeVars, late, raced, owned>>

\* Any handler that only looks the groups up.
Read(c, k) ==
    IF k = Primary
    THEN Start(c, NoRequest, "check")
    ELSE Start(c, [NoRequest EXCEPT !.user = k], "membership")

LeaveOrganizations(c, u) ==
    Start(c, [NoRequest EXCEPT !.op = "leave", !.user = u], "membership")

DeleteAccount(c, u) ==
    Start(c, [NoRequest EXCEPT !.op = "delete", !.user = u], "membership")

UpdateUser(c, a, u, G) ==
    /\ a # u
    /\ Start(c, [NoRequest EXCEPT !.op = "update", !.actor = a, !.user = u,
                                  !.groups = G], "check")

RemoveUser(c, a, u) ==
    /\ a # u
    /\ Start(c, [NoRequest EXCEPT !.op = "remove", !.actor = a, !.user = u],
             "check")

ReplaceOwners(c, O) ==
    Start(c, [NoRequest EXCEPT !.op = "owners", !.owners = O], "nested")

-----------------------------------------------------------------------------
(* What a handler does with what it read.                                  *)

Forget(c) ==
    /\ request' = [request EXCEPT ![c] = NoRequest]
    /\ step' = [step EXCEPT ![c] = "check"]
    /\ fetched' = [fetched EXCEPT ![c] = None]
    /\ mine' = [mine EXCEPT ![c] = {}]
    /\ byOwner' = [byOwner EXCEPT ![c] = FALSE]

Over(c) ==
    /\ pc' = [pc EXCEPT ![c] = "idle"]
    /\ Forget(c)
    /\ UNCHANGED writeVars

\* It reads again, to take the next step.
Continue(c, next) ==
    /\ pc' = [pc EXCEPT ![c] = "get"]
    /\ step' = [step EXCEPT ![c] = next]
    /\ fetched' = [fetched EXCEPT ![c] = None]
    /\ UNCHANGED <<request, writeVars>>

\* The groups of the user who leaves; without any, there is nothing to leave.
GotMembership(c, G) ==
    /\ step[c] = "membership"
    /\ IF request[c].op = "read" \/ G = {}
       THEN Over(c)
       ELSE /\ Continue(c, IF request[c].op = "delete" THEN "check" ELSE "nested")
            /\ mine' = [mine EXCEPT ![c] = G]
            /\ UNCHANGED byOwner

\* The only owner cannot delete the account; an owner can neither be updated
\* nor removed, an administrator only by an owner.
Refused(c, nested) ==
    LET r == request[c] IN
    \/ r.op = "delete" /\ nested[Owner] = {r.user}
    \/ /\ r.op \in {"update", "remove"}
       /\ \/ r.user \in nested[Owner]
          \/ r.user \in nested[Admin] /\ r.actor \notin nested[Owner]

GotCheck(c, nested) ==
    /\ step[c] = "check"
    /\ IF request[c].op = "read" \/ Refused(c, nested)
       THEN Over(c)
       ELSE /\ Continue(c, "nested")
            /\ byOwner' = [byOwner EXCEPT
                              ![c] = request[c].actor \in nested[Owner]]
            /\ UNCHANGED mine

\* Mistake: whoever may write users may make an administrator.
AvailableToAll(c) == Groups \ {Owner}

\* The groups that a request may assign.
Available(c) == Groups \ (IF byOwner[c] THEN {Owner} ELSE {Owner, Admin})

Task(g, U, add) == [group |-> g, users |-> U, add |-> add]

\* The changes of groups that follow from what was read.
Changes(c, nested) ==
    LET r == request[c]
        joined == {g \in Groups : r.user \in nested[g]}
    IN  CASE r.op \in {"leave", "delete"} ->
                {Task(g, {r.user}, FALSE) : g \in mine[c]}
          [] r.op = "update" ->
                {Task(g, {r.user}, TRUE) : g \in r.groups \ joined}
                \cup {Task(g, {r.user}, FALSE) :
                         g \in (joined \cap Available(c)) \ r.groups}
          [] r.op = "remove" ->
                {Task(g, {r.user}, FALSE) : g \in joined}
          [] OTHER ->
                {t \in {Task(Owner, r.owners \ nested[Owner], TRUE),
                        Task(Owner, nested[Owner] \ r.owners, FALSE)} :
                    t.users # {}}

\* The only owner cannot leave; a request for groups that are not available
\* is refused.
Invalid(c, nested) ==
    LET r == request[c] IN
    \/ r.op = "leave" /\ Owner \in mine[c] /\ Cardinality(nested[Owner]) = 1
    \/ r.op = "update" /\ ~(r.groups \subseteq Available(c))

GotNested(c, nested) ==
    /\ step[c] = "nested"
    /\ IF Invalid(c, nested) \/ Changes(c, nested) = {}
       THEN Over(c)
       ELSE /\ pc' = [pc EXCEPT ![c] = "write"]
            /\ tasks' = [tasks EXCEPT ![c] = Changes(c, nested)]
            /\ fetched' = [fetched EXCEPT ![c] = None]
            /\ UNCHANGED <<request, step, mine, byOwner, drops>>

Got(c, answer) ==
    GotMembership(c, answer) \/ GotCheck(c, answer) \/ GotNested(c, answer)

-----------------------------------------------------------------------------
(* Reading through the cache.                                              *)

FromCache(c) ==
    /\ pc[c] = "get"
    /\ IF cache[Key(c)] = None
       THEN /\ pc' = [pc EXCEPT ![c] = "fetch"]
            /\ UNCHANGED <<request, readVars, writeVars>>
       ELSE Got(c, cache[Key(c)])
    /\ UNCHANGED <<cacheVars, disturbed, late, raced, owned, asked>>

Fetch(c) ==
    /\ pc[c] = "fetch"
    /\ pc' = [pc EXCEPT ![c] = "set"]
    /\ fetched' = [fetched EXCEPT ![c] = Answer(Key(c))]
    /\ UNCHANGED <<cacheVars, request, step, mine, byOwner, writeVars,
                   disturbed, late, raced, owned, asked>>

ToCache(c) ==
    /\ pc[c] = "set"
    /\ cache' = [cache EXCEPT ![Key(c)] = fetched[c]]
    /\ Got(c, fetched[c])
    /\ raced' = IF c \in late THEN raced \cup {Key(c)} ELSE raced \ {Key(c)}
    /\ late' = late \ {c}
    /\ UNCHANGED <<members, disturbed, owned, asked>>

ReadFails(c) ==
    /\ pc[c] \in {"get", "fetch", "set"}
    /\ Over(c)
    /\ late' = late \ {c}
    /\ UNCHANGED <<cacheVars, disturbed, raced, owned, asked>>

-----------------------------------------------------------------------------
(* Changing groups.  The changes of a request are made in parallel, but    *)
(* for the owners: the new ones are added before the others are removed.   *)

\* What is left to do; with nothing left the handler is over.
Left(c, T, D) ==
    /\ tasks' = [tasks EXCEPT ![c] = T]
    /\ drops' = [drops EXCEPT ![c] = D]
    /\ IF T \cup D = {}
       THEN pc' = [pc EXCEPT ![c] = "idle"] /\ Forget(c)
       ELSE UNCHANGED <<pc, request, readVars>>

\* Mistake: the owners are removed and added at once.
AnyTurn(c, t) == t \in tasks[c]

InTurn(c, t) ==
    /\ t \in tasks[c]
    /\ request[c].op = "owners" /\ ~t.add =>
          drops[c] = {} /\ \A s \in tasks[c] : ~s.add

\* Mistake: the key of the nested groups stays in the cache.
StaleMembers(t) == t.users

\* Mistake: the keys of the users stay.
StaleGroups(t) == {Primary}

\* The keys that a change makes stale.
Stale(t) == {Primary} \cup t.users

Cached(K) == {k \in K : cache[k] # None}

\* The keys for which the service answers otherwise from now on.
Changed == {k \in Keys : Answer(k)' # Answer(k)}

Apply(t) ==
    /\ members' = [members EXCEPT ![t.group] = IF t.add THEN @ \cup t.users
                                                        ELSE @ \ t.users]
    /\ owned' = owned \cup members'[Owner]
    /\ late' = late \cup {c \in Calls : pc[c] = "set" /\ Key(c) \in Changed}

\* addGroupMembers, deleteGroupMembers.
ChangeGroup(c, t) ==
    /\ pc[c] = "write"
    /\ InTurn(c, t)
    /\ Apply(t)
    /\ Left(c, tasks[c] \ {t}, drops[c] \cup {<<t.group, Stale(t)>>})
    /\ UNCHANGED <<cache, disturbed, raced, asked>>

Without(K) == [k \in Keys |-> IF k \in K THEN None ELSE cache[k]]

RemoveCache(c, d) ==
    /\ pc[c] = "write"
    /\ d \in drops[c]
    /\ cache' = Without(d[2])
    /\ raced' = raced \ d[2]
    /\ Left(c, tasks[c], drops[c] \ {d})
    /\ UNCHANGED <<members, disturbed, late, owned, asked>>

\* The other changes of the request go on, but the owners are not removed
\* when those to be added were not.
LeftOver(c, T) == IF request[c].op = "owners" THEN {} ELSE T

\* A change fails, before or after the service has made it.
ChangeFails(c, t) ==
    /\ pc[c] = "write"
    /\ InTurn(c, t)
    /\ \/ UNCHANGED <<members, disturbed, late, raced, owned>>
       \/ Apply(t) /\ disturbed' = TRUE /\ raced' = raced \cup Cached(Changed)
    /\ Left(c, LeftOver(c, tasks[c] \ {t}), drops[c])
    /\ UNCHANGED <<cache, asked>>

\* Only some of the keys are removed.
RemoveCacheFails(c, d) ==
    /\ pc[c] = "write"
    /\ d \in drops[c]
    /\ \E K \in SUBSET d[2] :
          K # d[2] /\ cache' = Without(K) /\ raced' = (raced \ K) \cup Cached(d[2] \ K)
    /\ disturbed' = TRUE
    /\ Left(c, LeftOver(c, tasks[c]), drops[c] \ {d})
    /\ UNCHANGED <<members, late, owned, asked>>

\* A key expires, REDIS_CACHE_TTL after it was set.  With the last one goes
\* whatever an overlap or a failure may have left.
Expire(k) ==
    /\ cache[k] # None
    /\ cache' = [cache EXCEPT ![k] = None]
    /\ disturbed' = (disturbed /\ ~(Idle /\ \A j \in Keys : cache'[j] = None))
    /\ raced' = raced \ {k}
    /\ UNCHANGED <<members, pc, request, readVars, writeVars, late, owned, asked>>

-----------------------------------------------------------------------------

Asks(c) ==
    \/ \E k \in Keys : Read(c, k)
    \/ \E u \in Users :
          \/ LeaveOrganizations(c, u) \/ DeleteAccount(c, u)
          \/ \E a \in Users : \/ RemoveUser(c, a, u)
                              \/ \E G \in SUBSET Groups : UpdateUser(c, a, u, G)
    \/ \E O \in SUBSET Users : ReplaceOwners(c, O)

CallStep(c) ==
    \/ FromCache(c) \/ Fetch(c) \/ ToCache(c) \/ ReadFails(c)
    \/ \E t \in tasks[c] : ChangeGroup(c, t) \/ ChangeFails(c, t)
    \/ \E d \in drops[c] : RemoveCache(c, d) \/ RemoveCacheFails(c, d)

Next ==
    \/ \E c \in Calls : Asks(c) \/ CallStep(c)
    \/ \E k \in Keys : Expire(k)

Spec == Init /\ [][Next]_vars

-----------------------------------------------------------------------------
(* What the handlers and the cache promise.                                *)

TypeOK ==
    /\ members \in [Groups -> SUBSET Users]
    /\ DOMAIN cache = Keys
    /\ \A k \in Keys : cache[k] = None \/ cache[k] \in Answers(k)
    /\ pc \in [Calls -> {"idle", "get", "fetch", "set", "write"}]
    /\ request \in [Calls -> Requests]
    /\ step \in [Calls -> {"membership", "check", "nested"}]
    /\ DOMAIN fetched = Calls
    /\ \A c \in Calls : fetched[c] = None \/ fetched[c] \in Answers(Key(c))
    /\ mine \in [Calls -> SUBSET Groups]
    /\ byOwner \in [Calls -> BOOLEAN]
    /\ tasks \in [Calls -> SUBSET Tasks]
    /\ drops \in [Calls -> SUBSET Drops]
    /\ disturbed \in BOOLEAN
    /\ late \subseteq Calls /\ raced \subseteq Keys
    /\ owned \subseteq Users
    /\ asked \in 0 .. Bound

\* Where handlers came one after the other and no call failed since the
\* cache was last empty, every key at rest holds what the service answers:
\* each change removes all the keys it makes stale, after it is made.
CacheIsCurrent ==
    Idle /\ ~disturbed => \A k \in Keys : cache[k] \in {None, Answer(k)}

\* However handlers overlap, a key is stale only until the handler that made it so has
\* removed it, or because somebody stored an answer from before the change, or
\* a call failed, since the key was last set or removed.
OnlyRacedKeysAreStale ==
    \A k \in Keys :
        \/ cache[k] \in {None, Answer(k)}
        \/ k \in raced
        \/ \E c \in Calls : \E d \in drops[c] : k \in d[2]

\* The workspace never loses its last owner then, neither for good nor while
\* the list of owners is being replaced, unless an empty list is asked for.
OwnerRemains ==
    [][ /\ ~disturbed /\ members[Owner] # {}
        /\ \A c \in Calls : request[c].op = "owners" => request[c].owners # {}
        => members'[Owner] # {}]_vars

\* However handlers overlap and however stale the cache is, only somebody who
\* is or has been an owner makes administrators.
AdminsAreMadeByOwners ==
    [][\A c \in Calls :
          request[c].op = "update" /\ ~(members'[Admin] \subseteq members[Admin])
          /\ tasks'[c] # tasks[c] => request[c].actor \in owned]_vars

\* "check if it's the only owner of a group" (UserRouter.ts:161), "You can't
\* leave ... because you're the only owner of it" (UserRouter.ts:337): members
\* who leave, or delete their accounts, at the same time do not leave a
\* workspace without an owner.
OnlyOwnerStays ==
    [][ /\ \A c \in Calls : request[c].op \in {"leave", "delete"}
        /\ members[Owner] # {}
        => members'[Owner] # {}]_vars
=============================================================================
