-------------------------- MODULE MembershipsProofs ---------------------------
(***************************************************************************)
(* Theorems about Memberships, for any users, nested groups and handlers.  *)
(*                                                                         *)
(* Whatever is read through the cache may be old, but it was true once: an *)
(* owner that the cache names, or that a handler has seen, is or has been  *)
(* one.  So however handlers overlap, somebody who never was an owner      *)
(* makes no administrator.                                                 *)
(*                                                                         *)
(* While the cache is not raced, every stale value in it has a handler     *)
(* that will drop it, so it is current at rest; and handlers that do not   *)
(* overlap see the owners as they are, so one of them remains.             *)
(***************************************************************************)
EXTENDS Memberships, FiniteSetTheorems, TLAPS

\* A handler holds an answer when it is about to cache it, has changes to
\* make only after it read all it needs, and at rest holds nothing.  Only a
\* look-up of the groups, and the list of owners, have no user.
Shape ==
    \A c \in Calls :
        /\ pc[c] = "set" <=> fetched[c] # None
        /\ pc[c] # "write" => tasks[c] = {} /\ drops[c] = {}
        /\ pc[c] = "idle" => ~byOwner[c]
        /\ request[c].user = None =>
              step[c] # "membership" /\ request[c].op \in {"read", "owners"}

\* Whoever is an owner in the cache, in an answer or in what a handler made
\* of it has been one; administrators are made on behalf of such a user.
KnownOwners ==
    /\ members[Owner] \subseteq owned
    /\ cache[Primary] # None => cache[Primary][Owner] \subseteq owned
    /\ \A c \in Calls :
          /\ fetched[c] # None /\ step[c] # "membership" =>
                fetched[c][Owner] \subseteq owned
          /\ byOwner[c] => request[c].actor \in owned
          /\ \A t \in tasks[c] :
                request[c].op = "update" /\ t.add /\ t.group = Admin =>
                    request[c].actor \in owned

Inv == TypeOK /\ Shape /\ KnownOwners

-----------------------------------------------------------------------------

LEMMA InitInv == Init => Inv
  <1> SUFFICES ASSUME Init PROVE Inv
      OBVIOUS
  <1>1. TypeOK
      <2>1. NoRequest \in Requests
          BY DEF NoRequest, Requests, Ops
      <2>2. 0 \in 0 .. Bound
          BY MembershipAssumption
      <2>3. owned \subseteq Users
          BY MembershipAssumption DEF Init
      <2>4. \A c \in Calls : fetched[c] = None
          BY DEF Init
      <2>5. \A k \in Keys : cache[k] = None
          BY DEF Init
      <2> QED
          BY <2>1, <2>2, <2>3, <2>4, <2>5 DEF Init, TypeOK
  <1>2. Shape
      BY DEF Init, Shape, NoRequest
  <1>3. KnownOwners
      BY MembershipAssumption DEF Init, KnownOwners, Keys
  <1> QED
      BY <1>1, <1>2, <1>3 DEF Inv

\* A request that starts keeps the invariant.
LEMMA StartInv ==
    ASSUME Inv, NEW c \in Calls, NEW r \in Requests,
           NEW first \in {"membership", "check", "nested"},
           r.user = None => first # "membership" /\ r.op \in {"read", "owners"},
           Start(c, r, first)
    PROVE  Inv'
  <1> USE DEF Inv, Start, cacheVars, writeVars
  <1>1. TypeOK'
      <2>1. \A d \in Calls : d # c => Key(d)' = Key(d)
          BY DEF TypeOK, Key
      <2>2. \A d \in Calls : (fetched[d] = None \/ fetched[d] \in Answers(Key(d)))'
          BY <2>1 DEF TypeOK, Shape, Answers
      <2>3. (disturbed' \in BOOLEAN) /\ asked' \in 0 .. Bound
          BY MembershipAssumption DEF TypeOK
      <2> QED
          BY <2>2, <2>3 DEF TypeOK, Keys, Answers
  <1>2. Shape'
      BY DEF TypeOK, Shape
  <1>3. KnownOwners'
      BY DEF TypeOK, Shape, KnownOwners
  <1> QED
      BY <1>1, <1>2, <1>3

\* The changes that follow from an answer are changes of the groups by users
\* of the workspace, and those that make an administrator need an owner.
LEMMA ChangesAreTasks ==
    ASSUME Inv, NEW c \in Calls, NEW nested \in [Groups -> SUBSET Users]
    PROVE  /\ Changes(c, nested) \subseteq Tasks
           /\ ~Invalid(c, nested) =>
                 \A t \in Changes(c, nested) :
                    request[c].op = "update" /\ t.add /\ t.group = Admin =>
                        byOwner[c]
  <1> DEFINE r == request[c]
             joined == {g \in Groups : r.user \in nested[g]}
  <1>1. /\ r \in Requests
        /\ mine[c] \subseteq Groups
        /\ r.op \notin {"read", "owners"} => r.user \in Users
      BY DEF Inv, TypeOK, Shape, Requests
  <1> DEFINE Single(b) == {Task(g, {r.user}, b) : g \in Groups}
  <1>2. ASSUME NEW b \in BOOLEAN, r.user \in Users PROVE Single(b) \subseteq Tasks
      BY <1>2 DEF Tasks, Task
  <1> HIDE DEF Single
  <1>3. CASE r.op \in {"leave", "delete"}
      <2>1. Changes(c, nested) = {Task(g, {r.user}, FALSE) : g \in mine[c]}
          BY <1>3 DEF Changes
      <2>2. Changes(c, nested) \subseteq Single(FALSE)
          BY <1>1, <2>1 DEF Single
      <2> QED
          BY <1>1, <1>3, <1>2, <2>2
  <1>4. CASE r.op = "update"
      <2>1. Changes(c, nested) =
               {Task(g, {r.user}, TRUE) : g \in r.groups \ joined}
               \cup {Task(g, {r.user}, FALSE) :
                        g \in (joined \cap Available(c)) \ r.groups}
          BY <1>4 DEF Changes
      <2>2. r.groups \subseteq Groups
          BY <1>1 DEF Requests
      <2>3. Changes(c, nested) \subseteq Tasks
          <3>1. Changes(c, nested) \subseteq Single(TRUE) \cup Single(FALSE)
              BY <2>1, <2>2 DEF Single
          <3> QED
              BY <1>1, <1>4, <1>2, <3>1
      <2>4. ASSUME ~Invalid(c, nested), NEW t \in Changes(c, nested),
                   t.add, t.group = Admin
            PROVE  byOwner[c]
          <3>1. t.group \in r.groups
              BY <2>1, <2>4 DEF Task
          <3>2. r.groups \subseteq Available(c)
              BY <1>4, <2>4 DEF Invalid
          <3> QED
              BY <3>1, <3>2, <2>4 DEF Available
      <2> QED
          BY <2>3, <2>4
  <1>5. CASE r.op = "remove"
      <2>1. Changes(c, nested) = {Task(g, {r.user}, FALSE) : g \in joined}
          BY <1>5 DEF Changes
      <2>2. Changes(c, nested) \subseteq Single(FALSE)
          BY <2>1 DEF Single
      <2> QED
          BY <1>1, <1>5, <1>2, <2>2
  <1>6. CASE r.op \in {"read", "owners"}
      <2>1. Changes(c, nested) \subseteq
               {Task(Owner, r.owners \ nested[Owner], TRUE),
                Task(Owner, nested[Owner] \ r.owners, FALSE)}
          BY <1>6 DEF Changes
      <2>2. r.owners \subseteq Users
          BY <1>1 DEF Requests
      <2>3. /\ Task(Owner, r.owners \ nested[Owner], TRUE) \in Tasks
            /\ Task(Owner, nested[Owner] \ r.owners, FALSE) \in Tasks
          <3>1. Owner \in Groups /\ nested[Owner] \subseteq Users
              BY MembershipAssumption
          <3> QED
              BY <2>2, <3>1 DEF Tasks, Task
      <2> QED
          BY <1>6, <2>1, <2>3
  <1> QED
      BY <1>1, <1>3, <1>4, <1>5, <1>6 DEF Requests, Ops

-----------------------------------------------------------------------------
(* What a handler makes of an answer keeps the invariant.                  *)

\* Nothing but the handler has changed.
Others(c) ==
    /\ UNCHANGED <<members, disturbed, owned, asked>>
    /\ late' \subseteq Calls /\ raced' \subseteq Keys
    /\ DOMAIN cache' = Keys
    /\ \A k \in Keys : cache'[k] = None \/ cache'[k] \in Answers(k)
    /\ cache'[Primary] # None => cache'[Primary][Owner] \subseteq owned

LEMMA AnswersAsKeys ==
    ASSUME UNCHANGED <<request, step>>
    PROVE  \A c \in Calls : Key(c)' = Key(c) /\ Answers(Key(c))' = Answers(Key(c))
  BY DEF Key, Answers

LEMMA OverInv ==
    ASSUME Inv, NEW c \in Calls, pc[c] # "write", Over(c), Others(c)
    PROVE  Inv'
  <1> USE DEF Inv, Over, Forget, Others, writeVars
  <1>1. NoRequest \in Requests
      BY DEF NoRequest, Requests, Ops
  <1>2. TypeOK'
      <2>1. \A d \in Calls : d # c => Key(d)' = Key(d)
          BY DEF TypeOK, Key
      <2>2. \A d \in Calls : (fetched[d] = None \/ fetched[d] \in Answers(Key(d)))'
          BY <2>1 DEF TypeOK, Answers
      <2>3. \A k \in Keys : (cache[k] = None \/ cache[k] \in Answers(k))'
          BY DEF Answers
      <2> QED
          BY <1>1, <2>2, <2>3 DEF TypeOK
  <1>3. Shape'
      BY DEF TypeOK, Shape, NoRequest
  <1>4. KnownOwners'
      BY DEF TypeOK, Shape, KnownOwners, NoRequest
  <1> QED
      BY <1>2, <1>3, <1>4

LEMMA GotInv ==
    ASSUME Inv, NEW c \in Calls, pc[c] # "write", pc[c] # "idle",
           NEW answer \in Answers(Key(c)),
           step[c] # "membership" => answer[Owner] \subseteq owned,
           Got(c, answer), Others(c)
    PROVE  Inv'
  <1>1. CASE Over(c)
      BY <1>1, OverInv
  <1>2. \A k \in Keys : (cache[k] = None \/ cache[k] \in Answers(k))'
      BY DEF Others, Answers
  <1>3. CASE GotMembership(c, answer) /\ ~Over(c)
      <2> USE <1>3 DEF GotMembership, Continue, Inv, Others, writeVars
      <2>1. Key(c) \in Users
          BY DEF Key, TypeOK, Shape, Requests
      <2>2. answer \in SUBSET Groups
          BY <2>1, MembershipAssumption DEF Answers
      <2>3. TypeOK'
          <3>1. \A d \in Calls : d # c => Key(d)' = Key(d)
              BY DEF TypeOK, Key
          <3>2. \A d \in Calls : (fetched[d] = None \/ fetched[d] \in Answers(Key(d)))'
              BY <3>1 DEF TypeOK, Answers
          <3> QED
              BY <1>2, <2>2, <3>2 DEF TypeOK
      <2>4. Shape'
          BY DEF TypeOK, Shape
      <2>5. KnownOwners'
          BY DEF TypeOK, Shape, KnownOwners
      <2> QED
          BY <2>3, <2>4, <2>5
  <1>4. CASE GotCheck(c, answer) /\ ~Over(c)
      <2> USE <1>4 DEF GotCheck, Continue, Inv, Others, writeVars
      <2>1. TypeOK'
          <3>1. \A d \in Calls : d # c => Key(d)' = Key(d)
              BY DEF TypeOK, Key
          <3>2. \A d \in Calls : (fetched[d] = None \/ fetched[d] \in Answers(Key(d)))'
              BY <3>1 DEF TypeOK, Answers
          <3>3. byOwner' \in [Calls -> BOOLEAN]
              <4> DEFINE b == request[c].actor \in answer[Owner]
              <4>1. b \in BOOLEAN
                  OBVIOUS
              <4>2. byOwner' = [byOwner EXCEPT ![c] = b]
                  OBVIOUS
              <4> HIDE DEF b
              <4> QED
                  BY <4>1, <4>2 DEF TypeOK
          <3>4. /\ pc' \in [Calls -> {"idle", "get", "fetch", "set", "write"}]
                /\ step' \in [Calls -> {"membership", "check", "nested"}]
                /\ DOMAIN fetched' = Calls
              BY DEF TypeOK
          <3> QED
              BY <1>2, <3>2, <3>3, <3>4 DEF TypeOK
      <2>2. Shape'
          BY DEF TypeOK, Shape
      <2>3. KnownOwners'
          BY DEF TypeOK, Shape, KnownOwners
      <2> QED
          BY <2>1, <2>2, <2>3
  <1>5. CASE GotNested(c, answer) /\ ~Over(c)
      <2> USE <1>5 DEF GotNested, Inv, Others
      <2>1. answer \in [Groups -> SUBSET Users]
          BY DEF Key, Answers
      <2>2. /\ Changes(c, answer) \subseteq Tasks
            /\ \A t \in Changes(c, answer) :
                  request[c].op = "update" /\ t.add /\ t.group = Admin => byOwner[c]
          BY <2>1, ChangesAreTasks
      <2>3. TypeOK'
          <3>1. \A d \in Calls : (fetched[d] = None \/ fetched[d] \in Answers(Key(d)))'
              BY AnswersAsKeys DEF TypeOK
          <3> QED
              BY <1>2, <2>2, <3>1 DEF TypeOK
      <2>4. Shape'
          BY DEF TypeOK, Shape
      <2>5. KnownOwners'
          BY <2>2 DEF TypeOK, Shape, KnownOwners
      <2> QED
          BY <2>3, <2>4, <2>5
  <1> QED
      BY <1>1, <1>3, <1>4, <1>5 DEF Got

-----------------------------------------------------------------------------
(* The steps of a handler.                                                 *)

LEMMA FromCacheInv ==
    ASSUME Inv, NEW c \in Calls, FromCache(c)
    PROVE  Inv'
  <1> USE DEF FromCache, cacheVars
  <1>1. Key(c) \in Keys
      BY DEF Key, Keys, Inv, TypeOK, Shape, Requests
  <1>2. CASE cache[Key(c)] = None
      <2> USE <1>2 DEF Inv, readVars, writeVars
      <2>1. \A d \in Calls : (fetched[d] = None \/ fetched[d] \in Answers(Key(d)))'
          BY AnswersAsKeys DEF TypeOK
      <2>2. \A k \in Keys : (cache[k] = None \/ cache[k] \in Answers(k))'
          BY DEF TypeOK, Answers
      <2>3. TypeOK'
          BY <2>1, <2>2 DEF TypeOK
      <2>4. Shape'
          BY DEF TypeOK, Shape
      <2>5. KnownOwners'
          BY DEF KnownOwners
      <2> QED
          BY <2>3, <2>4, <2>5
  <1>3. CASE cache[Key(c)] # None
      <2>1. Others(c)
          BY <1>3 DEF Others, Inv, TypeOK, KnownOwners
      <2>2. cache[Key(c)] \in Answers(Key(c))
          BY <1>1, <1>3 DEF Inv, TypeOK
      <2>3. step[c] # "membership" => cache[Key(c)][Owner] \subseteq owned
          BY <1>3 DEF Inv, KnownOwners, Key
      <2> QED
          BY <1>3, <2>1, <2>2, <2>3, GotInv
  <1> QED
      BY <1>2, <1>3

\* What the service answers names the owners of the moment.
LEMMA AnswerIsTyped ==
    ASSUME Inv, NEW k \in Keys
    PROVE  /\ Answer(k) \in Answers(k)
           /\ Answer(k) # None
           /\ k = Primary => Answer(k)[Owner] \subseteq owned
  BY MembershipAssumption
  DEF Inv, TypeOK, KnownOwners, Answer, Answers, GroupsOf, Keys

LEMMA FetchInv ==
    ASSUME Inv, NEW c \in Calls, Fetch(c)
    PROVE  Inv'
  <1> USE DEF Fetch, Inv, cacheVars, writeVars
  <1>1. Key(c) \in Keys /\ (step[c] # "membership" => Key(c) = Primary)
      BY DEF Key, Keys, TypeOK, Shape, Requests
  <1>2. TypeOK'
      <2>1. \A d \in Calls : (fetched[d] = None \/ fetched[d] \in Answers(Key(d)))'
          BY <1>1, AnswersAsKeys, AnswerIsTyped DEF TypeOK
      <2>2. \A k \in Keys : (cache[k] = None \/ cache[k] \in Answers(k))'
          BY DEF TypeOK, Answers
      <2> QED
          BY <2>1, <2>2 DEF TypeOK
  <1>3. Shape'
      BY <1>1, AnswerIsTyped DEF TypeOK, Shape
  <1>4. KnownOwners'
      BY <1>1, AnswerIsTyped DEF TypeOK, KnownOwners
  <1> QED
      BY <1>2, <1>3, <1>4

LEMMA ToCacheInv ==
    ASSUME Inv, NEW c \in Calls, ToCache(c)
    PROVE  Inv'
  <1> USE DEF ToCache
  <1>1. Key(c) \in Keys /\ (Key(c) = Primary <=> step[c] # "membership")
      BY MembershipAssumption DEF Key, Keys, Inv, TypeOK, Shape, Requests
  <1>2. fetched[c] \in Answers(Key(c))
      BY DEF Inv, TypeOK, Shape
  <1>3. step[c] # "membership" => fetched[c][Owner] \subseteq owned
      BY DEF Inv, Shape, KnownOwners
  <1>4. Others(c)
      BY <1>1, <1>2, <1>3 DEF Others, Inv, TypeOK, KnownOwners
  <1> QED
      BY <1>2, <1>3, <1>4, GotInv

\* A handler with less to change keeps the invariant, whatever happens to the
\* groups and the cache meanwhile.
LEMMA LeftInv ==
    ASSUME Inv, NEW c \in Calls, pc[c] = "write",
           NEW T \in SUBSET tasks[c], NEW D \in SUBSET Drops, Left(c, T, D),
           members' \in [Groups -> SUBSET Users],
           owned \subseteq owned', owned' \subseteq Users,
           members'[Owner] \subseteq owned',
           DOMAIN cache' = Keys,
           \A k \in Keys : cache'[k] \in {None, cache[k]},
           disturbed' \in BOOLEAN, UNCHANGED asked,
           late' \subseteq Calls, raced' \subseteq Keys
    PROVE  Inv'
  <1> USE DEF Inv, Left
  <1>1. \A k \in Keys : (cache[k] = None \/ cache[k] \in Answers(k))'
      BY DEF TypeOK, Answers
  <1>2. /\ Primary \in Keys
        /\ (cache[Primary] # None => cache[Primary][Owner] \subseteq owned)'
      BY DEF KnownOwners, Keys
  <1>3. tasks' \in [Calls -> SUBSET Tasks] /\ drops' \in [Calls -> SUBSET Drops]
      BY DEF TypeOK
  <1>4. CASE T \cup D = {}
      <2> USE <1>4 DEF Forget
      <2>1. NoRequest \in Requests
          BY DEF NoRequest, Requests, Ops
      <2>2. TypeOK'
          <3>1. \A d \in Calls : d # c => Key(d)' = Key(d)
              BY DEF TypeOK, Key
          <3>2. \A d \in Calls : (fetched[d] = None \/ fetched[d] \in Answers(Key(d)))'
              BY <3>1 DEF TypeOK, Answers
          <3>3. pc' \in [Calls -> {"idle", "get", "fetch", "set", "write"}]
              BY DEF TypeOK
          <3>4. request' \in [Calls -> Requests]
              BY <2>1 DEF TypeOK
          <3>5. step' \in [Calls -> {"membership", "check", "nested"}]
              BY DEF TypeOK
          <3>6. mine' \in [Calls -> SUBSET Groups] /\ DOMAIN fetched' = Calls
              BY DEF TypeOK
          <3>7. byOwner' \in [Calls -> BOOLEAN]
              BY DEF TypeOK
          <3>8. owned' \subseteq Users /\ asked' \in 0 .. Bound
              BY DEF TypeOK
          <3> QED
              BY <1>1, <1>3, <3>2, <3>3, <3>4, <3>5, <3>6, <3>7, <3>8 DEF TypeOK
      <2>3. Shape'
          BY DEF TypeOK, Shape, NoRequest
      <2>4. KnownOwners'
          BY <1>2 DEF TypeOK, Shape, KnownOwners, NoRequest
      <2> QED
          BY <2>2, <2>3, <2>4
  <1>5. CASE T \cup D # {}
      <2> USE <1>5 DEF readVars
      <2>1. TypeOK'
          <3>1. \A d \in Calls : (fetched[d] = None \/ fetched[d] \in Answers(Key(d)))'
              BY AnswersAsKeys DEF TypeOK
          <3> QED
              BY <1>1, <1>3, <3>1 DEF TypeOK
      <2>2. Shape'
          BY DEF TypeOK, Shape
      <2>3. KnownOwners'
          BY <1>2 DEF TypeOK, Shape, KnownOwners
      <2> QED
          BY <2>1, <2>2, <2>3
  <1> QED
      BY <1>4, <1>5

LEMMA ApplyKnown ==
    ASSUME Inv, NEW t \in Tasks, Apply(t)
    PROVE  /\ members' \in [Groups -> SUBSET Users]
           /\ owned \subseteq owned' /\ owned' \subseteq Users
           /\ members'[Owner] \subseteq owned'
           /\ late' \subseteq Calls
  <1>1. members' \in [Groups -> SUBSET Users]
      BY DEF Inv, TypeOK, Tasks, Apply
  <1> QED
      BY <1>1, MembershipAssumption DEF Inv, TypeOK, Apply

LEMMA WriteInv ==
    ASSUME Inv, NEW c \in Calls,
           \/ \E t \in tasks[c] : ChangeGroup(c, t) \/ ChangeFails(c, t)
           \/ \E d \in drops[c] : RemoveCache(c, d) \/ RemoveCacheFails(c, d)
    PROVE  Inv'
  <1>1. tasks[c] \subseteq Tasks /\ drops[c] \subseteq Drops
      BY DEF Inv, TypeOK
  <1>2. /\ members \in [Groups -> SUBSET Users]
        /\ owned \subseteq Users /\ members[Owner] \subseteq owned
        /\ DOMAIN cache = Keys /\ disturbed \in BOOLEAN
        /\ late \subseteq Calls /\ raced \subseteq Keys
      BY DEF Inv, TypeOK, KnownOwners
  <1>3. ASSUME NEW t \in tasks[c], ChangeGroup(c, t) PROVE Inv'
      <2>1. <<t.group, Stale(t)>> \in Drops
          BY <1>1 DEF Drops, Stale, Tasks, Keys
      <2>2. drops[c] \cup {<<t.group, Stale(t)>>} \in SUBSET Drops
          BY <1>1, <2>1
      <2> QED
          BY <1>1, <1>2, <1>3, <2>2, ApplyKnown, LeftInv DEF ChangeGroup
  <1>4. ASSUME NEW t \in tasks[c], ChangeFails(c, t) PROVE Inv'
      <2>1. LeftOver(c, tasks[c] \ {t}) \in SUBSET tasks[c]
          BY DEF LeftOver
      <2>2. /\ members' \in [Groups -> SUBSET Users]
            /\ owned \subseteq owned' /\ owned' \subseteq Users
            /\ members'[Owner] \subseteq owned'
            /\ disturbed' \in BOOLEAN
            /\ late' \subseteq Calls /\ raced' \subseteq Keys
          BY <1>1, <1>2, <1>4, ApplyKnown DEF ChangeFails, Cached, Changed
      <2> QED
          BY <1>1, <1>2, <1>4, <2>1, <2>2, LeftInv DEF ChangeFails
  <1>5. \A K : DOMAIN Without(K) = Keys
               /\ \A k \in Keys : Without(K)[k] \in {None, cache[k]}
      BY DEF Without
  <1>6. ASSUME NEW d \in drops[c], RemoveCache(c, d) PROVE Inv'
      BY <1>1, <1>2, <1>5, <1>6, LeftInv DEF RemoveCache
  <1>7. ASSUME NEW d \in drops[c], RemoveCacheFails(c, d) PROVE Inv'
      <2>1. LeftOver(c, tasks[c]) \in SUBSET tasks[c]
          BY DEF LeftOver
      <2>2. d[2] \subseteq Keys
          BY <1>1 DEF Drops
      <2>3. raced' \subseteq Keys
          BY <1>2, <1>7, <2>2 DEF RemoveCacheFails, Cached
      <2>4. DOMAIN cache' = Keys /\ \A k \in Keys : cache'[k] \in {None, cache[k]}
          BY <1>5, <1>7 DEF RemoveCacheFails
      <2>5. /\ pc[c] = "write" /\ Left(c, LeftOver(c, tasks[c]), drops[c] \ {d})
            /\ disturbed' \in BOOLEAN /\ UNCHANGED <<members, late, owned, asked>>
          BY <1>7 DEF RemoveCacheFails
      <2> QED
          BY <1>1, <1>2, <2>1, <2>3, <2>4, <2>5, LeftInv
  <1> QED
      BY <1>3, <1>4, <1>6, <1>7

LEMMA ExpireInv ==
    ASSUME Inv, NEW k \in Keys, Expire(k)
    PROVE  Inv'
  <1> USE DEF Inv, Expire, readVars, writeVars
  <1>1. TypeOK'
      <2>1. \A d \in Calls : (fetched[d] = None \/ fetched[d] \in Answers(Key(d)))'
          BY AnswersAsKeys DEF TypeOK
      <2>2. \A j \in Keys : (cache[j] = None \/ cache[j] \in Answers(j))'
          BY DEF TypeOK, Answers
      <2>3. disturbed' \in BOOLEAN /\ DOMAIN cache' = Keys
          BY DEF TypeOK
      <2> QED
          BY <2>1, <2>2, <2>3 DEF TypeOK
  <1>2. Shape'
      BY DEF Shape
  <1>3. KnownOwners'
      BY DEF TypeOK, KnownOwners, Keys
  <1> QED
      BY <1>1, <1>2, <1>3

LEMMA AsksInv ==
    ASSUME Inv, NEW c \in Calls, Asks(c)
    PROVE  Inv'
  <1>1. ASSUME NEW k \in Keys, Read(c, k) PROVE Inv'
      <2>1. CASE k = Primary
          <3>1. NoRequest \in Requests
              BY DEF NoRequest, Requests, Ops
          <3> QED
              BY <1>1, <2>1, <3>1, StartInv DEF Read, NoRequest
      <2>2. CASE k # Primary
          <3> DEFINE r == [NoRequest EXCEPT !.user = k]
          <3>1. r \in Requests /\ r.user # None
              BY <2>2, MembershipAssumption DEF NoRequest, Requests, Ops, Keys
          <3>2. Start(c, r, "membership")
              BY <1>1, <2>2 DEF Read
          <3> HIDE DEF r
          <3> QED
              BY <3>1, <3>2, StartInv
      <2> QED
          BY <2>1, <2>2
  <1>2. ASSUME NEW u \in Users,
               LeaveOrganizations(c, u)
        PROVE  Inv'
      <2> DEFINE r == [NoRequest EXCEPT !.op = "leave", !.user = u]
      <2>1. r \in Requests /\ r.user # None
          BY MembershipAssumption DEF NoRequest, Requests, Ops
      <2>2. Start(c, r, "membership")
          BY <1>2 DEF LeaveOrganizations
      <2> HIDE DEF r
      <2> QED
          BY <2>1, <2>2, StartInv
  <1>3. ASSUME NEW u \in Users,
               DeleteAccount(c, u)
        PROVE  Inv'
      <2> DEFINE r == [NoRequest EXCEPT !.op = "delete", !.user = u]
      <2>1. r \in Requests /\ r.user # None
          BY MembershipAssumption DEF NoRequest, Requests, Ops
      <2>2. Start(c, r, "membership")
          BY <1>3 DEF DeleteAccount
      <2> HIDE DEF r
      <2> QED
          BY <2>1, <2>2, StartInv
  <1>4. ASSUME NEW u \in Users, NEW a \in Users,
               RemoveUser(c, a, u)
        PROVE  Inv'
      <2> DEFINE r == [NoRequest EXCEPT !.op = "remove", !.actor = a, !.user = u]
      <2>1. r \in Requests /\ r.user # None
          BY MembershipAssumption DEF NoRequest, Requests, Ops
      <2>2. Start(c, r, "check")
          BY <1>4 DEF RemoveUser
      <2> HIDE DEF r
      <2> QED
          BY <2>1, <2>2, StartInv
  <1>5. ASSUME NEW u \in Users, NEW a \in Users, NEW G \in SUBSET Groups,
               UpdateUser(c, a, u, G)
        PROVE  Inv'
      <2> DEFINE r == [NoRequest EXCEPT !.op = "update", !.actor = a, !.user = u, !.groups = G]
      <2>1. r \in Requests /\ r.user # None
          BY MembershipAssumption DEF NoRequest, Requests, Ops
      <2>2. Start(c, r, "check")
          BY <1>5 DEF UpdateUser
      <2> HIDE DEF r
      <2> QED
          BY <2>1, <2>2, StartInv
  <1>6. ASSUME NEW O \in SUBSET Users, ReplaceOwners(c, O) PROVE Inv'
      <2> DEFINE r == [NoRequest EXCEPT !.op = "owners", !.owners = O]
      <2>1. r \in Requests /\ r.op = "owners"
          BY DEF NoRequest, Requests, Ops
      <2>2. Start(c, r, "nested")
          BY <1>6 DEF ReplaceOwners
      <2> HIDE DEF r
      <2> QED
          BY <2>1, <2>2, StartInv
  <1> QED
      BY <1>1, <1>2, <1>3, <1>4, <1>5, <1>6 DEF Asks

LEMMA ReadFailsInv ==
    ASSUME Inv, NEW c \in Calls, ReadFails(c)
    PROVE  Inv'
  <1>1. Others(c)
      BY DEF ReadFails, Others, cacheVars, Inv, TypeOK, KnownOwners
  <1> QED
      BY <1>1, OverInv DEF ReadFails

LEMMA NextInv ==
    ASSUME Inv, [Next]_vars
    PROVE  Inv'
  <1>1. CASE UNCHANGED vars
      <2> USE <1>1 DEF vars, cacheVars, readVars, writeVars, Inv
      <2>1. TypeOK'
          BY AnswersAsKeys DEF TypeOK, Answers
      <2>2. Shape'
          BY DEF Shape
      <2>3. KnownOwners'
          BY DEF KnownOwners
      <2> QED
          BY <2>1, <2>2, <2>3
  <1>2. ASSUME NEW c \in Calls, CallStep(c) PROVE Inv'
      BY <1>2, FromCacheInv, FetchInv, ToCacheInv, ReadFailsInv, WriteInv DEF CallStep
  <1> QED
      BY <1>1, <1>2, AsksInv, ExpireInv DEF Next

LEMMA SpecInv == Spec => []Inv
  <1>1. Init => Inv
      BY InitInv
  <1>2. Inv /\ [Next]_vars => Inv'
      BY NextInv
  <1> QED
      BY <1>1, <1>2, PTL DEF Spec

\* Every variable keeps to its type: the cache holds under a key what the
\* service answers for such a key, and the keys that a change removes are keys.
THEOREM TypeCorrect == Spec => []TypeOK
  <1>1. Inv => TypeOK
      BY DEF Inv
  <1> QED
      BY <1>1, SpecInv, PTL

\* Members change by a change of a group that a handler makes.
LEMMA MembersChange ==
    ASSUME Next, members' # members
    PROVE  \E c \in Calls : \E t \in tasks[c] :
              (ChangeGroup(c, t) \/ ChangeFails(c, t)) /\ Apply(t)
  <1>1. ASSUME NEW k \in Keys, Expire(k) PROVE members' = members
      BY <1>1 DEF Expire
  <1>2. ASSUME NEW c \in Calls, Asks(c) PROVE members' = members
      BY <1>2
      DEF Asks, Read, LeaveOrganizations, DeleteAccount, UpdateUser,
          RemoveUser, ReplaceOwners, Start, cacheVars
  <1>3. PICK c \in Calls : CallStep(c)
      BY <1>1, <1>2 DEF Next
  <1>4. /\ FromCache(c) \/ Fetch(c) \/ ToCache(c) \/ ReadFails(c)
              => members' = members
        /\ \A d : RemoveCache(c, d) \/ RemoveCacheFails(c, d)
              => members' = members
      BY DEF FromCache, Fetch, ToCache, ReadFails, RemoveCache,
             RemoveCacheFails, cacheVars
  <1>5. /\ \A t : ChangeGroup(c, t) => Apply(t)
        /\ \A t : ChangeFails(c, t) => (members' = members) \/ Apply(t)
      BY DEF ChangeGroup, ChangeFails
  <1>6. \E t \in tasks[c] : ChangeGroup(c, t) \/ ChangeFails(c, t)
      BY <1>3, <1>4 DEF CallStep
  <1> QED
      BY <1>5, <1>6

\* However handlers overlap and however stale the cache is, only somebody who
\* is or has been an owner makes administrators: what a handler takes for the
\* owners is what they once were, and the groups that may be assigned are
\* compared with the requested ones after that.
THEOREM OnlyOwnersMakeAdmins == Spec => AdminsAreMadeByOwners
  <1> DEFINE Granted(c) ==
                request[c].op = "update" /\ ~(members'[Admin] \subseteq members[Admin])
                /\ tasks'[c] # tasks[c]
  <1>1. ASSUME Inv, Next, NEW c \in Calls, Granted(c)
        PROVE  request[c].actor \in owned
      <2>1. members' # members
          BY <1>1
      <2>2. PICK d \in Calls : \E t \in tasks[d] :
                (ChangeGroup(d, t) \/ ChangeFails(d, t)) /\ Apply(t)
          BY <1>1, <2>1, MembersChange
      <2>3. PICK t \in tasks[d] : (ChangeGroup(d, t) \/ ChangeFails(d, t)) /\ Apply(t)
          BY <2>2
      <2>4. Apply(t) /\ t \in Tasks
          BY <1>1, <2>3 DEF Inv, TypeOK
      <2>5. t.add /\ t.group = Admin
          BY <1>1, <2>4, MembershipAssumption DEF Apply, Inv, TypeOK, Tasks
      <2>6. c = d
          BY <1>1, <2>3 DEF ChangeGroup, ChangeFails, Left, Inv, TypeOK
      <2> QED
          BY <1>1, <2>5, <2>6 DEF Inv, KnownOwners
  <1>2. ASSUME Inv, [Next]_vars
        PROVE  [\A c \in Calls : Granted(c) => request[c].actor \in owned]_vars
      BY <1>1, <1>2
  <1>3. Inv /\ [Next]_vars
        => [\A c \in Calls : Granted(c) => request[c].actor \in owned]_vars
      BY <1>2
  <1> QED
      BY <1>3, SpecInv, PTL DEF Spec, AdminsAreMadeByOwners

-----------------------------------------------------------------------------
(* Without overlaps and failures.                                          *)

OneAtWork == \A c, d \in Calls : pc[c] # "idle" /\ pc[d] # "idle" => c = d

\* A key holds what the service answers, or somebody has yet to remove it.
CacheFollows ==
    \A k \in Keys : \/ cache[k] \in {None, Answer(k)}
                    \/ \E c \in Calls : \E d \in drops[c] : k \in d[2]

AnswersAreCurrent ==
    \A c \in Calls : pc[c] = "set" => fetched[c] = Answer(Key(c))

\* What the check has found still holds when the changes are planned: who
\* deletes an account, or is removed, is not the only owner.
Checked(c) ==
    /\ pc[c] # "idle" /\ step[c] = "membership" =>
          request[c].op \in {"read", "leave", "delete"}
    /\ pc[c] # "idle" /\ step[c] = "nested" =>
          /\ request[c].op # "read"
          /\ request[c].op \in {"delete", "remove"} => members[Owner] # {request[c].user}

\* The changes that are left do not take the only owner away: no update has
\* to do with owners, whoever goes is not the only one, and the new owners are
\* there, or are yet to be added, before the others are removed.
Plan(c) ==
    LET r == request[c] IN
    /\ r.op = "read" => tasks[c] = {}
    /\ r.op = "update" => \A t \in tasks[c] : t.group # Owner
    /\ r.op \in {"leave", "delete", "remove"} =>
          \A t \in tasks[c] : /\ ~t.add /\ t.users = {r.user}
                              /\ t.group = Owner => members[Owner] # {r.user}
    /\ r.op = "owners" =>
          \A t \in tasks[c] :
              /\ t.group = Owner
              /\ t.add => r.owners \subseteq members[Owner] \cup t.users
              /\ ~t.add => t.users \cap r.owners = {}
              /\ (\A s \in tasks[c] : ~s.add) => r.owners \subseteq members[Owner]

Calm ==
    ~disturbed => /\ OneAtWork /\ CacheFollows /\ AnswersAreCurrent
                  /\ \A c \in Calls : Checked(c) /\ Plan(c)

\* What the service answers follows from the members.
LEMMA AnswerFollows ==
    ASSUME UNCHANGED members
    PROVE  \A k : Answer(k)' = Answer(k)
  BY DEF Answer, GroupsOf

\* Where nobody else is at work, the cache has nothing stale for a reader.
LEMMA ReaderIsAlone ==
    ASSUME Inv, Calm, ~disturbed, NEW c \in Calls, pc[c] \notin {"idle", "write"}
    PROVE  /\ \A d \in Calls : d # c => pc[d] = "idle"
           /\ \A d \in Calls : drops[d] = {} /\ tasks[d] = {}
           /\ \A k \in Keys : cache[k] \in {None, Answer(k)}
  <1>1. \A d \in Calls : d # c => pc[d] = "idle"
      BY DEF Calm, OneAtWork
  <1>2. \A d \in Calls : drops[d] = {} /\ tasks[d] = {}
      BY <1>1 DEF Inv, Shape
  <1> QED
      BY <1>1, <1>2 DEF Calm, CacheFollows

LEMMA CalmInit == Init => Calm
  BY DEF Init, Calm, OneAtWork, CacheFollows, AnswersAreCurrent, Checked, Plan

LEMMA CalmStart ==
    ASSUME Inv, Calm, NEW c \in Calls, NEW r, NEW first,
           first = "nested" => r.op \notin {"read", "delete", "remove"},
           first = "membership" => r.op \in {"read", "leave", "delete"},
           Start(c, r, first)
    PROVE  Calm'
  <1> SUFFICES ASSUME ~disturbed'
               PROVE  /\ OneAtWork' /\ CacheFollows' /\ AnswersAreCurrent'
                      /\ \A d \in Calls : Checked(d)' /\ Plan(d)'
      BY DEF Calm
  <1> USE DEF Start, cacheVars, writeVars
  <1>1. ~disturbed /\ Idle
      OBVIOUS
  <1>2. \A d \in Calls : d # c => pc'[d] = "idle"
      BY <1>1 DEF Idle, Inv, TypeOK
  <1>3. pc'[c] = "get" /\ request'[c] = r /\ step'[c] = first
      BY DEF Inv, TypeOK
  <1>4. \A d \in Calls : tasks'[d] = {}
      BY <1>1 DEF Idle, Inv, Shape
  <1>5. CacheFollows'
      BY <1>1, AnswerFollows DEF Calm, CacheFollows
  <1>6. OneAtWork' /\ AnswersAreCurrent'
      BY <1>2, <1>3 DEF OneAtWork, AnswersAreCurrent
  <1>7. \A d \in Calls : Checked(d)' /\ Plan(d)'
      BY <1>2, <1>3, <1>4 DEF Checked, Plan
  <1> QED
      BY <1>5, <1>6, <1>7

\* The changes planned on a current list of members.
LEMMA ChangesKeepOwner ==
    ASSUME Inv, NEW c \in Calls, Checked(c), pc[c] # "idle", step[c] = "nested",
           ~Invalid(c, members), tasks'[c] = Changes(c, members),
           UNCHANGED <<members, request>>
    PROVE  Plan(c)'
  <1> DEFINE r == request[c]
             joined == {g \in Groups : r.user \in members[g]}
             T == Changes(c, members)
  <1>1. r \in Requests
      BY DEF Inv, TypeOK
  <1>2. CASE r.op \in {"leave", "delete"}
      <2>1. T = {Task(g, {r.user}, FALSE) : g \in mine[c]}
          BY <1>2 DEF Changes
      <2>2. r.op = "leave" /\ Owner \in mine[c] => members[Owner] # {r.user}
          BY FS_Singleton DEF Invalid
      <2>3. r.op = "delete" => members[Owner] # {r.user}
          BY DEF Checked
      <2>4. \A t \in T : /\ ~t.add /\ t.users = {r.user}
                         /\ t.group = Owner => members[Owner] # {r.user}
          BY <1>2, <2>1, <2>2, <2>3 DEF Task
      <2> QED
          BY <1>2, <2>4 DEF Plan
  <1>3. CASE r.op = "remove"
      <2>1. T = {Task(g, {r.user}, FALSE) : g \in joined}
          BY <1>3 DEF Changes
      <2>2. \A t \in T : ~t.add /\ t.users = {r.user}
          BY <2>1 DEF Task
      <2> QED
          BY <1>3, <2>2 DEF Plan, Checked
  <1>4. CASE r.op = "update"
      <2>1. T = {Task(g, {r.user}, TRUE) : g \in r.groups \ joined}
                \cup {Task(g, {r.user}, FALSE) :
                         g \in (joined \cap Available(c)) \ r.groups}
          BY <1>4 DEF Changes
      <2>2. r.groups \subseteq Available(c) /\ Owner \notin Available(c)
          BY <1>4 DEF Invalid, Available
      <2>3. \A t \in T : t.group # Owner
          BY <2>1, <2>2 DEF Task
      <2> QED
          BY <1>4, <2>3 DEF Plan
  <1>5. CASE r.op = "owners"
      <2> DEFINE add == Task(Owner, r.owners \ members[Owner], TRUE)
                 rem == Task(Owner, members[Owner] \ r.owners, FALSE)
      <2>1. T = {t \in {add, rem} : t.users # {}}
          BY <1>5 DEF Changes
      <2>2. /\ add.group = Owner /\ add.add /\ add.users = r.owners \ members[Owner]
            /\ rem.group = Owner /\ ~rem.add /\ rem.users = members[Owner] \ r.owners
          BY DEF Task
      <2>3. \A t \in T : t.group = Owner
                         /\ (t.add => r.owners \subseteq members[Owner] \cup t.users)
                         /\ (~t.add => t.users \cap r.owners = {})
          BY <2>1, <2>2
      <2>4. (\A t \in T : ~t.add) => r.owners \subseteq members[Owner]
          BY <2>1, <2>2
      <2> QED
          BY <1>5, <2>3, <2>4 DEF Plan
  <1> QED
      BY <1>1, <1>2, <1>3, <1>4, <1>5 DEF Requests, Ops, Checked

\* A handler that reads has nothing but itself and its answer to change.
LEMMA CalmGot ==
    ASSUME Inv, Calm, NEW c \in Calls, pc[c] \notin {"idle", "write"},
           NEW answer, ~disturbed => answer = Answer(Key(c)),
           Got(c, answer) \/ Over(c), UNCHANGED <<members, disturbed>>,
           ~disturbed => \A k \in Keys : cache'[k] \in {None, Answer(k)}
    PROVE  Calm'
  <1> SUFFICES ASSUME ~disturbed
               PROVE  /\ OneAtWork' /\ CacheFollows' /\ AnswersAreCurrent'
                      /\ \A d \in Calls : Checked(d)' /\ Plan(d)'
      BY DEF Calm
  <1>1. /\ \A d \in Calls : d # c => pc[d] = "idle"
        /\ \A d \in Calls : drops[d] = {} /\ tasks[d] = {}
      BY ReaderIsAlone
  <1>2. CacheFollows'
      BY AnswerFollows DEF CacheFollows
  <1>3. CASE Over(c)
      <2>1. \A d \in Calls : pc'[d] = "idle" /\ tasks'[d] = {}
          BY <1>1, <1>3 DEF Over, writeVars, Inv, TypeOK
      <2> QED
          BY <1>2, <2>1 DEF OneAtWork, AnswersAreCurrent, Checked, Plan
  <1>4. ASSUME NEW next, Continue(c, next), next # "membership",
               next = "nested" =>
                  /\ request[c].op # "read"
                  /\ request[c].op \in {"delete", "remove"} =>
                        members[Owner] # {request[c].user}
        PROVE  /\ OneAtWork' /\ CacheFollows' /\ AnswersAreCurrent'
               /\ \A d \in Calls : Checked(d)' /\ Plan(d)'
      <2>1. /\ \A d \in Calls : d # c => pc'[d] = "idle"
            /\ \A d \in Calls : tasks'[d] = {}
            /\ pc'[c] = "get" /\ step'[c] = next
          BY <1>1, <1>4 DEF Continue, writeVars, Inv, TypeOK
      <2> QED
          BY <1>2, <1>4, <2>1 DEF OneAtWork, AnswersAreCurrent, Checked, Plan, Continue
  <1>5. CASE GotMembership(c, answer) /\ ~Over(c)
      <2> DEFINE next == IF request[c].op = "delete" THEN "check" ELSE "nested"
      <2>1. Continue(c, next) /\ request[c].op # "read"
          BY <1>5 DEF GotMembership
      <2>2. request[c].op \in {"leave", "delete"}
          BY <1>5, <2>1 DEF GotMembership, Calm, Checked
      <2> QED
          BY <1>4, <2>1, <2>2
  <1>6. CASE GotCheck(c, answer) /\ ~Over(c)
      <2>1. Continue(c, "nested") /\ request[c].op # "read" /\ ~Refused(c, answer)
          BY <1>6 DEF GotCheck
      <2>2. answer = members
          BY <1>6, MembershipAssumption DEF GotCheck, Key, Answer
      <2>3. request[c].op \in {"delete", "remove"} => members[Owner] # {request[c].user}
          BY <2>1, <2>2 DEF Refused
      <2> QED
          BY <1>4, <2>1, <2>3
  <1>7. CASE GotNested(c, answer) /\ ~Over(c)
      <2>1. answer = members
          BY <1>7, MembershipAssumption DEF GotNested, Key, Answer
      <2>2. /\ step[c] = "nested" /\ ~Invalid(c, members)
            /\ pc' = [pc EXCEPT ![c] = "write"]
            /\ tasks' = [tasks EXCEPT ![c] = Changes(c, members)]
            /\ UNCHANGED <<request, step>>
          BY <1>7, <2>1 DEF GotNested
      <2>3. /\ \A d \in Calls : d # c => pc'[d] = "idle" /\ tasks'[d] = {}
            /\ pc'[c] = "write" /\ tasks'[c] = Changes(c, members)
          BY <1>1, <2>2 DEF Inv, TypeOK
      <2>4. Checked(c)
          BY DEF Calm
      <2>5. Plan(c)'
          BY <2>2, <2>3, <2>4, ChangesKeepOwner
      <2>6. Checked(c)'
          BY <2>2, <2>4 DEF Checked
      <2> QED
          BY <1>2, <2>3, <2>5, <2>6 DEF OneAtWork, AnswersAreCurrent, Checked, Plan
  <1> QED
      BY <1>3, <1>5, <1>6, <1>7 DEF Got

LEMMA CalmRead ==
    ASSUME Inv, Calm, NEW c \in Calls,
           FromCache(c) \/ Fetch(c) \/ ToCache(c) \/ ReadFails(c)
    PROVE  Calm'
  <1>1. Key(c) \in Keys
      BY DEF Key, Keys, Inv, TypeOK, Shape, Requests
  <1>2. ASSUME UNCHANGED <<cache, members, drops>>
        PROVE  CacheFollows => CacheFollows'
      BY <1>2, AnswerFollows DEF CacheFollows
  <1>3. CASE FromCache(c) /\ cache[Key(c)] = None
      BY <1>2, <1>3
      DEF FromCache, Calm, OneAtWork, AnswersAreCurrent, Checked, Plan, cacheVars,
          readVars, writeVars, Inv, TypeOK, Key
  <1>4. CASE FromCache(c) /\ cache[Key(c)] # None
      BY <1>1, <1>4, ReaderIsAlone, CalmGot DEF FromCache, cacheVars
  <1>5. CASE Fetch(c)
      <2>1. /\ \A k : Answer(k)' = Answer(k)
            /\ \A d \in Calls : Key(d)' = Key(d)
          BY <1>5, AnswerFollows DEF Fetch, cacheVars, Key
      <2> QED
          BY <1>2, <1>5, <2>1
          DEF Fetch, Calm, OneAtWork, AnswersAreCurrent, Checked, Plan, cacheVars,
              writeVars, Inv, TypeOK
  <1>6. CASE ToCache(c)
      <2>1. ~disturbed => fetched[c] = Answer(Key(c))
          BY <1>6 DEF ToCache, Calm, AnswersAreCurrent
      <2>2. ~disturbed => \A k \in Keys : cache'[k] \in {None, Answer(k)}
          BY <1>1, <1>6, <2>1, ReaderIsAlone DEF ToCache, Inv, TypeOK
      <2> QED
          BY <1>6, <2>1, <2>2, CalmGot DEF ToCache
  <1>7. CASE ReadFails(c)
      BY <1>7, ReaderIsAlone, CalmGot DEF ReadFails, cacheVars
  <1> QED
      BY <1>3, <1>4, <1>5, <1>6, <1>7

\* What a change of a group does to the owners and to what is planned next.
LEMMA ApplyKeepsPlan ==
    ASSUME Inv, NEW c \in Calls, NEW t \in tasks[c], Plan(c), InTurn(c, t),
           Apply(t), tasks'[c] \subseteq tasks[c] \ {t}, request'[c] = request[c],
           Checked(c), pc[c] = "write", step'[c] = step[c]
    PROVE  Plan(c)' /\ Checked(c)'
  <1> DEFINE r == request[c]
  <1>1. /\ members'[Owner] = IF t.group # Owner THEN members[Owner]
                             ELSE IF t.add THEN members[Owner] \cup t.users
                             ELSE members[Owner] \ t.users
        /\ tasks[c] \subseteq Tasks
      BY MembershipAssumption DEF Apply, Inv, TypeOK
  <1>2. CASE r.op = "update"
      <2>1. members'[Owner] = members[Owner]
          BY <1>1, <1>2 DEF Plan
      <2> QED
          BY <1>2, <2>1 DEF Plan, Checked
  <1>3. CASE r.op \in {"leave", "delete", "remove"}
      <2>1. ~t.add /\ t.users = {r.user}
          BY <1>3 DEF Plan
      <2>2. members[Owner] # {r.user} => members'[Owner] # {r.user}
          BY <1>1, <2>1
      <2>3. \A s \in tasks'[c] : s.group = Owner => members'[Owner] # {r.user}
          BY <1>3, <2>2 DEF Plan
      <2> QED
          BY <1>3, <2>2, <2>3 DEF Plan, Checked
  <1>4. CASE r.op = "owners"
      <2>1. t.group = Owner
          BY <1>4 DEF Plan
      <2>2. r.owners \subseteq members'[Owner]
          BY <1>1, <1>4, <2>1 DEF Plan, InTurn
      <2> QED
          BY <1>4, <2>2 DEF Plan, Checked
  <1>5. CASE r.op = "read"
      BY <1>5 DEF Plan, Checked
  <1> QED
      BY <1>2, <1>3, <1>4, <1>5 DEF Inv, TypeOK, Requests, Ops

\* A handler that has less to change: the others are idle.
LEMMA CalmLeft ==
    ASSUME Inv, Calm, ~disturbed, NEW c \in Calls, pc[c] = "write",
           NEW T, NEW D, Left(c, T, D), CacheFollows',
           T \cup D # {} => Plan(c)' /\ Checked(c)'
    PROVE  Calm'
  <1>1. \A d \in Calls : d # c => pc[d] = "idle" /\ tasks[d] = {}
      BY DEF Calm, OneAtWork, Inv, Shape
  <1>2. tasks'[c] = T /\ \A d \in Calls : d # c => tasks'[d] = {}
      BY <1>1 DEF Left, Inv, TypeOK
  <1>3. CASE T \cup D = {}
      <2>1. \A d \in Calls : pc'[d] = "idle" /\ tasks'[d] = {}
          BY <1>1, <1>2, <1>3 DEF Left, Inv, TypeOK
      <2> QED
          BY <2>1 DEF Calm, OneAtWork, AnswersAreCurrent, Checked, Plan
  <1>4. CASE T \cup D # {}
      <2>1. UNCHANGED <<pc, request, readVars>>
          BY <1>4 DEF Left
      <2>2. \A d \in Calls : pc'[d] # "set"
          BY <1>1, <2>1
      <2>3. \A d \in Calls : Checked(d)' /\ Plan(d)'
          BY <1>1, <1>2, <1>4, <2>1 DEF Checked, Plan
      <2> QED
          BY <2>1, <2>2, <2>3 DEF Calm, OneAtWork, AnswersAreCurrent
  <1> QED
      BY <1>3, <1>4

\* A change makes stale only the keys that are removed after it.
LEMMA StaleCovers ==
    ASSUME Inv, NEW t \in Tasks, Apply(t)
    PROVE  \A k \in Keys \ Stale(t) : Answer(k)' = Answer(k)
  <1> SUFFICES ASSUME NEW k \in Keys \ Stale(t)
               PROVE  Answer(k)' = Answer(k)
      OBVIOUS
  <1>1. k # Primary /\ k \notin t.users
      BY DEF Stale
  <1>2. \A g \in Groups : k \in members'[g] <=> k \in members[g]
      BY <1>1 DEF Apply, Inv, TypeOK, Tasks
  <1> QED
      BY <1>1, <1>2 DEF Answer, GroupsOf

LEMMA CalmWrite ==
    ASSUME Inv, Calm, NEW c \in Calls,
           \/ \E t \in tasks[c] : ChangeGroup(c, t) \/ ChangeFails(c, t)
           \/ \E d \in drops[c] : RemoveCache(c, d) \/ RemoveCacheFails(c, d)
    PROVE  Calm'
  <1> SUFFICES ASSUME ~disturbed'
               PROVE  Calm'
      BY DEF Calm
  <1>1. pc[c] = "write" /\ ~disturbed /\ tasks[c] \subseteq Tasks
      BY DEF ChangeGroup, ChangeFails, RemoveCache, RemoveCacheFails, Inv, TypeOK
  <1>2. CacheFollows /\ Plan(c) /\ Checked(c)
      BY <1>1 DEF Calm
  <1>3. \A d \in Calls : d # c => drops[d] = {}
      BY <1>1 DEF Calm, OneAtWork, Inv, Shape
  <1>4. ASSUME NEW t \in tasks[c], ChangeGroup(c, t) PROVE Calm'
      <2> DEFINE T == tasks[c] \ {t}
                 D == drops[c] \cup {<<t.group, Stale(t)>>}
      <2>1. Left(c, T, D) /\ Apply(t) /\ InTurn(c, t) /\ UNCHANGED cache
          BY <1>4 DEF ChangeGroup
      <2>2. tasks'[c] = T /\ drops'[c] = D
          BY <2>1 DEF Left, Inv, TypeOK
      <2>3. CacheFollows'
          <3> SUFFICES ASSUME NEW k \in Keys
                       PROVE  \/ cache'[k] \in {None, Answer(k)'}
                              \/ \E e \in Calls : \E d \in drops'[e] : k \in d[2]
              BY DEF CacheFollows
          <3>1. CASE k \in Stale(t)
              <4> DEFINE new == <<t.group, Stale(t)>>
              <4>1. new \in drops'[c] /\ k \in new[2]
                  BY <2>2, <3>1
              <4> QED
                  BY <4>1
          <3>2. CASE k \notin Stale(t)
              <4>1. Answer(k)' = Answer(k)
                  BY <1>1, <2>1, <3>2, StaleCovers
              <4>2. CASE cache[k] \in {None, Answer(k)}
                  BY <2>1, <4>1, <4>2
              <4>3. CASE \E e \in Calls : \E d \in drops[e] : k \in d[2]
                  BY <1>3, <2>2, <4>3
              <4> QED
                  BY <1>2, <4>2, <4>3 DEF CacheFollows
          <3> QED
              BY <3>1, <3>2
      <2>4. Plan(c)' /\ Checked(c)'
          <3>1. UNCHANGED <<request, step>>
              BY <2>1 DEF Left, readVars
          <3> QED
              BY <1>1, <1>2, <2>1, <2>2, <3>1, ApplyKeepsPlan
      <2> HIDE DEF T, D
      <2> QED
          BY <1>1, <2>1, <2>3, <2>4, CalmLeft
  <1>5. ASSUME UNCHANGED members, NEW T \in SUBSET tasks[c], NEW D,
               Left(c, T, D), T \cup D # {},
               request[c].op = "owners" => T \in {{}, tasks[c]} 
        PROVE  Plan(c)' /\ Checked(c)'
      <2>1. UNCHANGED <<request, step, pc>> /\ tasks'[c] = T
          BY <1>5 DEF Left, readVars, Inv, TypeOK
      <2>2. Checked(c)'
          BY <1>2, <1>5, <2>1 DEF Checked
      <2>3. CASE request[c].op = "owners"
          <3>1. CASE T = {}
              BY <2>1, <2>2, <2>3, <3>1 DEF Plan
          <3>2. CASE T = tasks[c]
              BY <1>2, <1>5, <2>1, <2>2, <2>3, <3>2 DEF Plan
          <3> QED
              BY <1>5, <2>3, <3>1, <3>2
      <2>4. CASE request[c].op # "owners"
          BY <1>2, <1>5, <2>1, <2>2, <2>4 DEF Plan
      <2> QED
          BY <2>3, <2>4
  <1>6. ASSUME NEW t \in tasks[c], ChangeFails(c, t) PROVE Calm'
      <2> DEFINE T == LeftOver(c, tasks[c] \ {t})
      <2>1. Left(c, T, drops[c]) /\ UNCHANGED <<members, cache>>
          BY <1>1, <1>6 DEF ChangeFails
      <2>2. T \in SUBSET tasks[c] /\ (request[c].op = "owners" => T = {})
          BY DEF LeftOver
      <2>3. drops' = drops
          BY <2>1 DEF Left, Inv, TypeOK
      <2>4. CacheFollows'
          BY <1>2, <2>1, <2>3, AnswerFollows DEF CacheFollows
      <2>5. T \cup drops[c] # {} => Plan(c)' /\ Checked(c)'
          BY <1>5, <2>1, <2>2
      <2> HIDE DEF T
      <2> QED
          BY <1>1, <2>1, <2>4, <2>5, CalmLeft
  <1>7. ASSUME NEW d \in drops[c], RemoveCache(c, d) PROVE Calm'
      <2>1. /\ Left(c, tasks[c], drops[c] \ {d}) /\ UNCHANGED members
            /\ cache' = Without(d[2])
          BY <1>7 DEF RemoveCache
      <2>2. drops'[c] = drops[c] \ {d}
          BY <2>1 DEF Left, Inv, TypeOK
      <2>3. CacheFollows'
          <3> SUFFICES ASSUME NEW k \in Keys
                       PROVE  \/ cache'[k] \in {None, Answer(k)'}
                              \/ \E e \in Calls : \E x \in drops'[e] : k \in x[2]
              BY DEF CacheFollows
          <3>1. Answer(k)' = Answer(k)
              BY <2>1, AnswerFollows
          <3>2. cache'[k] = IF k \in d[2] THEN None ELSE cache[k]
              BY <2>1 DEF Without
          <3>3. CASE cache[k] \in {None, Answer(k)}
              BY <3>1, <3>2, <3>3
          <3>4. CASE \E e \in Calls : \E x \in drops[e] : k \in x[2]
              BY <1>3, <2>2, <3>2, <3>4
          <3> QED
              BY <1>2, <3>3, <3>4 DEF CacheFollows
      <2>4. tasks[c] \cup (drops[c] \ {d}) # {} => Plan(c)' /\ Checked(c)'
          BY <1>5, <2>1
      <2> QED
          BY <1>1, <2>1, <2>3, <2>4, CalmLeft
  <1> QED
      BY <1>4, <1>6, <1>7 DEF RemoveCacheFails

LEMMA CalmExpire ==
    ASSUME Inv, Calm, NEW k \in Keys, Expire(k)
    PROVE  Calm'
  <1> USE DEF Expire, readVars, writeVars
  <1>1. \A j : Answer(j)' = Answer(j)
      BY AnswerFollows
  <1>2. CASE ~disturbed
      <2>1. \A j \in Keys : cache'[j] \in {None, cache[j]}
          BY DEF Inv, TypeOK
      <2>2. \A c \in Calls : Key(c)' = Key(c)
          BY DEF Key
      <2> QED
          BY <1>1, <1>2, <2>1, <2>2
          DEF Calm, OneAtWork, CacheFollows, AnswersAreCurrent, Checked, Plan
  <1>3. CASE disturbed /\ ~disturbed'
      <2>1. Idle /\ \A j \in Keys : cache'[j] = None
          BY <1>3
      <2>2. \A c \in Calls : tasks[c] = {}
          BY <2>1 DEF Idle, Inv, Shape
      <2> QED
          BY <2>1, <2>2
          DEF Idle, Calm, OneAtWork, CacheFollows, AnswersAreCurrent, Checked, Plan
  <1> QED
      BY <1>2, <1>3 DEF Calm

LEMMA CalmAsks ==
    ASSUME Inv, Calm, NEW c \in Calls, Asks(c)
    PROVE  Calm'
  <1>1. NoRequest.op = "read"
      BY DEF NoRequest
  <1>2. ASSUME NEW k \in Keys, Read(c, k) PROVE Calm'
      <2>1. CASE k = Primary
          BY <1>1, <1>2, <2>1, CalmStart DEF Read
      <2>2. CASE k # Primary
          <3> DEFINE r == [NoRequest EXCEPT !.user = k]
          <3>1. r.op = "read" /\ Start(c, r, "membership")
              BY <1>2, <2>2 DEF Read, NoRequest
          <3> HIDE DEF r
          <3> QED
              BY <3>1, CalmStart
      <2> QED
          BY <2>1, <2>2
  <1>3. ASSUME NEW u \in Users, LeaveOrganizations(c, u) PROVE Calm'
      <2> DEFINE r == [NoRequest EXCEPT !.op = "leave", !.user = u]
      <2>1. r.op = "leave" /\ Start(c, r, "membership")
          BY <1>3 DEF LeaveOrganizations, NoRequest
      <2> HIDE DEF r
      <2> QED
          BY <2>1, CalmStart
  <1>4. ASSUME NEW u \in Users, DeleteAccount(c, u) PROVE Calm'
      <2> DEFINE r == [NoRequest EXCEPT !.op = "delete", !.user = u]
      <2>1. r.op = "delete" /\ Start(c, r, "membership")
          BY <1>4 DEF DeleteAccount, NoRequest
      <2> HIDE DEF r
      <2> QED
          BY <2>1, CalmStart
  <1>5. ASSUME NEW r, Start(c, r, "check") PROVE Calm'
      BY <1>5, CalmStart
  <1>6. ASSUME NEW O \in SUBSET Users, ReplaceOwners(c, O) PROVE Calm'
      <2> DEFINE r == [NoRequest EXCEPT !.op = "owners", !.owners = O]
      <2>1. r.op = "owners" /\ Start(c, r, "nested")
          BY <1>6 DEF ReplaceOwners, NoRequest
      <2> HIDE DEF r
      <2> QED
          BY <2>1, CalmStart
  <1> QED
      BY <1>2, <1>3, <1>4, <1>5, <1>6 DEF Asks, RemoveUser, UpdateUser

LEMMA CalmNext ==
    ASSUME Inv, Calm, [Next]_vars
    PROVE  Calm'
  <1>1. CASE UNCHANGED vars
      <2> USE <1>1 DEF vars, cacheVars, readVars, writeVars
      <2>1. \A c \in Calls : Key(c)' = Key(c)
          BY DEF Key
      <2> QED
          BY <2>1, AnswerFollows
          DEF Calm, OneAtWork, CacheFollows, AnswersAreCurrent, Checked, Plan
  <1>2. ASSUME NEW c \in Calls, CallStep(c) PROVE Calm'
      BY <1>2, CalmRead, CalmWrite DEF CallStep
  <1> QED
      BY <1>1, <1>2, CalmAsks, CalmExpire DEF Next

LEMMA SpecCalm == Spec => [](Inv /\ Calm)
  <1>1. Init => Inv /\ Calm
      BY InitInv, CalmInit
  <1>2. Inv /\ Calm /\ [Next]_vars => (Inv /\ Calm)'
      BY NextInv, CalmNext
  <1> QED
      BY <1>1, <1>2, PTL DEF Spec

\* Where handlers came one after the other and no call failed since the cache
\* was last empty, a key at rest holds what the service answers: a key that a
\* change makes stale is among those the handler has yet to remove, and only a
\* handler at work has any.
THEOREM RestingCacheIsCurrent == Spec => []CacheIsCurrent
  <1>1. Inv /\ Calm => CacheIsCurrent
      BY DEF Inv, Calm, Idle, Shape, CacheFollows, CacheIsCurrent
  <1> QED
      BY <1>1, SpecCalm, PTL

\* Under the same conditions the last owner stays, in the middle of a
\* replacement too, unless an empty list of owners is asked for: what a handler
\* has checked still holds when it acts, and Plan says what that leaves.
THEOREM LastOwnerRemains == Spec => OwnerRemains
  <1> DEFINE Step == /\ ~disturbed /\ members[Owner] # {}
                     /\ \A c \in Calls : request[c].op = "owners" => request[c].owners # {}
                     => members'[Owner] # {}
  <1>1. ASSUME Inv, Calm, [Next]_vars, ~disturbed, members[Owner] # {},
               \A c \in Calls : request[c].op = "owners" => request[c].owners # {},
               members'[Owner] = {}
        PROVE  FALSE
      <2>1. PICK c \in Calls : \E t \in tasks[c] :
                (ChangeGroup(c, t) \/ ChangeFails(c, t)) /\ Apply(t)
          BY <1>1, MembersChange DEF vars, cacheVars
      <2>2. PICK t \in tasks[c] : Apply(t) /\ InTurn(c, t)
          BY <2>1 DEF ChangeGroup, ChangeFails
      <2>3. t.group = Owner /\ ~t.add /\ members[Owner] \subseteq t.users
          BY <1>1, <2>2, MembershipAssumption DEF Apply, Inv, TypeOK
      <2>4. Plan(c) /\ Checked(c)
          BY <1>1 DEF Calm
      <2>5. CASE request[c].op = "owners"
          <3>1. request[c].owners \subseteq members[Owner]
              BY <2>2, <2>3, <2>4, <2>5 DEF Plan, InTurn
          <3>2. t.users \cap request[c].owners = {}
              BY <2>3, <2>4, <2>5 DEF Plan
          <3> QED
              BY <1>1, <2>3, <2>5, <3>1, <3>2
      <2>6. CASE request[c].op \in {"leave", "delete", "remove"}
          BY <1>1, <2>3, <2>4, <2>6 DEF Plan
      <2>7. CASE request[c].op = "update"
          BY <2>3, <2>4, <2>7 DEF Plan
      <2>8. CASE request[c].op = "read"
          BY <2>2, <2>4, <2>8 DEF Plan, Checked
      <2> QED
          BY <1>1, <2>5, <2>6, <2>7, <2>8 DEF Inv, TypeOK, Requests, Ops
  <1>2. Inv /\ Calm /\ [Next]_vars => [Step]_vars
      BY <1>1
  <1> QED
      BY <1>2, SpecCalm, PTL DEF Spec, OwnerRemains

-----------------------------------------------------------------------------
(* Handlers that race.                                                     *)

\* An answer that is about to be stored is the service's own, or known to be late.
LateAnswersAreKnown ==
    \A c \in Calls : pc[c] = "set" => fetched[c] = Answer(Key(c)) \/ c \in late

Raced == OnlyRacedKeysAreStale /\ LateAnswersAreKnown

\* A step is one of a handler's, and leaves the others as they were.
Alone(c) ==
    \A b \in Calls \ {c} : UNCHANGED <<pc[b], fetched[b], request[b], step[b], drops[b]>>

ToRemove(c, k) == \E d \in drops[c] : k \in d[2]

LEMMA RacedInit == Init => Raced
  BY DEF Init, Raced, OnlyRacedKeysAreStale, LateAnswersAreKnown

\* Who holds an answer when the service changes is marked as late.
LEMMA ReadersKeep ==
    ASSUME Inv, LateAnswersAreKnown, NEW c \in Calls, Alone(c),
           pc'[c] = "set" => fetched'[c] = Answer(Key(c))',
           \/ UNCHANGED members /\ late \ {c} \subseteq late'
           \/ \E t \in tasks[c] : Apply(t)
    PROVE  LateAnswersAreKnown'
  <1> SUFFICES ASSUME NEW b \in Calls, pc'[b] = "set", b # c
               PROVE  fetched'[b] = Answer(Key(b))' \/ b \in late'
      BY DEF LateAnswersAreKnown
  <1>1. PICK k \in Keys : k = Key(b)
      BY DEF Key, Keys, Inv, TypeOK, Shape, Requests
  <1>2. pc[b] = "set" /\ fetched'[b] = fetched[b] /\ Key(b)' = k
      BY <1>1 DEF Alone, Key
  <1>3. Answer(Key(b))' = Answer(k)'
      BY <1>2 DEF Answer, GroupsOf
  <1>4. fetched[b] = Answer(k) \/ b \in late
      BY <1>1, <1>2 DEF LateAnswersAreKnown
  <1>5. CASE b \in late
      BY <1>5 DEF Apply
  <1>6. CASE fetched[b] = Answer(k)
      <2>1. CASE UNCHANGED members
          <3>1. Answer(k)' = Answer(k)
              BY <2>1 DEF Answer, GroupsOf
          <3> QED
              BY <1>2, <1>3, <1>6, <3>1
      <2>2. CASE \E t \in tasks[c] : Apply(t)
          BY <1>1, <1>2, <1>3, <1>6, <2>2 DEF Apply, Changed
      <2> QED
          BY <2>1, <2>2
  <1> QED
      BY <1>4, <1>5, <1>6

\* A key is as it was, or what it becomes is accounted for.
LEMMA KeysKeep ==
    ASSUME OnlyRacedKeysAreStale, NEW c \in Calls, Alone(c),
           \A k \in Keys :
              \/ cache'[k] \in {None, Answer(k)'}
              \/ k \in raced'
              \/ ToRemove(c, k)'
              \/ /\ cache'[k] = cache[k] /\ Answer(k)' = Answer(k)
                 /\ k \notin raced /\ ~ToRemove(c, k)
    PROVE  OnlyRacedKeysAreStale'
  <1> SUFFICES ASSUME NEW k \in Keys,
                      cache'[k] \notin {None, Answer(k)'}, k \notin raced', ~ToRemove(c, k)'
               PROVE  \E b \in Calls : \E d \in drops'[b] : k \in d[2]
      BY DEF OnlyRacedKeysAreStale, ToRemove
  <1>1. cache[k] \notin {None, Answer(k)} /\ k \notin raced /\ ~ToRemove(c, k)
      OBVIOUS
  <1>2. PICK b \in Calls : \E d \in drops[b] : k \in d[2]
      BY <1>1 DEF OnlyRacedKeysAreStale
  <1>3. b # c
      BY <1>1, <1>2 DEF ToRemove
  <1> QED
      BY <1>2, <1>3 DEF Alone

LEMMA GotAlone ==
    ASSUME Inv, NEW c \in Calls, NEW answer, Got(c, answer) \/ Over(c)
    PROVE  Alone(c) /\ drops' = drops /\ pc'[c] # "set"
  BY DEF Got, GotMembership, GotCheck, GotNested, Over, Continue, Forget, writeVars,
         Alone, Inv, TypeOK

\* Reading.
LEMMA RacedRead ==
    ASSUME Inv, Raced, NEW c \in Calls,
           FromCache(c) \/ Fetch(c) \/ ToCache(c) \/ ReadFails(c)
    PROVE  Raced'
  <1>1. Alone(c) /\ drops' = drops /\ members' = members /\ late \ {c} \subseteq late'
      <2>1. CASE Fetch(c) \/ (FromCache(c) /\ cache[Key(c)] = None)
          BY <2>1 DEF Fetch, FromCache, Alone, cacheVars, readVars, writeVars, Inv, TypeOK
      <2>2. CASE ReadFails(c) \/ (FromCache(c) /\ cache[Key(c)] # None)
          BY <2>2, GotAlone DEF ReadFails, FromCache, cacheVars
      <2>3. CASE ToCache(c)
          BY <2>3, GotAlone DEF ToCache
      <2> QED
          BY <2>1, <2>2, <2>3
  <1>2. \A k : Answer(k)' = Answer(k)
      BY <1>1, AnswerFollows
  <1>3. pc'[c] = "set" => fetched'[c] = Answer(Key(c))'
      <2>1. CASE Fetch(c)
          <3>1. Answer(Key(c))' = Answer(Key(c))
              BY <2>1, <1>1 DEF Fetch, Answer, GroupsOf, Key
          <3> QED
              BY <2>1, <3>1 DEF Fetch, Inv, TypeOK
      <2>2. CASE FromCache(c) /\ cache[Key(c)] = None
          BY <2>2 DEF FromCache, Inv, TypeOK
      <2>3. CASE ToCache(c) \/ ReadFails(c) \/ (FromCache(c) /\ cache[Key(c)] # None)
          BY <2>3, GotAlone DEF ToCache, ReadFails, FromCache
      <2> QED
          BY <2>1, <2>2, <2>3
  <1>4. LateAnswersAreKnown'
      BY <1>1, <1>3, ReadersKeep DEF Raced
  <1>5. OnlyRacedKeysAreStale'
      <2>1. ASSUME NEW k \in Keys
            PROVE  \/ cache'[k] \in {None, Answer(k)'} \/ k \in raced'
                   \/ ToRemove(c, k)'
                   \/ /\ cache'[k] = cache[k] /\ Answer(k)' = Answer(k)
                      /\ k \notin raced /\ ~ToRemove(c, k)
          <3>1. ToRemove(c, k)' <=> ToRemove(c, k)
              BY <1>1 DEF ToRemove
          <3>2. CASE ToCache(c) /\ k = Key(c)
              <4>1. cache'[k] = fetched[c]
                  BY <3>2 DEF ToCache, Inv, TypeOK
              <4>2. fetched[c] = Answer(k) \/ c \in late
                  BY <3>2 DEF ToCache, Raced, LateAnswersAreKnown
              <4> QED
                  BY <1>2, <3>2, <4>1, <4>2 DEF ToCache
          <3>3. CASE ToCache(c) /\ k # Key(c)
              BY <1>2, <3>1, <3>3 DEF ToCache, Inv, TypeOK
          <3>4. CASE ~ToCache(c)
              <4>1. cache' = cache /\ raced' = raced
                  BY <3>4 DEF FromCache, Fetch, ReadFails, cacheVars
              <4> QED
                  BY <1>2, <3>1, <4>1
          <3> QED
              BY <3>2, <3>3, <3>4
      <2> QED
          BY <1>1, <2>1, KeysKeep DEF Raced
  <1> QED
      BY <1>4, <1>5 DEF Raced

LEMMA LeftAlone ==
    ASSUME Inv, NEW c \in Calls, NEW T, NEW D, Left(c, T, D), pc[c] = "write"
    PROVE  Alone(c) /\ drops'[c] = D /\ pc'[c] # "set"
  BY DEF Left, Forget, readVars, Alone, Inv, TypeOK

\* Changing.
LEMMA RacedWrite ==
    ASSUME Inv, Raced, NEW c \in Calls,
           \/ \E t \in tasks[c] : ChangeGroup(c, t) \/ ChangeFails(c, t)
           \/ \E d \in drops[c] : RemoveCache(c, d) \/ RemoveCacheFails(c, d)
    PROVE  Raced'
  <1> DEFINE Fine(k) ==
                \/ cache'[k] \in {None, Answer(k)'} \/ k \in raced' \/ ToRemove(c, k)'
                \/ /\ cache'[k] = cache[k] /\ Answer(k)' = Answer(k)
                   /\ k \notin raced /\ ~ToRemove(c, k)
  <1>1. \A k : (UNCHANGED members) => Answer(k)' = Answer(k)
      BY DEF Answer, GroupsOf
  <1>2. Alone(c) /\ pc'[c] # "set"
      BY LeftAlone DEF ChangeGroup, ChangeFails, RemoveCache, RemoveCacheFails
  <1>3. \/ UNCHANGED <<members, late>>
        \/ \E t \in tasks[c] : Apply(t)
      BY DEF ChangeGroup, ChangeFails, RemoveCache, RemoveCacheFails
  <1>4. LateAnswersAreKnown'
      BY <1>2, <1>3, ReadersKeep DEF Raced
  <1>5. ASSUME NEW k \in Keys PROVE Fine(k)
      <2>1. ASSUME NEW t \in tasks[c], ChangeGroup(c, t) PROVE Fine(k)
          <3>1. drops'[c] = drops[c] \cup {<<t.group, Stale(t)>>}
              BY <2>1, LeftAlone DEF ChangeGroup
          <3>2. CASE k \in Stale(t)
              <4>1. <<t.group, Stale(t)>> \in drops'[c]
                  BY <3>1
              <4> QED
                  BY <3>2, <4>1 DEF ToRemove
          <3>3. CASE k \notin Stale(t)
              <4>1. Answer(k)' = Answer(k)
                  BY <2>1, <3>3, StaleCovers DEF ChangeGroup, Inv, TypeOK
              <4> QED
                  BY <2>1, <3>1, <4>1 DEF ToRemove, ChangeGroup
          <3> QED
              BY <3>2, <3>3
      <2>2. ASSUME NEW t \in tasks[c], ChangeFails(c, t) PROVE Fine(k)
          <3>1. drops'[c] = drops[c] /\ cache' = cache /\ raced \subseteq raced'
              BY <2>2, LeftAlone DEF ChangeFails
          <3>2. Answer(k)' = Answer(k) \/ cache[k] = None \/ k \in raced'
              BY <1>1, <2>2 DEF ChangeFails, Cached, Changed
          <3> QED
              BY <3>1, <3>2 DEF ToRemove
      <2>3. ASSUME NEW d \in drops[c], RemoveCache(c, d) PROVE Fine(k)
          <3>1. drops'[c] = drops[c] \ {d} /\ members' = members
              BY <2>3, LeftAlone DEF RemoveCache
          <3>2. CASE k \in d[2]
              BY <2>3, <3>2 DEF RemoveCache, Without
          <3>3. CASE k \notin d[2]
              BY <1>1, <2>3, <3>1, <3>3 DEF RemoveCache, Without, ToRemove
          <3> QED
              BY <3>2, <3>3
      <2>4. ASSUME NEW d \in drops[c], RemoveCacheFails(c, d) PROVE Fine(k)
          <3>1. drops'[c] = drops[c] \ {d} /\ members' = members
              BY <2>4, LeftAlone DEF RemoveCacheFails
          <3>2. PICK K \in SUBSET d[2] :
                   cache' = Without(K) /\ raced' = (raced \ K) \cup Cached(d[2] \ K)
              BY <2>4 DEF RemoveCacheFails
          <3>3. CASE k \in d[2]
              BY <3>2, <3>3 DEF Without, Cached
          <3>4. CASE k \notin d[2]
              BY <1>1, <3>1, <3>2, <3>4 DEF Without, ToRemove
          <3> QED
              BY <3>3, <3>4
      <2> QED
          BY <2>1, <2>2, <2>3, <2>4
  <1>6. OnlyRacedKeysAreStale'
      BY <1>2, <1>5, KeysKeep DEF Raced
  <1> QED
      BY <1>4, <1>6 DEF Raced

LEMMA RacedNext ==
    ASSUME Inv, Raced, [Next]_vars
    PROVE  Raced'
  <1>1. ASSUME NEW c \in Calls, Asks(c) PROVE Raced'
      <2>1. \E r, first : Start(c, r, first)
          BY <1>1 DEF Asks, Read, LeaveOrganizations, DeleteAccount, UpdateUser, RemoveUser,
                      ReplaceOwners
      <2>2. /\ Alone(c) /\ pc'[c] # "set"
            /\ UNCHANGED <<members, cache, drops, late, raced>>
          BY <2>1 DEF Start, Alone, cacheVars, writeVars, Inv, TypeOK
      <2>3. \A k : Answer(k)' = Answer(k)
          BY <2>2 DEF Answer, GroupsOf
      <2>4. LateAnswersAreKnown'
          BY <2>2, ReadersKeep DEF Raced
      <2> QED
          BY <2>2, <2>3, <2>4 DEF Raced, OnlyRacedKeysAreStale
  <1>2. ASSUME NEW k \in Keys, Expire(k) PROVE Raced'
      <2>1. \A j : Answer(j)' = Answer(j) /\ \A c \in Calls : Answer(Key(c))' = Answer(Key(c))
          BY <1>2 DEF Expire, Answer, GroupsOf, Key, readVars
      <2>2. \A j \in Keys : IF j = k THEN cache'[j] = None
                            ELSE cache'[j] = cache[j] /\ (j \in raced => j \in raced')
          BY <1>2 DEF Expire, Inv, TypeOK
      <2> QED
          BY <1>2, <2>1, <2>2
             DEF Expire, Raced, OnlyRacedKeysAreStale, LateAnswersAreKnown, readVars, writeVars
  <1>3. CASE UNCHANGED vars
      <2>1. \A j : Answer(j)' = Answer(j) /\ \A c \in Calls : Answer(Key(c))' = Answer(Key(c))
          BY <1>3 DEF vars, cacheVars, Answer, GroupsOf, Key, readVars
      <2> QED
          BY <1>3, <2>1
             DEF vars, cacheVars, readVars, writeVars, Raced, OnlyRacedKeysAreStale,
                 LateAnswersAreKnown
  <1> QED
      BY <1>1, <1>2, <1>3, RacedRead, RacedWrite DEF Next, CallStep

\* However many handlers overlap, and whatever calls fail, a stale key in the cache is
\* one that a handler is about to remove, or that somebody raced for, or that a failed
\* call has left there.
THEOREM RacesMakeStale == Spec => []OnlyRacedKeysAreStale
  <1>1. Inv /\ Raced /\ [Next]_vars => (Inv /\ Raced)'
      BY NextInv, RacedNext
  <1>2. Inv /\ Raced => OnlyRacedKeysAreStale
      BY DEF Raced
  <1> QED
      BY <1>1, <1>2, InitInv, RacedInit, PTL DEF Spec
=============================================================================
