------------------------ MODULE MetricVersionsProofs ------------------------
(***************************************************************************)
(* Proofs about MetricVersions, for any sets of deliveries, removal tasks, *)
(* locations and slugs, finite or not: type correctness, the two           *)
(* invariants that hold however the handlers overlap and fail, and the two *)
(* that hold where the handlers of a metric come one after the other.      *)
(***************************************************************************)
EXTENDS MetricVersions, TLAPS

-----------------------------------------------------------------------------
(* Type correctness.  The keys in the history are those of metrics that    *)
(* have been delivered, so the types rest on two further invariants: a     *)
(* handler that has started knows its metric, and nothing mentions the     *)
(* document of a handler that has not inserted it.                         *)

Inserted == {"find", "delete", "link", "done", "partial"}

DeliveredIsKeyed ==
    \A s \in Saves : pc[s] # "idle" => Key(s) \in Keys

MentionedIsInserted ==
    \A s \in Saves : pc[s] \notin Inserted =>
        /\ s \notin store
        /\ \A l \in Locations : s \notin refs[l] /\ s \notin loaded[l]
        /\ \A x \in Saves : s \notin ids[x]
        /\ \A r \in Removals : s # target[r]

TypeInv == TypeOK /\ DeliveredIsKeyed /\ MentionedIsInserted

LEMMA InitTypeOK == Init => TypeOK
BY DEF Init, TypeOK, SavePC, RemovalPC, DeletePC, Keys

\* The history only ever records metrics.
LEMMA StartOnTypeOK ==
    ASSUME TypeOK, NEW K \in SUBSET Keys, StartOn(K)
    PROVE  overlapped' \subseteq Keys
BY DEF TypeOK, StartOn

\* Each step of the handler of a delivery keeps the types.
LEMMA SaveTypeOK ==
    ASSUME TypeOK, NEW s \in Saves, SaveStep(s) \/ SaveFails(s)
    PROVE  TypeOK'
<1>1. CASE IncVersion(s)
  <2>1. version' \in [Saves -> Nat]
    BY <1>1 DEF TypeOK, IncVersion, VersionsOf
  <2>2. pc' \in [Saves -> SavePC]
    BY <1>1 DEF TypeOK, IncVersion, SaveMoves, SavePC
  <2> QED
    BY <1>1, <2>1, <2>2 DEF TypeOK, IncVersion, removalVars, deleteVars
<1>2. CASE Insert(s)
  <2>1. pc' \in [Saves -> SavePC]
    BY <1>2 DEF TypeOK, Insert, SaveMoves, SavePC
  <2> QED
    BY <1>2, <2>1 DEF TypeOK, Insert, removalVars, deleteVars
<1>3. CASE FindOthers(s)
  <2>1. pc' \in [Saves -> SavePC]
    BY <1>3 DEF TypeOK, FindOthers, SaveMoves, SavePC
  <2>2. OtherVersions(s) \in SUBSET Saves
    BY DEF TypeOK, OtherVersions, VersionsOf
  <2> QED
    BY <1>3, <2>1, <2>2 DEF TypeOK, FindOthers, dbVars, removalVars, deleteVars
<1>4. CASE DeleteOthers(s)
  <2>1. pc' \in [Saves -> SavePC]
    BY <1>4 DEF TypeOK, DeleteOthers, SaveMoves, SavePC
  <2> QED
    BY <1>4, <2>1 DEF TypeOK, DeleteOthers, removalVars, deleteVars
<1>5. CASE AddRef(s)
  <2>1. refs' \in [Locations -> SUBSET Saves]
    BY <1>5 DEF TypeOK, AddRef, UpdateRefs
  <2>2. pc' \in [Saves -> SavePC]
    BY <1>5 DEF TypeOK, AddRef, UpdateRefs, SaveMoves, SavePC
  <2> QED
    BY <1>5, <2>1, <2>2
    DEF TypeOK, AddRef, UpdateRefs, removalVars, deleteVars
<1>6. CASE PullRefs(s)
  <2>1. refs' \in [Locations -> SUBSET Saves]
    BY <1>6 DEF TypeOK, PullRefs, UpdateRefs
  <2>2. pc' \in [Saves -> SavePC]
    BY <1>6 DEF TypeOK, PullRefs, UpdateRefs, SaveMoves, SavePC
  <2> QED
    BY <1>6, <2>1, <2>2
    DEF TypeOK, PullRefs, UpdateRefs, removalVars, deleteVars
<1>7. CASE SaveFails(s)
  BY <1>7 DEF TypeOK, SaveFails, SavePC, dbVars, removalVars, deleteVars
<1> QED BY <1>1, <1>2, <1>3, <1>4, <1>5, <1>6, <1>7 DEF SaveStep

\* So does the arrival of a message.
LEMMA DeliverTypeOK ==
    ASSUME TypeOK, NEW s \in Saves, NEW l \in Locations, NEW k \in Slugs,
           Deliver(s, l, k)
    PROVE  TypeOK'
<1>1. overlapped' \subseteq Keys
  BY StartOnTypeOK DEF Deliver, Keys
<1>2. pc' \in [Saves -> SavePC]
  BY DEF TypeOK, Deliver, SaveMoves, SavePC
<1> QED BY <1>1, <1>2 DEF TypeOK, Deliver, removalVars, deleteVars

\* So does each step of a removal task.
LEMMA RemovalTypeOK ==
    ASSUME TypeOK, NEW r \in Removals, RemovalStep(r) \/ RemovalFails(r)
    PROVE  TypeOK'
<1>1. ASSUME NEW to \in RemovalPC, TaskMoves(r, to)
      PROVE  rpc' \in [Removals -> RemovalPC]
             /\ target' \in [Removals -> Saves \cup {None}]
  BY <1>1 DEF TypeOK, TaskMoves
<1>2. CASE FindRemoved(r)
  BY <1>1, <1>2 DEF TypeOK, FindRemoved, RemovalPC, dbVars, saveVars, deleteVars
<1>3. CASE RemoveMetric(r)
  BY <1>1, <1>3 DEF TypeOK, RemoveMetric, RemovalPC, saveVars, deleteVars
<1>4. CASE Unlink(r)
  <2>1. refs' \in [Locations -> SUBSET Saves]
    BY <1>4 DEF TypeOK, Unlink
  <2> QED
    BY <1>1, <1>4, <2>1 DEF TypeOK, Unlink, RemovalPC, saveVars, deleteVars
<1>5. CASE RemovalFails(r)
  BY <1>1, <1>5 DEF TypeOK, RemovalFails, RemovalPC, dbVars, saveVars, deleteVars
<1> QED BY <1>2, <1>3, <1>4, <1>5 DEF RemovalStep

\* So does a request to remove one metric.
LEMMA RemoveOneTypeOK ==
    ASSUME TypeInv, NEW r \in Removals, NEW m \in Saves, RemoveOne(r, m)
    PROVE  TypeOK'
<1>1. Key(m) \in Keys
  BY DEF TypeInv, DeliveredIsKeyed, MentionedIsInserted, RemoveOne, Inserted
<1>2. overlapped' \subseteq Keys
  BY <1>1, StartOnTypeOK DEF TypeInv, RemoveOne
<1> QED
  BY <1>2 DEF TypeInv, TypeOK, RemoveOne, RemovalPC, dbVars, saveVars, deleteVars

\* So does a request to remove all the metrics that a location lists.
LEMMA RemoveAllTypeOK ==
    ASSUME TypeInv, NEW l \in Locations, NEW R \in SUBSET Removals,
           RemoveAll(l, R)
    PROVE  TypeOK'
<1>1. \A m \in refs[l] : m \in Saves /\ Key(m) \in Keys
  BY DEF TypeInv, TypeOK, DeliveredIsKeyed, MentionedIsInserted, Inserted
<1>2. overlapped' \subseteq Keys
  BY <1>1, StartOnTypeOK DEF TypeInv, RemoveAll
<1>3. target' \in [Removals -> Saves \cup {None}]
  BY <1>1 DEF TypeInv, TypeOK, RemoveAll
<1>4. rpc' \in [Removals -> RemovalPC]
  BY DEF TypeInv, TypeOK, RemoveAll, RemovalPC
<1> QED
  BY <1>2, <1>3, <1>4 DEF TypeInv, TypeOK, RemoveAll, dbVars, saveVars, deleteVars

\* So does each step of the deletion of a location.
LEMMA DeleteTypeOK ==
    ASSUME TypeOK, NEW l \in Locations,
           DeleteLocation(l) \/ DeleteStep(l) \/ DeleteFails(l)
    PROVE  TypeOK'
<1>1. CASE DeleteLocation(l)
  <2>1. overlapped' \subseteq Keys
    BY <1>1, StartOnTypeOK DEF DeleteLocation, Keys
  <2>2. loaded' \in [Locations -> SUBSET Saves]
    BY <1>1 DEF TypeOK, DeleteLocation
  <2>3. dpc' \in [Locations -> DeletePC]
    BY <1>1 DEF TypeOK, DeleteLocation, DeleteMoves, DeletePC
  <2> QED
    BY <1>1, <2>1, <2>2, <2>3
    DEF TypeOK, DeleteLocation, dbVars, saveVars, removalVars
<1>2. CASE RemoveLocation(l)
  BY <1>2 DEF TypeOK, RemoveLocation, DeleteMoves, DeletePC, saveVars, removalVars
<1>3. CASE CleanMetrics(l)
  BY <1>3 DEF TypeOK, CleanMetrics, DeleteMoves, DeletePC, saveVars, removalVars
<1>4. CASE DeleteFails(l)
  BY <1>4 DEF TypeOK, DeleteFails, DeletePC, dbVars, saveVars, removalVars
<1> QED BY <1>1, <1>2, <1>3, <1>4 DEF DeleteStep

\* Every step keeps the types.
LEMMA NextTypeOK == TypeInv /\ [Next]_vars => TypeOK'
<1> SUFFICES ASSUME TypeInv, [Next]_vars PROVE TypeOK'
  OBVIOUS
<1>1. TypeOK
  BY DEF TypeInv
<1>2. CASE Next
  BY <1>1, <1>2, SaveTypeOK, DeliverTypeOK, RemovalTypeOK, RemoveOneTypeOK,
     RemoveAllTypeOK, DeleteTypeOK DEF Next
<1>3. CASE UNCHANGED vars
  BY <1>1, <1>3 DEF TypeOK, vars, dbVars, saveVars, removalVars, deleteVars
<1> QED BY <1>2, <1>3

\* A handler takes its metric when it starts, and never changes it.
LEMMA NextKeyed == TypeInv /\ [Next]_vars => DeliveredIsKeyed'
<1> SUFFICES ASSUME TypeInv, [Next]_vars, NEW x \in Saves, pc'[x] # "idle"
             PROVE  Key(x)' \in Keys
  BY DEF DeliveredIsKeyed
<1> USE DEF TypeInv, TypeOK, DeliveredIsKeyed, Key
<1>1. ASSUME NEW s \in Saves, NEW l \in Locations, NEW k \in Slugs,
             Deliver(s, l, k)
      PROVE  Key(x)' \in Keys
  BY <1>1 DEF Deliver, SaveMoves, Keys
<1>2. ASSUME UNCHANGED <<location, slug>>, pc[x] # "idle"
      PROVE  Key(x)' \in Keys
  BY <1>2
<1>3. ASSUME NEW s \in Saves, SaveStep(s) \/ SaveFails(s)
      PROVE  UNCHANGED <<location, slug>> /\ pc[x] # "idle"
  BY <1>3 DEF SaveStep, IncVersion, Insert, FindOthers, DeleteOthers, AddRef,
     PullRefs, UpdateRefs, SaveFails, SaveMoves, Ended, dbVars
<1>4. ASSUME NEW r \in Removals, RemovalStep(r) \/ RemovalFails(r)
      PROVE  UNCHANGED <<location, slug>> /\ pc[x] # "idle"
  BY <1>4 DEF RemovalStep, FindRemoved, RemoveMetric, Unlink, RemovalFails,
     dbVars, saveVars
<1>5. ASSUME NEW r \in Removals, NEW m \in Saves, RemoveOne(r, m)
      PROVE  UNCHANGED <<location, slug>> /\ pc[x] # "idle"
  BY <1>5 DEF RemoveOne, dbVars, saveVars
<1>6. ASSUME NEW l \in Locations, NEW R \in SUBSET Removals, RemoveAll(l, R)
      PROVE  UNCHANGED <<location, slug>> /\ pc[x] # "idle"
  BY <1>6 DEF RemoveAll, dbVars, saveVars
<1>7. ASSUME NEW l \in Locations,
             DeleteLocation(l) \/ DeleteStep(l) \/ DeleteFails(l)
      PROVE  UNCHANGED <<location, slug>> /\ pc[x] # "idle"
  BY <1>7 DEF DeleteLocation, DeleteStep, RemoveLocation, CleanMetrics,
     DeleteFails, dbVars, saveVars
<1>8. ASSUME UNCHANGED vars
      PROVE  UNCHANGED <<location, slug>> /\ pc[x] # "idle"
  BY <1>8 DEF vars, dbVars, saveVars
<1> QED
  BY <1>1, <1>2, <1>3, <1>4, <1>5, <1>6, <1>7, <1>8 DEF Next

\* A document is mentioned only after it has been inserted.
LEMMA NextMentioned == TypeInv /\ [Next]_vars => MentionedIsInserted'
<1> SUFFICES ASSUME TypeInv, [Next]_vars,
                    NEW x \in Saves, pc'[x] \notin Inserted
             PROVE  /\ x \notin store'
                    /\ \A l \in Locations : x \notin refs'[l] /\ x \notin loaded'[l]
                    /\ \A y \in Saves : x \notin ids'[y]
                    /\ \A r \in Removals : x # target'[r]
  BY DEF MentionedIsInserted
<1> USE DEF TypeInv, TypeOK, MentionedIsInserted, Inserted
<1> DEFINE Unmentioned ==
           /\ x \notin store'
           /\ \A l \in Locations : x \notin refs'[l] /\ x \notin loaded'[l]
           /\ \A y \in Saves : x \notin ids'[y]
           /\ \A r \in Removals : x # target'[r]
<1>1. ASSUME NEW s \in Saves, NEW l \in Locations, NEW k \in Slugs,
             Deliver(s, l, k)
      PROVE  Unmentioned
  BY <1>1 DEF Deliver, SaveMoves, removalVars, deleteVars
<1>2. ASSUME NEW s \in Saves, SaveStep(s) \/ SaveFails(s)
      PROVE  Unmentioned
  <2>1. pc[x] \notin Inserted
    BY <1>2 DEF SaveStep, IncVersion, Insert, FindOthers, DeleteOthers, AddRef,
       PullRefs, UpdateRefs, SaveFails, SaveMoves, Ended
  <2>2. CASE IncVersion(s)
    BY <2>1, <2>2 DEF IncVersion, removalVars, deleteVars
  <2>3. CASE Insert(s)
    BY <2>1, <2>3 DEF Insert, SaveMoves, removalVars, deleteVars
  <2>4. CASE FindOthers(s)
    BY <2>1, <2>4
    DEF FindOthers, OtherVersions, VersionsOf, dbVars, removalVars, deleteVars
  <2>5. CASE DeleteOthers(s)
    BY <2>1, <2>5 DEF DeleteOthers, removalVars, deleteVars
  <2>6. CASE AddRef(s)
    BY <2>1, <2>6 DEF AddRef, UpdateRefs, SaveMoves, removalVars, deleteVars
  <2>7. CASE PullRefs(s)
    BY <2>1, <2>7 DEF PullRefs, UpdateRefs, removalVars, deleteVars
  <2>8. CASE SaveFails(s)
    BY <2>1, <2>8 DEF SaveFails, dbVars, removalVars, deleteVars
  <2> QED
    BY <1>2, <2>2, <2>3, <2>4, <2>5, <2>6, <2>7, <2>8 DEF SaveStep
<1>3. ASSUME NEW r \in Removals, RemovalStep(r) \/ RemovalFails(r)
      PROVE  Unmentioned
  <2>1. x # None
    BY MetricAssumption
  <2>2. CASE FindRemoved(r)
    BY <2>1, <2>2 DEF FindRemoved, TaskMoves, dbVars, saveVars, deleteVars
  <2>3. CASE RemoveMetric(r)
    BY <2>1, <2>3 DEF RemoveMetric, TaskMoves, saveVars, deleteVars
  <2>4. CASE Unlink(r)
    BY <2>1, <2>4 DEF Unlink, TaskMoves, saveVars, deleteVars
  <2>5. CASE RemovalFails(r)
    BY <2>1, <2>5 DEF RemovalFails, TaskMoves, dbVars, saveVars, deleteVars
  <2> QED
    BY <1>3, <2>2, <2>3, <2>4, <2>5 DEF RemovalStep
<1>4. ASSUME NEW r \in Removals, NEW m \in Saves, RemoveOne(r, m)
      PROVE  Unmentioned
  BY <1>4 DEF RemoveOne, dbVars, saveVars, deleteVars
<1>5. ASSUME NEW l \in Locations, NEW R \in SUBSET Removals, RemoveAll(l, R)
      PROVE  Unmentioned
  BY <1>5 DEF RemoveAll, dbVars, saveVars, deleteVars
<1>6. ASSUME NEW l \in Locations,
             DeleteLocation(l) \/ DeleteStep(l) \/ DeleteFails(l)
      PROVE  Unmentioned
  BY <1>6 DEF DeleteLocation, DeleteStep, RemoveLocation, CleanMetrics,
     DeleteFails, dbVars, saveVars, removalVars
<1>7. ASSUME UNCHANGED vars
      PROVE  Unmentioned
  BY <1>7 DEF vars, dbVars, saveVars, removalVars, deleteVars
<1> QED
  BY <1>1, <1>2, <1>3, <1>4, <1>5, <1>6, <1>7 DEF Next

\* Every reachable state is typed: TypeOK, on its way to the invariants below.
THEOREM TypeInvariant == Spec => []TypeInv
<1>1. Init => TypeInv
  <2>1. Init => DeliveredIsKeyed /\ MentionedIsInserted
    BY MetricAssumption DEF Init, DeliveredIsKeyed, MentionedIsInserted
  <2> QED BY <2>1, InitTypeOK DEF TypeInv
<1>2. TypeInv /\ [Next]_vars => TypeInv'
  BY NextTypeOK, NextKeyed, NextMentioned DEF TypeInv
<1> QED BY <1>1, <1>2, PTL DEF Spec

\* The collections, the lists of the locations and the state of the handlers
\* have their types in every reachable state, for any constants.
THEOREM TypeCorrect == Spec => []TypeOK
<1>1. TypeInv => TypeOK
  BY DEF TypeInv
<1> QED BY <1>1, TypeInvariant, PTL

-----------------------------------------------------------------------------
(* One version at rest.  Of two stored versions of a metric, the save of   *)
(* one has the other on the list of those it will delete, or is still to   *)
(* make the search that will find it, or stopped half way.                 *)

Owes(m, n) == pc[m] \in {"find", "partial"} \/ (pc[m] = "delete" /\ n \in ids[m])

SupersededIsOwed ==
    \A m, n \in store : m # n /\ SameMetric(m, n) => Owes(m, n) \/ Owes(n, m)

\* A save keeps the debts: its search finds every other version, and what it
\* found is gone once it has deleted it.
LEMMA SaveOwes ==
    ASSUME TypeInv, SupersededIsOwed, ~KeepVersions,
           NEW s \in Saves, SaveStep(s) \/ SaveFails(s)
    PROVE  SupersededIsOwed'
<1> SUFFICES ASSUME NEW m \in store', NEW n \in store', m # n,
                    SameMetric(m, n)'
             PROVE  Owes(m, n)' \/ Owes(n, m)'
  BY DEF SupersededIsOwed
<1> USE DEF TypeInv, TypeOK, Owes
<1>1. UNCHANGED <<location, slug>>
  BY DEF SaveStep, IncVersion, Insert, FindOthers, DeleteOthers, AddRef,
     PullRefs, UpdateRefs, SaveFails, dbVars
<1>2. SameMetric(m, n)
  BY <1>1 DEF SameMetric, Key
<1>3. m \in Saves /\ n \in Saves
  BY DEF SaveStep, IncVersion, Insert, FindOthers, DeleteOthers, AddRef,
     PullRefs, UpdateRefs, SaveFails, dbVars
<1>4. CASE IncVersion(s)
  BY <1>2, <1>3, <1>4 DEF IncVersion, SaveMoves, SupersededIsOwed
<1>5. CASE Insert(s)
  BY <1>2, <1>3, <1>5 DEF Insert, SaveMoves, SupersededIsOwed
<1>6. CASE FindOthers(s)
  <2>1. m \in store /\ n \in store /\ (Owes(m, n) \/ Owes(n, m))
    BY <1>2, <1>6 DEF FindOthers, dbVars, SupersededIsOwed
  <2>2. s = m => n \in OtherVersions(s)
    BY <1>2, <2>1 DEF OtherVersions, VersionsOf, SameMetric
  <2>3. s = n => m \in OtherVersions(s)
    BY <1>2, <2>1 DEF OtherVersions, VersionsOf, SameMetric
  <2> QED
    BY <1>3, <1>6, <2>1, <2>2, <2>3 DEF FindOthers, SaveMoves
<1>7. CASE DeleteOthers(s)
  BY <1>2, <1>3, <1>7 DEF DeleteOthers, SaveMoves, SupersededIsOwed
<1>8. CASE AddRef(s) \/ PullRefs(s)
  BY <1>2, <1>3, <1>8 DEF AddRef, PullRefs, UpdateRefs, SaveMoves, SupersededIsOwed
<1>9. CASE SaveFails(s)
  BY <1>2, <1>3, <1>9 DEF SaveFails, Ended, dbVars, SupersededIsOwed
<1> QED
  BY <1>4, <1>5, <1>6, <1>7, <1>8, <1>9 DEF SaveStep

\* No other step adds a document, moves the handler of a stored one, or
\* changes what it found.
LEMMA OtherOwes ==
    ASSUME TypeInv, SupersededIsOwed, store' \subseteq store,
           \A m \in store : /\ pc'[m] = pc[m] /\ ids'[m] = ids[m]
                            /\ location'[m] = location[m] /\ slug'[m] = slug[m]
    PROVE  SupersededIsOwed'
BY DEF SupersededIsOwed, Owes, SameMetric, Key

\* The arrival of a message, removals and the deletion of a location are such.
LEMMA NextOwes ==
    ~KeepVersions /\ TypeInv /\ SupersededIsOwed /\ [Next]_vars
        => SupersededIsOwed'
<1> SUFFICES ASSUME ~KeepVersions, TypeInv, SupersededIsOwed, [Next]_vars
             PROVE  SupersededIsOwed'
  OBVIOUS
<1> DEFINE Frame == /\ store' \subseteq store
                    /\ \A m \in store :
                          /\ pc'[m] = pc[m] /\ ids'[m] = ids[m]
                          /\ location'[m] = location[m] /\ slug'[m] = slug[m]
<1>1. ASSUME NEW s \in Saves, NEW l \in Locations, NEW k \in Slugs,
             Deliver(s, l, k)
      PROVE  Frame
  BY <1>1 DEF TypeInv, TypeOK, MentionedIsInserted, Inserted, Deliver, SaveMoves
<1>2. ASSUME NEW r \in Removals, RemovalStep(r) \/ RemovalFails(r)
      PROVE  Frame
  BY <1>2 DEF RemovalStep, FindRemoved, RemoveMetric, Unlink, RemovalFails,
     dbVars, saveVars
<1>3. ASSUME NEW r \in Removals, NEW m \in Saves, RemoveOne(r, m)
      PROVE  Frame
  BY <1>3 DEF RemoveOne, dbVars, saveVars
<1>4. ASSUME NEW l \in Locations, NEW R \in SUBSET Removals, RemoveAll(l, R)
      PROVE  Frame
  BY <1>4 DEF RemoveAll, dbVars, saveVars
<1>5. ASSUME NEW l \in Locations,
             DeleteLocation(l) \/ DeleteStep(l) \/ DeleteFails(l)
      PROVE  Frame
  BY <1>5 DEF DeleteLocation, DeleteStep, RemoveLocation, CleanMetrics,
     DeleteFails, dbVars, saveVars
<1>6. ASSUME UNCHANGED vars
      PROVE  Frame
  BY <1>6 DEF vars, dbVars, saveVars
<1>7. Frame => SupersededIsOwed'
  BY OtherOwes
<1> QED
  BY <1>1, <1>2, <1>3, <1>4, <1>5, <1>6, <1>7, SaveOwes DEF Next

\* However saves of a metric overlap, with each other or with removals, when
\* all have ended at most one version is stored, unless a save stopped half
\* way (metrics.ts, the post-save hook, with KEEP_METRIC_VERSIONS off).
THEOREM OneVersion == Spec => []OneVersionAtRest
<1>1. Init => SupersededIsOwed
  BY DEF Init, SupersededIsOwed
<1>2. TypeInv /\ SupersededIsOwed => OneVersionAtRest
  <2> SUFFICES ASSUME TypeInv, SupersededIsOwed, NEW m \in store, NEW n \in store,
                      m # n, SameMetric(m, n)
               PROVE  \E s \in SavesOf(Key(m)) :
                         pc[s] \in {"find", "delete", "partial"}
    BY DEF OneVersionAtRest
  <2>1. PICK s \in {m, n} : pc[s] \in {"find", "delete", "partial"}
    BY DEF SupersededIsOwed, Owes
  <2>2. s \in SavesOf(Key(m))
    BY <2>1 DEF SavesOf, SameMetric, TypeInv, TypeOK
  <2> QED BY <2>1, <2>2
<1>3. CASE KeepVersions
  <2>1. OneVersionAtRest
    BY <1>3 DEF OneVersionAtRest
  <2> QED BY <2>1, PTL
<1>4. CASE ~KeepVersions
  <2>1. TypeInv /\ SupersededIsOwed /\ [Next]_vars => SupersededIsOwed'
    BY <1>4, NextOwes
  <2> QED BY <1>1, <1>2, <2>1, TypeInvariant, PTL DEF Spec
<1> QED BY <1>3, <1>4

-----------------------------------------------------------------------------
(* A stored metric is listed.  Whoever is about to take a document off a   *)
(* list has deleted it, and a deleted document does not come back.         *)

Linked(m) == pc[m] = "done" \/ (pc[m] = "link" /\ "add" \notin bulk[m])

LinkedIsListed ==
    \A m \in store : Linked(m) /\ location[m] \in locations =>
        m \in refs[location[m]]
PulledIsDeleted == \A s \in Saves : pc[s] = "link" => ids[s] \cap store = {}
UnlinkedIsDeleted == \A r \in Removals : rpc[r] = "unlink" => target[r] \notin store

ListInv == LinkedIsListed /\ PulledIsDeleted /\ UnlinkedIsDeleted

\* The handler of a delivery keeps the three: its search leaves it nothing to
\* pull, or it deletes what it will pull; it adds itself, and pulls others.
LEMMA SaveLists ==
    ASSUME TypeInv, ListInv, ~KeepVersions,
           NEW s \in Saves, SaveStep(s) \/ SaveFails(s)
    PROVE  ListInv'
<1> USE DEF TypeInv, TypeOK, ListInv, LinkedIsListed, PulledIsDeleted,
            UnlinkedIsDeleted, Linked, SaveMoves
<1>1. CASE IncVersion(s)
  BY <1>1 DEF IncVersion, removalVars, deleteVars
<1>2. CASE Insert(s)
  <2>1. /\ \A x \in Saves : s \notin ids[x]
        /\ \A r \in Removals : s # target[r]
    BY <1>2 DEF Insert, MentionedIsInserted, Inserted
  <2> QED BY <1>2, <2>1 DEF Insert, removalVars, deleteVars
<1>3. CASE FindOthers(s)
  <2>1. pc'[s] = "link" => ids'[s] = {}
    BY <1>3 DEF FindOthers
  <2>2. pc'[s] = "link" => "add" \in bulk'[s]
    BY <1>3 DEF FindOthers
  <2> QED BY <1>3, <2>1, <2>2 DEF FindOthers, dbVars, removalVars, deleteVars
<1>4. CASE DeleteOthers(s)
  BY <1>4 DEF DeleteOthers, removalVars, deleteVars
<1>5. CASE AddRef(s)
  <2>1. LinkedIsListed'
    BY <1>5 DEF AddRef, UpdateRefs, removalVars, deleteVars
  <2>2. PulledIsDeleted' /\ UnlinkedIsDeleted'
    BY <1>5 DEF AddRef, UpdateRefs, removalVars, deleteVars
  <2> QED BY <2>1, <2>2
<1>6. CASE PullRefs(s)
  <2>1. ids[s] \cap store = {}
    BY <1>6 DEF PullRefs, UpdateRefs
  <2>2. pc'[s] = "done" => "add" \notin bulk[s]
    BY <1>6 DEF PullRefs, UpdateRefs
  <2>3. LinkedIsListed'
    BY <1>6, <2>1, <2>2 DEF PullRefs, UpdateRefs, removalVars, deleteVars
  <2>4. PulledIsDeleted' /\ UnlinkedIsDeleted'
    BY <1>6 DEF PullRefs, UpdateRefs, removalVars, deleteVars
  <2> QED BY <2>3, <2>4
<1>7. CASE SaveFails(s)
  BY <1>7 DEF SaveFails, Ended, dbVars, removalVars, deleteVars
<1> QED BY <1>1, <1>2, <1>3, <1>4, <1>5, <1>6, <1>7 DEF SaveStep

\* So does a removal task, which deletes its metric before it unlinks it.
LEMMA RemovalLists ==
    ASSUME TypeInv, ListInv, NEW r \in Removals, RemovalStep(r) \/ RemovalFails(r)
    PROVE  ListInv'
<1> USE DEF TypeInv, TypeOK, ListInv, LinkedIsListed, PulledIsDeleted,
            UnlinkedIsDeleted, Linked, TaskMoves
<1>1. CASE FindRemoved(r)
  BY <1>1 DEF FindRemoved, dbVars, saveVars, deleteVars
<1>2. CASE RemoveMetric(r)
  BY <1>2 DEF RemoveMetric, saveVars, deleteVars
<1>3. CASE Unlink(r)
  BY <1>3 DEF Unlink, saveVars, deleteVars
<1>4. CASE RemovalFails(r)
  BY <1>4 DEF RemovalFails, dbVars, saveVars, deleteVars
<1> QED BY <1>1, <1>2, <1>3, <1>4 DEF RemovalStep

\* So does every step.
LEMMA NextLists ==
    ~KeepVersions /\ TypeInv /\ ListInv /\ [Next]_vars => ListInv'
<1> SUFFICES ASSUME ~KeepVersions, TypeInv, ListInv, [Next]_vars
             PROVE  ListInv'
  OBVIOUS
<1> USE DEF TypeInv, TypeOK, ListInv, LinkedIsListed, PulledIsDeleted,
            UnlinkedIsDeleted, Linked
<1>1. ASSUME NEW s \in Saves, NEW l \in Locations, NEW k \in Slugs,
             Deliver(s, l, k)
      PROVE  ListInv'
  <2>1. s \notin store
    BY <1>1 DEF Deliver, SaveMoves, MentionedIsInserted, Inserted
  <2> QED BY <1>1, <2>1 DEF Deliver, SaveMoves, removalVars, deleteVars
<1>2. ASSUME NEW r \in Removals, NEW m \in Saves, RemoveOne(r, m)
      PROVE  ListInv'
  BY <1>2 DEF RemoveOne, dbVars, saveVars, deleteVars
<1>3. ASSUME NEW l \in Locations, NEW R \in SUBSET Removals, RemoveAll(l, R)
      PROVE  ListInv'
  BY <1>3 DEF RemoveAll, dbVars, saveVars, deleteVars
<1>4. ASSUME NEW l \in Locations,
             DeleteLocation(l) \/ DeleteStep(l) \/ DeleteFails(l)
      PROVE  ListInv'
  BY <1>4 DEF DeleteLocation, DeleteStep, RemoveLocation, CleanMetrics,
     DeleteFails, dbVars, saveVars, removalVars
<1>5. ASSUME UNCHANGED vars
      PROVE  ListInv'
  BY <1>5 DEF vars, dbVars, saveVars, removalVars, deleteVars
<1> QED
  BY <1>1, <1>2, <1>3, <1>4, <1>5, SaveLists, RemovalLists DEF Next

\* A metric whose save ended well stays on the list of its location while both
\* exist, however operations on the metric overlap and fail.
THEOREM StoredIsReferenced == Spec => []StoredMetricIsReferenced
<1>1. Init => ListInv
  BY DEF Init, ListInv, LinkedIsListed, PulledIsDeleted, UnlinkedIsDeleted
<1>2. ListInv => StoredMetricIsReferenced
  BY DEF ListInv, LinkedIsListed, Linked, StoredMetricIsReferenced
<1>3. CASE KeepVersions
  <2>1. StoredMetricIsReferenced
    BY <1>3 DEF StoredMetricIsReferenced
  <2> QED BY <2>1, PTL
<1>4. CASE ~KeepVersions
  <2>1. TypeInv /\ ListInv /\ [Next]_vars => ListInv'
    BY <1>4, NextLists
  <2> QED BY <1>1, <1>2, <2>1, TypeInvariant, PTL DEF Spec
<1> QED BY <1>3, <1>4

-----------------------------------------------------------------------------
(* One after the other.  Where no operation on a metric overlapped another *)
(* one, a save has the metric to itself, and what it read of it is so      *)
(* until it is done; so have a removal and the deletion of the location,   *)
(* unless an operation stopped half way before.                            *)

LiveSaves(k) == {s \in SavesOf(k) : pc[s] \notin Ended}
LiveRemovals(k) == {r \in RemovalsOf(k) : rpc[r] \notin Ended}

SavesAlone(k) ==
    \A s \in LiveSaves(k) :
        LiveSaves(k) = {s} /\ LiveRemovals(k) = {} /\ dpc[k[1]] \in Ended

RemovalsAlone(k) ==
    \A r \in LiveRemovals(k) : LiveRemovals(k) = {r} /\ dpc[k[1]] \in Ended

Newest(k) ==
    \A s \in LiveSaves(k) : pc[s] # "version" =>
        \A m \in VersionsOf(k) \ {s} : version[m] < version[s]

\* What the location lists of a metric, and its agreement with the collection.
Listed(k) == {m \in refs[k[1]] : Key(m) = k}
Agreed(k) ==
    /\ VersionsOf(k) = Listed(k)
    /\ \A m, n \in VersionsOf(k) : m = n

\* What an operation that has the metric to itself has yet to bring together.
SavePhase(k, s) ==
    /\ k[1] \in locations
    /\ pc[s] \in {"version", "insert"} => Agreed(k)
    /\ pc[s] \in {"find", "delete"} => s \in VersionsOf(k) /\ Listed(k) = VersionsOf(k) \ {s}
    /\ pc[s] = "delete" => ids[s] = Listed(k)
    /\ pc[s] = "link" =>
          /\ VersionsOf(k) = {s} /\ Listed(k) \subseteq ids[s] \cup {s} /\ s \notin ids[s]
          /\ s \in Listed(k) \/ "add" \in bulk[s]
          /\ Listed(k) \subseteq {s} \/ "pull" \in bulk[s]

RemovalPhase(k, r) ==
    /\ k[1] \in locations
    /\ rpc[r] \in {"find", "remove"} => Agreed(k) /\ target[r] \in VersionsOf(k)
    /\ rpc[r] = "unlink" => VersionsOf(k) = {} /\ Listed(k) = {target[r]}

DeletePhase(k) ==
    /\ dpc[k[1]] = "remove" => Agreed(k)
    /\ dpc[k[1]] \in {"remove", "clean"} => VersionsOf(k) \subseteq loaded[k[1]]
    /\ dpc[k[1]] = "clean" => Listed(k) = {}

Stepwise(k) ==
    /\ RemovalsAlone(k)
    /\ \A s \in LiveSaves(k) : SavePhase(k, s)
    /\ \A r \in LiveRemovals(k) : RemovalPhase(k, r)
    /\ DeletePhase(k)
    /\ ~Busy(k) => Agreed(k)

Serial(k) ==
    /\ SavesAlone(k) /\ Newest(k)
    /\ ~KeepVersions /\ ~Partial(k) => Stepwise(k)

\* Lists and searches hold documents of the location and the metric, and a
\* task has a target while it is at work.
FoundAreOthers ==
    \A s \in Saves : \A m \in ids[s] : pc[s] # "idle" /\ m # s /\ Key(m) = Key(s)
ListsAreOwn ==
    \A l \in Locations : \A m \in refs[l] \cup loaded[l] : location[m] = l
TasksHaveTargets ==
    \A r \in Removals : /\ rpc[r] = "idle" => target[r] = None
                        /\ rpc[r] \notin Ended => target[r] \in Saves

Homes == FoundAreOthers /\ ListsAreOwn /\ TasksHaveTargets

SerialInv == Homes /\ \A k \in Keys \ overlapped : Serial(k)

LEMMA NextHomes == TypeInv /\ Homes /\ [Next]_vars => Homes'
<1> SUFFICES ASSUME TypeInv, Homes, [Next]_vars PROVE Homes'
  OBVIOUS
<1> USE DEF TypeInv, TypeOK, Homes
<1> DEFINE Parts == FoundAreOthers' /\ ListsAreOwn' /\ TasksHaveTargets'
<1>1. ASSUME NEW s \in Saves, NEW l \in Locations, NEW k \in Slugs,
             Deliver(s, l, k)
      PROVE  Parts
  <2>1. /\ \A x \in Saves : s \notin ids[x]
        /\ \A x \in Locations : s \notin refs[x] \cup loaded[x]
    BY <1>1 DEF Deliver, SaveMoves, MentionedIsInserted, Inserted
  <2>2. \A x \in Saves \ {s} : Key(x)' = Key(x) /\ pc'[x] = pc[x] /\ location'[x] = location[x]
    BY <1>1 DEF Deliver, SaveMoves, Key
  <2>3. UNCHANGED <<ids, refs, loaded, rpc, target>>
    BY <1>1 DEF Deliver, removalVars, deleteVars
  <2>4. ids[s] = {}
    BY <1>1 DEF Deliver, SaveMoves, FoundAreOthers
  <2>5. FoundAreOthers'
    BY <2>1, <2>2, <2>3, <2>4 DEF FoundAreOthers
  <2>6. ListsAreOwn'
    BY <2>1, <2>2, <2>3 DEF ListsAreOwn
  <2> QED
    BY <2>3, <2>5, <2>6 DEF TasksHaveTargets
<1>2. ASSUME NEW s \in Saves, SaveStep(s) \/ SaveFails(s)
      PROVE  Parts
  <2>1. /\ UNCHANGED <<location, slug, loaded, rpc, target>> /\ pc[s] # "idle"
        /\ \A x \in Saves : pc'[x] = "idle" <=> pc[x] = "idle"
    BY <1>2 DEF SaveStep, IncVersion, Insert, FindOthers, DeleteOthers, AddRef, PullRefs,
       UpdateRefs, SaveFails, SaveMoves, Ended, dbVars, removalVars, deleteVars
  <2>2. \A m : Key(m)' = Key(m)
    BY <2>1 DEF Key
  <2>3. \A x \in Saves : \A m \in ids'[x] : m \in ids[x] \/ (x = s /\ m \in OtherVersions(s))
    BY <1>2 DEF SaveStep, IncVersion, Insert, FindOthers, DeleteOthers, AddRef, PullRefs,
       UpdateRefs, SaveFails
  <2>4. \A m \in OtherVersions(s) : m # s /\ Key(m) = Key(s)
    BY DEF OtherVersions, VersionsOf
  <2>5. \A x \in Locations : \A m \in refs'[x] : m \in refs[x] \/ (m = s /\ x = location[s])
    BY <1>2 DEF SaveStep, IncVersion, Insert, FindOthers, DeleteOthers, AddRef, PullRefs,
       UpdateRefs, SaveFails, dbVars
  <2>6. FoundAreOthers'
    BY <2>1, <2>2, <2>3, <2>4 DEF FoundAreOthers
  <2>7. ListsAreOwn'
    BY <2>1, <2>5 DEF ListsAreOwn
  <2> QED
    BY <2>1, <2>6, <2>7 DEF TasksHaveTargets
<1>3. ASSUME NEW r \in Removals, RemovalStep(r) \/ RemovalFails(r)
      PROVE  Parts
  <2>1. /\ UNCHANGED <<location, slug, loaded, pc, ids>>
        /\ \A x \in Locations : refs'[x] \subseteq refs[x]
    BY <1>3 DEF RemovalStep, FindRemoved, RemoveMetric, Unlink, RemovalFails, dbVars, saveVars,
       deleteVars
  <2>2. PICK to \in RemovalPC \ {"idle"} : TaskMoves(r, to) /\ rpc[r] \notin Ended
    <3>1. CASE FindRemoved(r)
      BY <3>1 DEF FindRemoved, RemovalPC, Ended
    <3>2. CASE RemoveMetric(r) \/ Unlink(r)
      BY <3>2 DEF RemoveMetric, Unlink, RemovalPC, Ended
    <3>3. CASE RemovalFails(r)
      BY <3>3 DEF RemovalFails, RemovalPC
    <3> QED
      BY <1>3, <3>1, <3>2, <3>3 DEF RemovalStep
  <2>3. TasksHaveTargets'
    BY <2>2 DEF TaskMoves, Ended, TasksHaveTargets
  <2> QED
    BY <2>1, <2>3 DEF Key, FoundAreOthers, ListsAreOwn
<1>4. ASSUME NEW r \in Removals, NEW m \in Saves, RemoveOne(r, m)
      PROVE  Parts
  <2>1. UNCHANGED <<location, slug, loaded, pc, ids, refs>>
    BY <1>4 DEF RemoveOne, dbVars, saveVars, deleteVars
  <2>2. TasksHaveTargets'
    BY <1>4 DEF RemoveOne, TasksHaveTargets, Ended
  <2> QED
    BY <2>1, <2>2 DEF Key, FoundAreOthers, ListsAreOwn
<1>5. ASSUME NEW l \in Locations, NEW R \in SUBSET Removals, RemoveAll(l, R)
      PROVE  Parts
  <2>1. UNCHANGED <<location, slug, loaded, pc, ids, refs>>
    BY <1>5 DEF RemoveAll, dbVars, saveVars, deleteVars
  <2>2. TasksHaveTargets'
    BY <1>5 DEF RemoveAll, TasksHaveTargets, Ended
  <2> QED
    BY <2>1, <2>2 DEF Key, FoundAreOthers, ListsAreOwn
<1>6. ASSUME NEW l \in Locations,
             DeleteLocation(l) \/ DeleteStep(l) \/ DeleteFails(l)
      PROVE  Parts
  <2>1. /\ UNCHANGED <<location, slug, pc, ids, rpc, target>>
        /\ \A x \in Locations : refs'[x] \cup loaded'[x] \subseteq refs[x] \cup loaded[x]
    BY <1>6 DEF DeleteLocation, DeleteStep, RemoveLocation, CleanMetrics,
       DeleteFails, dbVars, saveVars, removalVars
  <2> QED
    BY <2>1 DEF Key, FoundAreOthers, ListsAreOwn, TasksHaveTargets
<1>7. ASSUME UNCHANGED vars
      PROVE  Parts
  BY <1>7 DEF vars, dbVars, saveVars, removalVars, deleteVars, Key,
              FoundAreOthers, ListsAreOwn, TasksHaveTargets
<1> QED
  BY <1>1, <1>2, <1>3, <1>4, <1>5, <1>6, <1>7 DEF Next

\* What the operations on other metrics leave alone of metric k.
Same(k) ==
    /\ VersionsOf(k)' = VersionsOf(k) /\ Listed(k)' = Listed(k)
    /\ SavesOf(k)' = SavesOf(k)
    /\ \A s \in SavesOf(k) : /\ pc'[s] = pc[s] /\ ids'[s] = ids[s]
                             /\ bulk'[s] = bulk[s] /\ version'[s] = version[s]
    /\ RemovalsOf(k)' = RemovalsOf(k)
    /\ \A r \in RemovalsOf(k) : rpc'[r] = rpc[r] /\ target'[r] = target[r]
    /\ dpc'[k[1]] = dpc[k[1]] /\ loaded'[k[1]] = loaded[k[1]]
    /\ k[1] \in locations' <=> k[1] \in locations

\* A stored document is that of a save.
LEMMA StoredAreSaves ==
    ASSUME TypeInv, NEW k
    PROVE  VersionsOf(k) \subseteq SavesOf(k)
BY DEF VersionsOf, SavesOf, TypeInv, TypeOK, MentionedIsInserted, Inserted

LEMMA SameSerial ==
    ASSUME TypeInv, NEW k, Serial(k), Same(k)
    PROVE  Serial(k)'
<1>1. LiveSaves(k)' = LiveSaves(k) /\ LiveSaves(k) \subseteq SavesOf(k)
  BY DEF Same, LiveSaves
<1>2. LiveRemovals(k)' = LiveRemovals(k) /\ LiveRemovals(k) \subseteq RemovalsOf(k)
  BY DEF Same, LiveRemovals
<1>3. SavesAlone(k)' /\ (RemovalsAlone(k) => RemovalsAlone(k)')
  BY <1>1, <1>2 DEF Serial, Same, SavesAlone, RemovalsAlone
<1>4. Newest(k)'
  BY <1>1, StoredAreSaves DEF Serial, Same, Newest
<1>5. (Partial(k)' <=> Partial(k)) /\ (Busy(k)' <=> Busy(k))
  BY DEF Same, Partial, Busy
<1>6. Agreed(k)' <=> Agreed(k)
  BY DEF Same, Agreed
<1>7. \A s \in LiveSaves(k) : SavePhase(k, s) => SavePhase(k, s)'
  BY <1>1, <1>6 DEF Same, SavePhase
<1>8. \A r \in LiveRemovals(k) : RemovalPhase(k, r) => RemovalPhase(k, r)'
  BY <1>2, <1>6 DEF Same, RemovalPhase
<1>9. DeletePhase(k) => DeletePhase(k)'
  BY <1>6 DEF Same, DeletePhase
<1>10. Stepwise(k) => Stepwise(k)'
  BY <1>1, <1>2, <1>3, <1>5, <1>6, <1>7, <1>8, <1>9 DEF Stepwise
<1> QED
  BY <1>3, <1>4, <1>5, <1>10 DEF Serial

\* The history only grows.
LEMMA OverlapsStay == [Next]_vars => overlapped \subseteq overlapped'
BY DEF Next, vars, SaveStep, IncVersion, Insert, FindOthers, DeleteOthers, AddRef, PullRefs,
   UpdateRefs, SaveFails, Deliver, RemovalStep, FindRemoved, RemoveMetric, Unlink, RemovalFails,
   RemoveOne, RemoveAll, DeleteLocation, DeleteStep, RemoveLocation, CleanMetrics, DeleteFails,
   StartOn

\* The steps of a save touch its own metric only.
LEMMA SaveSame ==
    ASSUME TypeInv, Homes, NEW s \in Saves, SaveStep(s) \/ SaveFails(s),
           NEW k \in Keys, k # Key(s)
    PROVE  Same(k)
<1>1. /\ UNCHANGED <<location, slug, locations, rpc, target, dpc, loaded>> /\ pc[s] # "idle"
      /\ \A x \in Saves : pc'[x] = "idle" <=> pc[x] = "idle"
      /\ \A x \in Saves \ {s} : /\ pc'[x] = pc[x] /\ ids'[x] = ids[x]
                                /\ bulk'[x] = bulk[x] /\ version'[x] = version[x]
  BY DEF TypeInv, TypeOK, SaveStep, IncVersion, Insert, FindOthers, DeleteOthers, AddRef,
     PullRefs, UpdateRefs, SaveFails, SaveMoves, Ended, dbVars, removalVars, deleteVars
<1>2. \A m : Key(m)' = Key(m)
  BY <1>1 DEF Key
<1>3. \A m \in ids[s] \cup {s} : Key(m) # k
  BY DEF Homes, FoundAreOthers
<1>4. VersionsOf(k)' = VersionsOf(k)
  <2>1. \A m : Key(m) = k => (m \in store' <=> m \in store)
    BY <1>3 DEF SaveStep, IncVersion, Insert, FindOthers, DeleteOthers, AddRef, PullRefs,
       UpdateRefs, SaveFails, dbVars
  <2> QED
    BY <1>2, <2>1 DEF VersionsOf
<1>5. Listed(k)' = Listed(k)
  <2>1. \A l \in Locations : \A m : Key(m) = k => (m \in refs'[l] <=> m \in refs[l])
    BY <1>3 DEF TypeInv, TypeOK, SaveStep, IncVersion, Insert, FindOthers, DeleteOthers, AddRef,
       PullRefs, UpdateRefs, SaveFails, dbVars
  <2> QED
    BY <1>2, <2>1 DEF Listed, Keys
<1>6. SavesOf(k)' = SavesOf(k) /\ s \notin SavesOf(k)
  BY <1>1, <1>2 DEF SavesOf
<1>7. RemovalsOf(k)' = RemovalsOf(k)
  BY <1>1, <1>2 DEF RemovalsOf
<1> QED
  BY <1>1, <1>4, <1>5, <1>6, <1>7 DEF Same, SavesOf

\* So does a message that arrives.
LEMMA DeliverSame ==
    ASSUME TypeInv, Homes, NEW s \in Saves, NEW l \in Locations, NEW g \in Slugs,
           Deliver(s, l, g), NEW k \in Keys, k # <<l, g>>
    PROVE  Same(k)
<1>1. /\ UNCHANGED <<store, version, locations, refs, ids, bulk, rpc, target, dpc, loaded>>
      /\ pc[s] = "idle" /\ Key(s)' = <<l, g>>
      /\ \A x \in Saves \ {s} : pc'[x] = pc[x] /\ Key(x)' = Key(x)
  BY DEF TypeInv, TypeOK, Deliver, SaveMoves, removalVars, deleteVars, Key
<1>2. /\ s \notin store /\ \A x \in Locations : s \notin refs[x]
      /\ \A r \in Removals : s # target[r]
  BY <1>1 DEF TypeInv, MentionedIsInserted, Inserted
<1>3. VersionsOf(k)' = VersionsOf(k) /\ Listed(k)' = Listed(k)
  BY <1>1, <1>2 DEF VersionsOf, Listed, Keys, TypeInv, TypeOK
<1>4. SavesOf(k)' = SavesOf(k) /\ s \notin SavesOf(k)
  BY <1>1 DEF SavesOf
<1>5. RemovalsOf(k)' = RemovalsOf(k)
  BY <1>1, <1>2 DEF RemovalsOf, TypeInv, TypeOK
<1> QED
  BY <1>1, <1>3, <1>4, <1>5 DEF Same, SavesOf

\* So does a task.
LEMMA RemovalSame ==
    ASSUME TypeInv, Homes, NEW r \in Removals, RemovalStep(r) \/ RemovalFails(r),
           NEW k \in Keys, k # Key(target[r])
    PROVE  Same(k)
<1>1. /\ UNCHANGED <<version, location, slug, locations, pc, ids, bulk, dpc, loaded>>
      /\ \A x \in Removals \ {r} : rpc'[x] = rpc[x] /\ target'[x] = target[x]
      /\ target'[r] \in {target[r], None}
      /\ store' \subseteq store /\ store \subseteq store' \cup {target[r]}
      /\ \A l \in Locations : refs'[l] \subseteq refs[l] /\ refs[l] \subseteq refs'[l] \cup {target[r]}
  BY DEF TypeInv, TypeOK, RemovalStep, FindRemoved, RemoveMetric, Unlink, RemovalFails,
     TaskMoves, dbVars, saveVars, deleteVars
<1>2. \A m : Key(m)' = Key(m)
  BY <1>1 DEF Key
<1>3. VersionsOf(k)' = VersionsOf(k) /\ Listed(k)' = Listed(k)
  BY <1>1, <1>2 DEF VersionsOf, Listed, Keys
<1>4. SavesOf(k)' = SavesOf(k)
  BY <1>1, <1>2 DEF SavesOf
<1>5. RemovalsOf(k)' = RemovalsOf(k) /\ r \notin RemovalsOf(k)
  BY <1>1, <1>2 DEF RemovalsOf
<1> QED
  BY <1>1, <1>3, <1>4, <1>5 DEF Same, RemovalsOf

\* So do the requests that start tasks.
LEMMA RequestSame ==
    ASSUME TypeInv, Homes, NEW k \in Keys,
           \/ \E r \in Removals, m \in Saves : RemoveOne(r, m) /\ k # Key(m)
           \/ \E l \in Locations, R \in SUBSET Removals :
                 RemoveAll(l, R) /\ k \notin {Key(m) : m \in refs[l]}
    PROVE  Same(k)
<1>1. /\ UNCHANGED <<store, version, location, slug, locations, refs, pc, ids, bulk, dpc, loaded>>
  BY DEF RemoveOne, RemoveAll, dbVars, saveVars, deleteVars
<1>2. \A m : Key(m)' = Key(m)
  BY <1>1 DEF Key
<1>3. \A x \in Removals :
         \/ rpc'[x] = rpc[x] /\ target'[x] = target[x]
         \/ target[x] = None /\ Key(target'[x]) # k
  <2>1. ASSUME NEW r \in Removals, NEW m \in Saves, RemoveOne(r, m), k # Key(m),
               NEW x \in Removals
        PROVE  \/ rpc'[x] = rpc[x] /\ target'[x] = target[x]
               \/ target[x] = None /\ Key(target'[x]) # k
    BY <2>1 DEF TypeInv, TypeOK, Homes, TasksHaveTargets, RemoveOne
  <2>2. ASSUME NEW l \in Locations, NEW R \in SUBSET Removals, RemoveAll(l, R),
               k \notin {Key(m) : m \in refs[l]}, NEW x \in Removals
        PROVE  \/ rpc'[x] = rpc[x] /\ target'[x] = target[x]
               \/ target[x] = None /\ Key(target'[x]) # k
    <3>1. CASE x \in R
      <4>1. target'[x] \in refs[l] /\ target[x] = None
        BY <2>2, <3>1 DEF Homes, TasksHaveTargets, RemoveAll
      <4> QED
        BY <2>2, <4>1
    <3>2. CASE x \notin R
      BY <2>2, <3>2 DEF RemoveAll
    <3> QED
      BY <3>1, <3>2
  <2> QED
    BY <2>1, <2>2
<1>4. RemovalsOf(k)' = RemovalsOf(k)
  BY <1>2, <1>3 DEF RemovalsOf
<1>5. \A x \in RemovalsOf(k) : rpc'[x] = rpc[x] /\ target'[x] = target[x]
  BY <1>3 DEF RemovalsOf
<1>6. VersionsOf(k)' = VersionsOf(k) /\ Listed(k)' = Listed(k) /\ SavesOf(k)' = SavesOf(k)
  BY <1>1, <1>2 DEF VersionsOf, Listed, SavesOf
<1> QED
  BY <1>1, <1>4, <1>5, <1>6 DEF Same

\* The deletion of a location touches the metrics of that location only.
LEMMA DeleteSame ==
    ASSUME TypeInv, Homes, NEW l \in Locations,
           DeleteLocation(l) \/ DeleteStep(l) \/ DeleteFails(l),
           NEW k \in Keys, k[1] # l
    PROVE  Same(k)
<1>1. /\ UNCHANGED <<version, location, slug, pc, ids, bulk, rpc, target>>
      /\ \A x \in Locations \ {l} : /\ dpc'[x] = dpc[x] /\ loaded'[x] = loaded[x]
                                    /\ refs'[x] = refs[x]
                                    /\ x \in locations' <=> x \in locations
      /\ store' \subseteq store /\ store \subseteq store' \cup loaded[l]
  BY DEF TypeInv, TypeOK, DeleteLocation, DeleteStep, RemoveLocation, CleanMetrics, DeleteFails,
     DeleteMoves, dbVars, saveVars, removalVars
<1>2. \A m : Key(m)' = Key(m)
  BY <1>1 DEF Key
<1>3. k[1] \in Locations \ {l}
  BY DEF Keys
<1>4. \A m \in loaded[l] : Key(m) # k
  BY <1>3 DEF Homes, ListsAreOwn, Key
<1>5. VersionsOf(k)' = VersionsOf(k) /\ Listed(k)' = Listed(k)
  BY <1>1, <1>2, <1>3, <1>4 DEF VersionsOf, Listed
<1>6. SavesOf(k)' = SavesOf(k) /\ RemovalsOf(k)' = RemovalsOf(k)
  BY <1>1, <1>2 DEF SavesOf, RemovalsOf
<1> QED
  BY <1>1, <1>3, <1>5, <1>6 DEF Same

\* The step of a save that has its metric to itself: what it must show.
LEMMA SaveOwn ==
    ASSUME TypeInv, NEW s \in Saves, NEW k \in Keys, k = Key(s), pc[s] \notin Ended, Serial(k),
           UNCHANGED <<location, slug, rpc, target, dpc, loaded>>, pc'[s] # "idle",
           \A x \in Saves \ {s} : pc'[x] = pc[x],
           pc'[s] \notin Ended \cup {"version"} =>
               \A m \in VersionsOf(k)' \ {s} : version'[m] < version'[s],
           ~KeepVersions /\ Stepwise(k) /\ pc'[s] # "partial" =>
               IF pc'[s] \in Ended THEN Agreed(k)' ELSE SavePhase(k, s)'
    PROVE  Serial(k)'
<1> DEFINE p == pc'[s]
<1>1. s \in LiveSaves(k) /\ s \in SavesOf(k)
  BY DEF LiveSaves, SavesOf, Ended
<1>2. LiveSaves(k) = {s} /\ LiveRemovals(k) = {} /\ dpc[k[1]] \in Ended
  BY <1>1 DEF Serial, SavesAlone
<1>3. \A x : Key(x)' = Key(x)
  BY DEF Key
<1>4. SavesOf(k)' = SavesOf(k) /\ RemovalsOf(k)' = RemovalsOf(k)
  BY <1>3 DEF SavesOf, RemovalsOf, Ended
<1>5. LiveSaves(k)' = IF p \in Ended THEN {} ELSE {s}
  <2>1. \A x \in SavesOf(k) \ {s} : pc'[x] = pc[x] /\ pc[x] \in Ended
    BY <1>2 DEF SavesOf, LiveSaves
  <2> QED
    BY <1>1, <1>4, <2>1 DEF LiveSaves
<1>6. LiveRemovals(k)' = {}
  BY <1>2, <1>4 DEF LiveRemovals
<1>7. SavesAlone(k)' /\ RemovalsAlone(k)' /\ DeletePhase(k)'
  BY <1>2, <1>5, <1>6 DEF SavesAlone, RemovalsAlone, DeletePhase, Ended
<1>8. Newest(k)'
  BY <1>5 DEF Newest
<1>9. ASSUME ~KeepVersions, ~Partial(k)' PROVE Stepwise(k)'
  <2>1. ~Partial(k)
    BY <1>1, <1>4, <1>9 DEF Partial, SavesOf, Ended
  <2>2. p # "partial"
    BY <1>1, <1>4, <1>9 DEF Partial
  <2>3. IF p \in Ended THEN Agreed(k)' ELSE SavePhase(k, s)'
    BY <1>9, <2>1, <2>2 DEF Serial
  <2>4. p \notin Ended => Busy(k)'
    BY <1>1, <1>4 DEF Busy
  <2> QED
    BY <1>5, <1>6, <1>7, <2>3, <2>4 DEF Stepwise
<1> QED
  BY <1>7, <1>8, <1>9 DEF Serial

LEMMA SaveSerial ==
    ASSUME TypeInv, Homes, NEW s \in Saves, SaveStep(s) \/ SaveFails(s),
           NEW k \in Keys, k = Key(s), Serial(k)
    PROVE  Serial(k)'
<1>1. /\ UNCHANGED <<location, slug, locations, rpc, target, dpc, loaded>>
      /\ pc[s] \notin Ended /\ pc'[s] # "idle"
      /\ \A x \in Saves \ {s} : pc'[x] = pc[x]
  BY DEF TypeInv, TypeOK, SaveStep, IncVersion, Insert, FindOthers, DeleteOthers, AddRef,
     PullRefs, UpdateRefs, SaveFails, SaveMoves, Ended, dbVars, removalVars, deleteVars
<1>2. \A m : Key(m)' = Key(m)
  BY <1>1 DEF Key
<1>3. /\ s \in LiveSaves(k) /\ location[s] = k[1] /\ k[1] \in Locations
      /\ pc[s] # "version" => \A m \in VersionsOf(k) \ {s} : version[m] < version[s]
      /\ Stepwise(k) => SavePhase(k, s)
  <2>1. s \in LiveSaves(k)
    BY <1>1 DEF LiveSaves, SavesOf, Ended
  <2> QED
    BY <2>1 DEF Serial, Newest, Stepwise, Key, Keys
<1>4. pc[s] \notin Inserted => s \notin VersionsOf(k) /\ s \notin Listed(k)
  BY <1>3 DEF TypeInv, MentionedIsInserted, VersionsOf, Listed
<1>5. \A m \in VersionsOf(k) \cup Listed(k) : m \in Saves
  BY <1>3 DEF VersionsOf, Listed, TypeInv, TypeOK
<1> DEFINE Up == pc'[s] \notin Ended \cup {"version"} =>
                    \A m \in VersionsOf(k)' \ {s} : version'[m] < version'[s]
           On == ~KeepVersions /\ Stepwise(k) /\ pc'[s] # "partial" =>
                    IF pc'[s] \in Ended THEN Agreed(k)' ELSE SavePhase(k, s)'
<1>6. CASE IncVersion(s)
  <2>1. /\ VersionsOf(k)' = VersionsOf(k) /\ Listed(k)' = Listed(k)
        /\ pc[s] = "version" /\ pc'[s] = "insert"
    BY <1>2, <1>6 DEF IncVersion, SaveMoves, VersionsOf, Listed, TypeInv, TypeOK
  <2>2. Up
    BY <1>4, <1>5, <1>6, <2>1 DEF IncVersion, TypeInv, TypeOK, Inserted
  <2>3. On
    BY <1>1, <1>3, <2>1 DEF SavePhase, Agreed, Ended
  <2> QED
    BY <1>1, <2>2, <2>3, SaveOwn
<1>7. CASE Insert(s)
  <2>1. /\ pc[s] = "insert" /\ Listed(k)' = Listed(k) /\ version' = version
        /\ IF IsDuplicate(s) THEN pc'[s] = "aborted" /\ VersionsOf(k)' = VersionsOf(k)
           ELSE pc'[s] = "find" /\ VersionsOf(k)' = VersionsOf(k) \cup {s}
    BY <1>2, <1>7 DEF Insert, SaveMoves, VersionsOf, Listed, TypeInv, TypeOK
  <2>2. Up
    BY <1>3, <2>1 DEF Ended
  <2>3. On
    BY <1>1, <1>3, <1>4, <2>1 DEF SavePhase, Agreed, Ended, Inserted
  <2> QED
    BY <1>1, <2>2, <2>3, SaveOwn
<1>8. CASE FindOthers(s)
  <2>1. /\ pc[s] = "find" /\ Listed(k)' = Listed(k) /\ VersionsOf(k)' = VersionsOf(k)
        /\ version' = version /\ ids'[s] = VersionsOf(k) \ {s}
        /\ \/ pc'[s] = "delete"
           \/ /\ pc'[s] = "link" /\ (VersionsOf(k) \ {s} = {} \/ KeepVersions)
              /\ bulk'[s] = {"add", "pull"}
    BY <1>2, <1>8
    DEF FindOthers, OtherVersions, SaveMoves, VersionsOf, Listed, TypeInv, TypeOK, dbVars
  <2>2. Up
    BY <1>3, <2>1 DEF Ended
  <2>3. On
    BY <1>1, <1>3, <2>1 DEF SavePhase, Ended
  <2> QED
    BY <1>1, <2>2, <2>3, SaveOwn
<1>9. CASE DeleteOthers(s)
  <2>1. /\ pc[s] = "delete" /\ Listed(k)' = Listed(k) /\ VersionsOf(k)' = VersionsOf(k) \ ids[s]
        /\ version' = version /\ ids' = ids /\ pc'[s] = "link" /\ bulk'[s] = {"add", "pull"}
    BY <1>2, <1>9 DEF DeleteOthers, SaveMoves, VersionsOf, Listed, TypeInv, TypeOK
  <2>2. Up
    BY <1>3, <2>1 DEF Ended
  <2>3. On
    BY <1>1, <1>3, <2>1 DEF SavePhase, Ended
  <2> QED
    BY <1>1, <2>2, <2>3, SaveOwn
<1>10. CASE AddRef(s) \/ PullRefs(s)
  <2>1. /\ pc[s] = "link" /\ pc'[s] \in {"link", "done"} /\ version' = version
        /\ VersionsOf(k)' = VersionsOf(k)
    BY <1>2, <1>10 DEF AddRef, PullRefs, UpdateRefs, SaveMoves, VersionsOf, TypeInv, TypeOK
  <2>2. Up
    BY <1>3, <2>1 DEF Ended
  <2>3. ASSUME AddRef(s), k[1] \in locations
        PROVE  /\ Listed(k)' = Listed(k) \cup {s} /\ "add" \in bulk[s]
               /\ bulk'[s] = bulk[s] \ {"add"}
               /\ IF bulk[s] = {"add"} THEN pc'[s] = "done" ELSE pc'[s] = "link" /\ ids' = ids
    BY <1>2, <1>3, <2>3 DEF AddRef, UpdateRefs, SaveMoves, Listed, TypeInv, TypeOK
  <2>4. ASSUME PullRefs(s), k[1] \in locations
        PROVE  /\ Listed(k)' = Listed(k) \ ids[s] /\ "pull" \in bulk[s]
               /\ bulk'[s] = bulk[s] \ {"pull"}
               /\ IF bulk[s] = {"pull"} THEN pc'[s] = "done" ELSE pc'[s] = "link" /\ ids' = ids
    BY <1>2, <1>3, <2>4 DEF PullRefs, UpdateRefs, SaveMoves, Listed, TypeInv, TypeOK
  <2>5. bulk[s] \subseteq {"add", "pull"}
    BY DEF TypeInv, TypeOK
  <2>6. On
    <3> SUFFICES ASSUME ~KeepVersions, Stepwise(k)
                 PROVE  IF pc'[s] \in Ended THEN Agreed(k)' ELSE SavePhase(k, s)'
      OBVIOUS
    <3>1. /\ VersionsOf(k) = {s} /\ Listed(k) \subseteq ids[s] \cup {s} /\ s \notin ids[s]
          /\ s \in Listed(k) \/ "add" \in bulk[s]
          /\ Listed(k) \subseteq {s} \/ "pull" \in bulk[s]
          /\ k[1] \in locations
      BY <1>3, <2>1 DEF SavePhase
    <3>2. CASE AddRef(s)
      BY <1>1, <2>1, <2>3, <2>5, <3>1, <3>2 DEF SavePhase, Agreed, Ended
    <3>3. CASE PullRefs(s)
      BY <1>1, <2>1, <2>4, <2>5, <3>1, <3>3 DEF SavePhase, Agreed, Ended
    <3> QED
      BY <1>10, <3>2, <3>3
  <2> QED
    BY <1>1, <2>2, <2>6, SaveOwn
<1>11. CASE SaveFails(s)
  <2>1. /\ Listed(k)' = Listed(k) /\ VersionsOf(k)' = VersionsOf(k)
        /\ pc'[s] = IF pc[s] \in {"version", "insert"} THEN "aborted" ELSE "partial"
    BY <1>2, <1>11 DEF SaveFails, VersionsOf, Listed, TypeInv, TypeOK, dbVars
  <2>2. Up
    BY <2>1 DEF Ended
  <2>3. On
    BY <1>3, <2>1 DEF SavePhase, Agreed, Ended
  <2> QED
    BY <1>1, <2>2, <2>3, SaveOwn
<1> QED
  BY <1>6, <1>7, <1>8, <1>9, <1>10, <1>11 DEF SaveStep

\* The step of a task that has its metric to itself.
LEMMA RemovalSerial ==
    ASSUME TypeInv, Homes, NEW r \in Removals, RemovalStep(r) \/ RemovalFails(r),
           NEW k \in Keys, k = Key(target[r]), Serial(k)
    PROVE  Serial(k)'
<1> DEFINE m == target[r]
<1>1. /\ UNCHANGED <<version, location, slug, locations, pc, ids, bulk, dpc, loaded>>
      /\ rpc[r] \notin Ended
      /\ \A x \in Removals \ {r} : rpc'[x] = rpc[x] /\ target'[x] = target[x]
      /\ store' \subseteq store
  BY DEF TypeInv, TypeOK, RemovalStep, FindRemoved, RemoveMetric, Unlink, RemovalFails,
     TaskMoves, dbVars, saveVars, deleteVars, Ended
<1>2. \A x : Key(x)' = Key(x)
  BY <1>1 DEF Key
<1>3. m \in Saves /\ location[m] = k[1] /\ k[1] \in Locations /\ m # None
  BY <1>1, MetricAssumption DEF Homes, TasksHaveTargets, Key, Keys
<1>4. r \in RemovalsOf(k) /\ r \in LiveRemovals(k)
  BY <1>1, <1>3 DEF RemovalsOf, LiveRemovals
<1>5. LiveSaves(k) = {}
  BY <1>4 DEF Serial, SavesAlone
<1>6. SavesOf(k)' = SavesOf(k) /\ LiveSaves(k)' = {}
  BY <1>1, <1>2, <1>5 DEF SavesOf, LiveSaves
<1>7. SavesAlone(k)' /\ Newest(k)'
  BY <1>6 DEF SavesAlone, Newest
<1>8. ASSUME ~KeepVersions, ~Partial(k)' PROVE Stepwise(k)'
  <2>1. \A x \in RemovalsOf(k) : rpc[x] = "partial" => x \in RemovalsOf(k)' /\ rpc'[x] = "partial"
    BY <1>1, <1>2 DEF RemovalsOf, Ended
  <2>2. ~Partial(k)
    BY <1>1, <1>6, <1>8, <2>1 DEF Partial
  <2>3. /\ Stepwise(k) /\ LiveRemovals(k) = {r} /\ dpc[k[1]] \in Ended /\ RemovalPhase(k, r)
    BY <1>4, <1>8, <2>2 DEF Serial, Stepwise, RemovalsAlone
  <2>4. LiveRemovals(k)' \subseteq {r}
    <3>1. \A x \in Removals \ {r} : x \in RemovalsOf(k)' <=> x \in RemovalsOf(k)
      BY <1>1, <1>2 DEF RemovalsOf
    <3> QED
      BY <1>1, <2>3, <3>1 DEF LiveRemovals, RemovalsOf
  <2>5. RemovalsAlone(k)' /\ DeletePhase(k)'
    BY <1>1, <2>3, <2>4 DEF RemovalsAlone, DeletePhase, Ended
  <2>6. \/ r \in LiveRemovals(k)' /\ RemovalPhase(k, r)'
        \/ LiveRemovals(k)' = {} /\ Agreed(k)'
    <3>1. CASE FindRemoved(r)
      <4>1. /\ rpc[r] = "find" /\ target[r] \in store
            /\ VersionsOf(k)' = VersionsOf(k) /\ Listed(k)' = Listed(k)
        BY <1>2, <2>3, <3>1 DEF RemovalPhase, FindRemoved, VersionsOf, Listed, dbVars
      <4>2. rpc'[r] = "remove" /\ target'[r] = m
        BY <3>1, <4>1 DEF FindRemoved, TaskMoves, TypeInv, TypeOK
      <4> QED
        BY <1>1, <1>2, <1>3, <2>3, <4>1, <4>2
           DEF RemovalPhase, Agreed, LiveRemovals, RemovalsOf, Ended
    <3>2. CASE RemoveMetric(r)
      <4>1. /\ rpc[r] = "remove" /\ VersionsOf(k)' = VersionsOf(k) \ {m} /\ Listed(k)' = Listed(k)
        BY <1>2, <3>2 DEF RemoveMetric, VersionsOf, Listed
      <4>2. rpc'[r] = "unlink" /\ target'[r] = m
        BY <3>2 DEF RemoveMetric, TaskMoves, TypeInv, TypeOK
      <4>3. VersionsOf(k) = {m} /\ Listed(k) = {m}
        BY <2>3, <4>1 DEF RemovalPhase, Agreed
      <4> QED
        BY <1>1, <1>2, <1>3, <2>3, <4>1, <4>2, <4>3
           DEF RemovalPhase, LiveRemovals, RemovalsOf, Ended
    <3>3. CASE Unlink(r)
      <4>1. /\ rpc[r] = "unlink" /\ k[1] \in locations /\ VersionsOf(k) = {} /\ Listed(k) = {m}
        BY <2>3, <3>3 DEF Unlink, RemovalPhase
      <4>2. VersionsOf(k)' = {} /\ Listed(k)' = {}
        BY <1>2, <1>3, <3>3, <4>1 DEF Unlink, VersionsOf, Listed, TypeInv, TypeOK
      <4>3. rpc'[r] = "done"
        BY <3>3 DEF Unlink, TaskMoves, TypeInv, TypeOK
      <4> QED
        BY <2>4, <4>2, <4>3 DEF Agreed, LiveRemovals, Ended
    <3>4. CASE RemovalFails(r)
      <4>1. rpc'[r] = IF rpc[r] = "unlink" THEN "partial" ELSE "aborted"
        BY <3>4 DEF RemovalFails, TaskMoves, TypeInv, TypeOK
      <4>2. rpc[r] # "unlink"
        <5>1. SUFFICES ASSUME rpc[r] = "unlink" PROVE FALSE
          OBVIOUS
        <5>2. rpc'[r] = "partial" /\ target'[r] = m
          BY <3>4, <4>1, <5>1 DEF RemovalFails, TaskMoves
        <5> QED
          BY <1>2, <1>3, <1>8, <5>2 DEF Partial, RemovalsOf
      <4>3. VersionsOf(k)' = VersionsOf(k) /\ Listed(k)' = Listed(k)
        BY <1>2, <3>4 DEF RemovalFails, VersionsOf, Listed, dbVars
      <4>4. Agreed(k)
        BY <1>1, <2>3, <4>2 DEF RemovalPhase, TypeInv, TypeOK, RemovalPC, Ended
      <4> QED
        BY <2>4, <4>1, <4>2, <4>3, <4>4 DEF Agreed, LiveRemovals, Ended
    <3> QED
      BY <3>1, <3>2, <3>3, <3>4 DEF RemovalStep
  <2>7. r \in LiveRemovals(k)' => Busy(k)'
    BY DEF LiveRemovals, Busy
  <2> QED
    BY <1>6, <2>4, <2>5, <2>6, <2>7 DEF Stepwise
<1> QED
  BY <1>7, <1>8 DEF Serial

\* The steps of the deletion of a location.
LEMMA DeleteSerial ==
    ASSUME TypeInv, Homes, NEW l \in Locations, DeleteStep(l) \/ DeleteFails(l),
           NEW k \in Keys, k[1] = l, Serial(k)
    PROVE  Serial(k)'
<1>1. /\ UNCHANGED <<version, location, slug, pc, ids, bulk, rpc, target>>
      /\ dpc[l] \notin Ended
  BY DEF DeleteStep, RemoveLocation, CleanMetrics, DeleteFails, DeleteMoves, Ended,
     dbVars, saveVars, removalVars
<1>2. \A x : Key(x)' = Key(x)
  BY <1>1 DEF Key
<1>3. SavesOf(k)' = SavesOf(k) /\ RemovalsOf(k)' = RemovalsOf(k)
  BY <1>1, <1>2 DEF SavesOf, RemovalsOf
<1>4. LiveSaves(k)' = {} /\ LiveRemovals(k)' = LiveRemovals(k)
  BY <1>1, <1>3 DEF Serial, SavesAlone, LiveSaves, LiveRemovals
<1>5. SavesAlone(k)' /\ Newest(k)'
  BY <1>4 DEF SavesAlone, Newest
<1>6. ASSUME ~KeepVersions, ~Partial(k)' PROVE Stepwise(k)'
  <2>1. ~Partial(k) /\ dpc'[l] # "partial"
    BY <1>1, <1>3, <1>6 DEF Partial, Ended
  <2>2. Stepwise(k) /\ LiveRemovals(k) = {} /\ DeletePhase(k)
    BY <1>1, <1>6, <2>1 DEF Serial, Stepwise, RemovalsAlone
  <2>3. /\ dpc'[l] \notin Ended => DeletePhase(k)'
        /\ dpc'[l] \in Ended => Agreed(k)'
    <3>1. CASE RemoveLocation(l)
      <4>1. /\ dpc[l] = "remove" /\ dpc'[l] = "clean" /\ loaded' = loaded
            /\ VersionsOf(k)' = VersionsOf(k) /\ Listed(k)' = {}
        BY <1>2, <3>1 DEF RemoveLocation, DeleteMoves, VersionsOf, Listed, TypeInv, TypeOK
      <4> QED
        BY <2>2, <4>1 DEF DeletePhase, Ended
    <3>2. CASE CleanMetrics(l)
      <4>1. /\ dpc[l] = "clean" /\ dpc'[l] = "done"
            /\ VersionsOf(k)' = VersionsOf(k) \ loaded[l] /\ Listed(k)' = Listed(k)
        BY <1>2, <3>2 DEF CleanMetrics, DeleteMoves, VersionsOf, Listed, TypeInv, TypeOK
      <4>2. VersionsOf(k)' = {} /\ Listed(k)' = {}
        BY <2>2, <4>1 DEF DeletePhase
      <4> QED
        BY <4>1, <4>2 DEF Agreed, Ended
    <3>3. CASE DeleteFails(l)
      <4>1. /\ dpc'[l] = IF dpc[l] = "clean" THEN "partial" ELSE "aborted"
            /\ VersionsOf(k)' = VersionsOf(k) /\ Listed(k)' = Listed(k)
        BY <1>2, <3>3 DEF DeleteFails, VersionsOf, Listed, TypeInv, TypeOK, dbVars
      <4>2. dpc[l] = "remove"
        BY <1>1, <2>1, <4>1 DEF TypeInv, TypeOK, DeletePC, Ended
      <4> QED
        BY <2>2, <4>1, <4>2 DEF DeletePhase, Agreed, Ended
    <3> QED
      BY <3>1, <3>2, <3>3 DEF DeleteStep
  <2>4. dpc'[l] \notin Ended => Busy(k)'
    BY DEF Busy
  <2>5. dpc'[l] \in Ended => DeletePhase(k)'
    BY DEF DeletePhase, Ended
  <2> QED
    BY <1>4, <2>2, <2>3, <2>4, <2>5 DEF Stepwise, RemovalsAlone
<1> QED
  BY <1>5, <1>6 DEF Serial

\* An operation that starts while none is under way has the metric to itself.
LEMMA Rests ==
    ASSUME TypeInv, NEW k \in Keys, Serial(k), ~Busy(k)
    PROVE  /\ LiveSaves(k) = {} /\ LiveRemovals(k) = {} /\ dpc[k[1]] \in Ended
           /\ ~KeepVersions /\ ~Partial(k) => Agreed(k)
BY DEF Busy, LiveSaves, LiveRemovals, Serial, Stepwise

LEMMA DeliverSerial ==
    ASSUME TypeInv, Homes, NEW s \in Saves, NEW l \in Locations, NEW g \in Slugs,
           Deliver(s, l, g), NEW k \in Keys, k = <<l, g>>, Serial(k), ~Busy(k)
    PROVE  Serial(k)'
<1>1. /\ UNCHANGED <<store, version, locations, refs, ids, bulk, rpc, target, dpc, loaded>>
      /\ pc[s] = "idle" /\ Key(s)' = k
      /\ pc'[s] = IF k[1] \in locations THEN "version" ELSE "aborted"
      /\ \A x \in Saves \ {s} : pc'[x] = pc[x] /\ Key(x)' = Key(x)
  BY DEF TypeInv, TypeOK, Deliver, SaveMoves, removalVars, deleteVars, Key
<1>2. /\ s \notin store /\ \A x \in Locations : s \notin refs[x]
      /\ \A r \in Removals : s # target[r]
  BY <1>1 DEF TypeInv, MentionedIsInserted, Inserted
<1>3. VersionsOf(k)' = VersionsOf(k) /\ Listed(k)' = Listed(k)
  BY <1>1, <1>2 DEF VersionsOf, Listed, Keys, TypeInv, TypeOK
<1>4. SavesOf(k)' = SavesOf(k) \cup {s} /\ s \notin SavesOf(k)
  BY <1>1 DEF SavesOf
<1>5. RemovalsOf(k)' = RemovalsOf(k)
  BY <1>1, <1>2 DEF RemovalsOf, TypeInv, TypeOK
<1>6. LiveRemovals(k)' = {} /\ dpc'[k[1]] \in Ended
  BY <1>1, <1>5, Rests DEF LiveRemovals
<1>7. LiveSaves(k)' = IF k[1] \in locations THEN {s} ELSE {}
  <2>1. \A x \in SavesOf(k) : pc'[x] = pc[x] /\ pc[x] \in Ended
    BY <1>1, <1>4, Rests DEF SavesOf, LiveSaves
  <2> QED
    BY <1>1, <1>4, <2>1 DEF LiveSaves, Ended
<1>8. SavesAlone(k)' /\ RemovalsAlone(k)' /\ DeletePhase(k)' /\ Newest(k)'
  BY <1>1, <1>6, <1>7 DEF SavesAlone, RemovalsAlone, DeletePhase, Newest, Ended
<1>9. ASSUME ~KeepVersions, ~Partial(k)' PROVE Stepwise(k)'
  <2>1. ~Partial(k)
    BY <1>1, <1>4, <1>5, <1>9 DEF Partial, SavesOf
  <2>2. Agreed(k)'
    BY <1>3, <1>9, <2>1, Rests DEF Agreed
  <2> QED
    BY <1>1, <1>6, <1>7, <1>8, <2>2 DEF Stepwise, SavePhase
<1> QED
  BY <1>8, <1>9 DEF Serial

\* Tasks that start on one metric, which its location lists once.
LEMMA RequestSerial ==
    ASSUME TypeInv, Homes, NEW l \in Locations,
           \/ \E r \in Removals, m \in Saves : RemoveOne(r, m) /\ location[m] = l
           \/ \E R \in SUBSET Removals : RemoveAll(l, R),
           NEW k \in Keys, k[1] = l, Serial(k), ~Busy(k)
    PROVE  Serial(k)'
<1>1. UNCHANGED <<store, version, location, slug, locations, refs, pc, ids, bulk, dpc, loaded>>
  BY DEF RemoveOne, RemoveAll, dbVars, saveVars, deleteVars
<1>2. \A m : Key(m)' = Key(m)
  BY <1>1 DEF Key
<1>3. /\ VersionsOf(k)' = VersionsOf(k) /\ Listed(k)' = Listed(k) /\ SavesOf(k)' = SavesOf(k)
      /\ LiveSaves(k)' = {} /\ dpc'[k[1]] \in Ended
  BY <1>1, <1>2, Rests DEF VersionsOf, Listed, SavesOf, LiveSaves
<1>4. SavesAlone(k)' /\ Newest(k)'
  BY <1>3 DEF SavesAlone, Newest
<1>5. ASSUME ~KeepVersions, ~Partial(k)' PROVE Stepwise(k)'
  <2>1. \A x \in Removals : \/ rpc'[x] = rpc[x] /\ target'[x] = target[x]
                            \/ target[x] = None /\ rpc[x] = "idle"
    <3>1. ASSUME NEW r \in Removals, NEW m \in Saves, RemoveOne(r, m), NEW x \in Removals
          PROVE  \/ rpc'[x] = rpc[x] /\ target'[x] = target[x]
                 \/ target[x] = None /\ rpc[x] = "idle"
      BY <3>1 DEF TypeInv, TypeOK, Homes, TasksHaveTargets, RemoveOne
    <3>2. ASSUME NEW R \in SUBSET Removals, RemoveAll(l, R), NEW x \in Removals
          PROVE  \/ rpc'[x] = rpc[x] /\ target'[x] = target[x]
                 \/ target[x] = None /\ rpc[x] = "idle"
      BY <3>2 DEF Homes, TasksHaveTargets, RemoveAll
    <3> QED
      BY <3>1, <3>2
  <2>2. ~Partial(k)
    BY <1>1, <1>2, <1>3, <1>5, <2>1 DEF Partial, RemovalsOf
  <2>3. Agreed(k) /\ Agreed(k)'
    BY <1>3, <1>5, <2>2, Rests DEF Agreed
  <2>4. ASSUME NEW x \in LiveRemovals(k)'
        PROVE  /\ target'[x] \in VersionsOf(k) /\ rpc'[x] \in {"find", "remove"}
               /\ k[1] \in locations
    <3>1. x \in Removals /\ rpc'[x] \notin Ended /\ Key(target'[x]) = k /\ target'[x] # None
      BY <1>2, <2>4 DEF LiveRemovals, RemovalsOf
    <3>2. ~(rpc'[x] = rpc[x] /\ target'[x] = target[x])
      BY <3>1, Rests DEF LiveRemovals, RemovalsOf
    <3>3. ASSUME NEW r \in Removals, NEW m \in Saves, RemoveOne(r, m), location[m] = l
          PROVE  /\ target'[x] \in VersionsOf(k) /\ rpc'[x] \in {"find", "remove"}
                 /\ k[1] \in locations
      <4>1. x = r
        BY <3>1, <3>2, <3>3 DEF RemoveOne, TypeInv, TypeOK
      <4>2. target'[x] = m /\ rpc'[x] = "remove" /\ m \in store /\ l \in locations
        BY <3>3, <4>1 DEF RemoveOne, TypeInv, TypeOK
      <4> QED
        BY <3>1, <4>2 DEF VersionsOf
    <3>4. ASSUME NEW R \in SUBSET Removals, RemoveAll(l, R)
          PROVE  /\ target'[x] \in VersionsOf(k) /\ rpc'[x] \in {"find", "remove"}
                 /\ k[1] \in locations
      <4>1. x \in R
        BY <3>1, <3>2, <3>4 DEF RemoveAll
      <4>2. target'[x] \in refs[l] /\ rpc'[x] = "find" /\ l \in locations
        BY <3>4, <4>1 DEF RemoveAll
      <4>3. target'[x] \in Listed(k)
        BY <3>1, <4>2 DEF Listed
      <4> QED
        BY <2>3, <4>2, <4>3 DEF Agreed
    <3> QED
      BY <3>3, <3>4
  <2>5. ASSUME NEW x \in LiveRemovals(k)', NEW y \in LiveRemovals(k)' PROVE x = y
    <3>1. target'[x] = target'[y] /\ x \in Removals /\ y \in Removals
      BY <2>3, <2>4 DEF Agreed, LiveRemovals, RemovalsOf
    <3>2. /\ ~(rpc'[x] = rpc[x] /\ target'[x] = target[x])
          /\ ~(rpc'[y] = rpc[y] /\ target'[y] = target[y])
      BY <1>2, Rests DEF LiveRemovals, RemovalsOf
    <3>3. ASSUME NEW r \in Removals, NEW m \in Saves, RemoveOne(r, m)
          PROVE  x = y
      BY <3>1, <3>2, <3>3 DEF RemoveOne, TypeInv, TypeOK
    <3>4. ASSUME NEW R \in SUBSET Removals, RemoveAll(l, R)
          PROVE  x = y
      <4>1. x \in R /\ y \in R
        BY <3>1, <3>2, <3>4 DEF RemoveAll
      <4> QED
        BY <3>1, <3>4, <4>1 DEF RemoveAll
    <3> QED
      BY <3>3, <3>4
  <2>6. \A x \in LiveRemovals(k)' : LiveRemovals(k)' = {x}
    BY <2>5
  <2>7. \A x \in LiveRemovals(k)' : RemovalPhase(k, x)'
    BY <1>1, <1>3, <2>3, <2>4 DEF RemovalPhase
  <2> QED
    BY <1>3, <2>3, <2>6, <2>7 DEF Stepwise, RemovalsAlone, DeletePhase, Ended
<1> QED
  BY <1>4, <1>5 DEF Serial

LEMMA DeletionStartsSerial ==
    ASSUME TypeInv, Homes, NEW l \in Locations, DeleteLocation(l),
           NEW k \in Keys, k[1] = l, Serial(k), ~Busy(k)
    PROVE  Serial(k)'
<1>1. /\ UNCHANGED <<store, version, location, slug, locations, refs, pc, ids, bulk, rpc, target>>
      /\ dpc'[l] = "remove" /\ loaded'[l] = refs[l]
  BY DEF DeleteLocation, DeleteMoves, dbVars, saveVars, removalVars, TypeInv, TypeOK
<1>2. \A m : Key(m)' = Key(m)
  BY <1>1 DEF Key
<1>3. /\ VersionsOf(k)' = VersionsOf(k) /\ Listed(k)' = Listed(k)
      /\ SavesOf(k)' = SavesOf(k) /\ RemovalsOf(k)' = RemovalsOf(k)
      /\ LiveSaves(k)' = {} /\ LiveRemovals(k)' = {}
  BY <1>1, <1>2, Rests DEF VersionsOf, Listed, SavesOf, LiveSaves, RemovalsOf, LiveRemovals
<1>4. SavesAlone(k)' /\ Newest(k)' /\ RemovalsAlone(k)'
  BY <1>3 DEF SavesAlone, Newest, RemovalsAlone
<1>5. ASSUME ~KeepVersions, ~Partial(k)' PROVE Stepwise(k)'
  <2>1. ~Partial(k)
    BY <1>1, <1>3, <1>5, Rests DEF Partial, DeleteLocation, DeleteMoves
  <2>2. Agreed(k) /\ Agreed(k)'
    BY <1>3, <1>5, <2>1, Rests DEF Agreed
  <2>3. DeletePhase(k)'
    BY <1>1, <1>3, <2>2 DEF DeletePhase, Agreed, Listed
  <2>4. Busy(k)'
    BY <1>1 DEF Busy, Ended
  <2> QED
    BY <1>3, <1>4, <2>3, <2>4 DEF Stepwise
<1> QED
  BY <1>4, <1>5 DEF Serial

LEMMA NextSerial == TypeInv /\ SerialInv /\ [Next]_vars => SerialInv'
<1> SUFFICES ASSUME TypeInv, SerialInv, [Next]_vars, NEW k \in Keys \ overlapped'
             PROVE  Serial(k)'
  BY NextHomes DEF SerialInv
<1>1. Homes /\ Serial(k)
  BY OverlapsStay DEF SerialInv
<1>2. ASSUME NEW s \in Saves, SaveStep(s) \/ SaveFails(s)
      PROVE  Serial(k)'
  BY <1>1, <1>2, SaveSame, SameSerial, SaveSerial
<1>3. ASSUME NEW s \in Saves, NEW l \in Locations, NEW g \in Slugs, Deliver(s, l, g)
      PROVE  Serial(k)'
  <2>1. k = <<l, g>> => ~Busy(k)
    BY <1>3 DEF Deliver, StartOn
  <2> QED
    BY <1>1, <1>3, <2>1, DeliverSame, SameSerial, DeliverSerial
<1>4. ASSUME NEW r \in Removals, RemovalStep(r) \/ RemovalFails(r)
      PROVE  Serial(k)'
  BY <1>1, <1>4, RemovalSame, SameSerial, RemovalSerial
<1>5. ASSUME NEW r \in Removals, NEW m \in Saves, RemoveOne(r, m)
      PROVE  Serial(k)'
  <2>1. CASE k # Key(m)
    BY <1>1, <1>5, <2>1, RequestSame, SameSerial
  <2>2. CASE k = Key(m)
    <3>1. ~Busy(k)
      BY <1>5, <2>2 DEF RemoveOne, StartOn
    <3>2. location[m] = k[1] /\ k[1] \in Locations
      BY <2>2 DEF Key, Keys
    <3> QED
      BY <1>1, <1>5, <3>1, <3>2, RequestSerial
  <2> QED
    BY <2>1, <2>2
<1>6. ASSUME NEW l \in Locations, NEW R \in SUBSET Removals, RemoveAll(l, R)
      PROVE  Serial(k)'
  <2>1. CASE k \notin {Key(m) : m \in refs[l]}
    BY <1>1, <1>6, <2>1, RequestSame, SameSerial
  <2>2. CASE k \in {Key(m) : m \in refs[l]}
    <3>1. ~Busy(k)
      BY <1>6, <2>2 DEF RemoveAll, StartOn
    <3>2. k[1] = l
      BY <1>1, <2>2 DEF Key, Homes, ListsAreOwn
    <3> QED
      BY <1>1, <1>6, <3>1, <3>2, RequestSerial
  <2> QED
    BY <2>1, <2>2
<1>7. ASSUME NEW l \in Locations, DeleteLocation(l) \/ DeleteStep(l) \/ DeleteFails(l)
      PROVE  Serial(k)'
  <2>1. CASE k[1] # l
    BY <1>1, <1>7, <2>1, DeleteSame, SameSerial
  <2>2. CASE k[1] = l
    <3>1. DeleteLocation(l) => ~Busy(k)
      <4>1. k \in {l} \X Slugs
        BY <2>2 DEF Keys
      <4> QED
        BY <4>1 DEF DeleteLocation, StartOn
    <3> QED
      BY <1>1, <1>7, <2>2, <3>1, DeleteSerial, DeletionStartsSerial
  <2> QED
    BY <2>1, <2>2
<1>8. CASE UNCHANGED vars
  <2>1. UNCHANGED <<store, version, location, slug, locations, refs, pc, ids, bulk, rpc, target,
                    dpc, loaded>>
    BY <1>8 DEF vars, dbVars, saveVars, removalVars, deleteVars
  <2>2. Same(k)
    BY <2>1 DEF Same, VersionsOf, Listed, SavesOf, RemovalsOf, Key
  <2> QED
    BY <1>1, <2>2, SameSerial
<1> QED
  BY <1>2, <1>3, <1>4, <1>5, <1>6, <1>7, <1>8 DEF Next

LEMMA InitSerial == Init => SerialInv
<1> SUFFICES ASSUME Init PROVE SerialInv
  OBVIOUS
<1>1. Homes
  BY DEF Init, Homes, FoundAreOthers, ListsAreOwn, TasksHaveTargets, Ended
<1>2. ASSUME NEW k \in Keys PROVE Serial(k)
  <2>1. SavesOf(k) = {} /\ RemovalsOf(k) = {} /\ VersionsOf(k) = {} /\ Listed(k) = {}
    BY DEF Init, SavesOf, RemovalsOf, VersionsOf, Listed, Keys
  <2>2. dpc[k[1]] = "idle"
    BY DEF Init, Keys
  <2>3. LiveSaves(k) = {} /\ LiveRemovals(k) = {}
    BY <2>1 DEF LiveSaves, LiveRemovals
  <2> QED
    BY <2>1, <2>2, <2>3
    DEF Serial, Stepwise, SavesAlone, RemovalsAlone, Newest, DeletePhase, Agreed
<1> QED
  BY <1>1, <1>2 DEF SerialInv

LEMMA SerialInvariant == Spec => [](TypeInv /\ SerialInv)
<1> QED BY InitSerial, NextSerial, TypeInvariant, PTL DEF Spec

\* Where the operations on a metric came one after the other and none stopped
\* half way, the collection and the list of the location agree on it at rest
\* (the post-save and post-remove hooks of metrics.ts and locations.ts).
THEOREM SerialAgree == Spec => []SerialConsistency
<1>1. SerialInv => SerialConsistency
  BY DEF SerialInv, SerialConsistency, Serial, Stepwise, Agreed, Listed
<1> QED BY <1>1, SerialInvariant, PTL

\* A save that has its metric to itself deletes only versions before its own.
THEOREM SerialReplace == Spec => SerialSavesReplacePrevious
<1> DEFINE Older == \A s \in Saves : \A m \in store \ store' :
          pc[s] = "delete" /\ pc'[s] = "link" /\ Key(s) \notin overlapped =>
              version[m] < version[s]
<1>1. TypeInv /\ SerialInv /\ [Next]_vars => Older
  <2> SUFFICES ASSUME TypeInv, SerialInv, [Next]_vars, NEW s \in Saves, NEW m \in store \ store',
                      pc[s] = "delete", pc'[s] = "link", Key(s) \notin overlapped
               PROVE  version[m] < version[s]
    OBVIOUS
  <2>1. DeleteOthers(s)
    <3>1. ASSUME NEW x \in Saves, SaveStep(x) \/ SaveFails(x)
          PROVE  DeleteOthers(s)
      BY <3>1 DEF TypeInv, TypeOK, SaveStep, IncVersion, Insert, FindOthers, AddRef, PullRefs,
         UpdateRefs, SaveFails, SaveMoves, DeleteOthers
    <3>2. ASSUME NEW x \in Saves, NEW l \in Locations, NEW g \in Slugs, Deliver(x, l, g)
          PROVE  FALSE
      BY <3>2 DEF TypeInv, TypeOK, Deliver, SaveMoves
    <3>3. ~(UNCHANGED pc)
      OBVIOUS
    <3> QED
      BY <3>1, <3>2, <3>3 DEF Next, RemovalStep, FindRemoved, RemoveMetric, Unlink, RemovalFails,
         RemoveOne, RemoveAll, DeleteLocation, DeleteStep, RemoveLocation, CleanMetrics,
         DeleteFails, dbVars, saveVars, vars
  <2>2. m \in ids[s]
    BY <2>1 DEF DeleteOthers
  <2>3. Key(s) \in Keys /\ m # s /\ m \in VersionsOf(Key(s))
    BY <2>2 DEF SerialInv, Homes, FoundAreOthers, TypeInv, DeliveredIsKeyed, VersionsOf
  <2>4. s \in LiveSaves(Key(s)) /\ Newest(Key(s))
    BY <2>3 DEF LiveSaves, SavesOf, Ended, SerialInv, Serial
  <2> QED
    BY <2>3, <2>4 DEF Newest
<1>2. SerialSavesReplacePrevious <=> [][Older]_vars
  BY DEF SerialSavesReplacePrevious
<1> HIDE DEF Older
<1> QED BY <1>1, <1>2, SerialInvariant, PTL DEF Spec
=============================================================================
