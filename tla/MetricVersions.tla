--------------------------- MODULE MetricVersions ---------------------------
(***************************************************************************)
(* The versions of a computed metric, and the list of metrics that each    *)
(* location keeps.                                                         *)
(*                                                                         *)
(* A worker publishes a computed metric over SNS.  Each delivery runs the  *)
(* subscriber's handler, which saves a new Metric document: the document   *)
(* takes the next version of its (location, slug), is inserted, and then   *)
(* replaces the previous versions in the collection and in the "metrics"   *)
(* list of the location.  Each database call is an await, so handlers      *)
(* interleave between any two of them, with each other, with the removal   *)
(* of metrics and with the deletion of the location.  A call may fail; the *)
(* handler then stops where it is.                                         *)
(***************************************************************************)
EXTENDS Naturals, FiniteSets

CONSTANTS
    Saves,        \* deliveries; each saves one document, and is its _id
    Removals,     \* tasks that remove one metric
    Locations,    \* the _ids of locations
    Slugs,        \* the metric slugs a worker computes
    KeepVersions, \* KEEP_METRIC_VERSIONS
    None          \* no location, no slug or no metric yet

ASSUME MetricAssumption ==
    /\ KeepVersions \in BOOLEAN
    /\ None \notin Saves \cup Locations \cup Slugs

VARIABLES
    store,      \* the Metric collection
    version,    \* the version of each document
    location,   \* its parent location
    slug,       \* its slug
    locations,  \* the Location collection
    refs,       \* the "metrics" list of each location
    pc,         \* where the handler of each delivery is
    ids,        \* the other versions it found
    bulk,       \* the operations of its bulkWrite still to be applied
    rpc,        \* where each removal task is
    target,     \* the metric it removes
    dpc,        \* where the DELETE handler of each location is
    loaded,     \* the "metrics" list that handler loaded
    overlapped  \* history: the metrics on which two operations overlapped

dbVars == <<store, version, location, slug, locations, refs>>
saveVars == <<pc, ids, bulk>>
removalVars == <<rpc, target>>
deleteVars == <<dpc, loaded>>
vars == <<dbVars, saveVars, removalVars, deleteVars, overlapped>>

-----------------------------------------------------------------------------

SavePC == {"idle", "version", "insert", "find", "delete", "link",
           "done", "aborted", "partial"}
RemovalPC == {"idle", "find", "remove", "unlink", "done", "aborted", "partial"}
DeletePC == {"idle", "remove", "clean", "done", "aborted", "partial"}

\* "aborted" stopped before it changed anything, "partial" after.
Ended == {"idle", "done", "aborted", "partial"}

Keys == Locations \X Slugs
Key(m) == <<location[m], slug[m]>>
SameMetric(m, n) == Key(m) = Key(n)

VersionsOf(k) == {m \in store : Key(m) = k}

\* The operations under way on metric k.
SavesOf(k) == {s \in Saves : pc[s] # "idle" /\ Key(s) = k}
RemovalsOf(k) == {r \in Removals : target[r] # None /\ Key(target[r]) = k}
Busy(k) ==
    \/ \E s \in SavesOf(k) : pc[s] \notin Ended
    \/ \E r \in RemovalsOf(k) : rpc[r] \notin Ended
    \/ dpc[k[1]] \notin Ended

\* An operation stopped half way through metric k.
Partial(k) ==
    \/ \E s \in SavesOf(k) : pc[s] = "partial"
    \/ \E r \in RemovalsOf(k) : rpc[r] = "partial"
    \/ dpc[k[1]] = "partial"

Init ==
    /\ store = {}
    /\ version = [s \in Saves |-> 0]
    /\ location = [s \in Saves |-> None]
    /\ slug = [s \in Saves |-> None]
    /\ locations = Locations
    /\ refs = [l \in Locations |-> {}]
    /\ pc = [s \in Saves |-> "idle"]
    /\ ids = [s \in Saves |-> {}]
    /\ bulk = [s \in Saves |-> {}]
    /\ rpc = [r \in Removals |-> "idle"]
    /\ target = [r \in Removals |-> None]
    /\ dpc = [l \in Locations |-> "idle"]
    /\ loaded = [l \in Locations |-> {}]
    /\ overlapped = {}

\* The history: starting an operation on keys K while one is under way.
StartOn(K) == overlapped' = overlapped \cup {k \in K : Busy(k)}

-----------------------------------------------------------------------------
(* Saving a metric.                                                        *)

SaveMoves(s, from, to) == pc[s] = from /\ pc' = [pc EXCEPT ![s] = to]

\* A message arrives, and the document is validated: its location must exist.
Deliver(s, l, k) ==
    /\ SaveMoves(s, "idle", IF l \in locations THEN "version" ELSE "aborted")
    /\ location' = [location EXCEPT ![s] = l]
    /\ slug' = [slug EXCEPT ![s] = k]
    /\ StartOn({<<l, k>>})
    /\ UNCHANGED <<store, version, locations, refs, ids, bulk,
                   removalVars, deleteVars>>

\* Mistake: the version goes down.
DecVersion(s) ==
    /\ SaveMoves(s, "version", "insert")
    /\ \/ VersionsOf(Key(s)) = {} /\ UNCHANGED version
       \/ \E m \in VersionsOf(Key(s)) :
             version' = [version EXCEPT ![s] = version[m] - 1]
    /\ UNCHANGED <<store, location, slug, locations, refs, ids, bulk,
                   removalVars, deleteVars, overlapped>>

\* The document takes the version after the newest one it reads.
IncVersion(s) ==
    /\ SaveMoves(s, "version", "insert")
    /\ \/ VersionsOf(Key(s)) = {} /\ UNCHANGED version
       \/ \E m \in VersionsOf(Key(s)) :
             /\ \A n \in VersionsOf(Key(s)) : version[n] <= version[m]
             /\ version' = [version EXCEPT ![s] = version[m] + 1]
    /\ UNCHANGED <<store, location, slug, locations, refs, ids, bulk,
                   removalVars, deleteVars, overlapped>>

\* The unique index on (slug, location, version).
IsDuplicate(s) == \E m \in VersionsOf(Key(s)) : version[m] = version[s]

Insert(s) ==
    /\ SaveMoves(s, "insert", IF IsDuplicate(s) THEN "aborted" ELSE "find")
    /\ store' = IF IsDuplicate(s) THEN store ELSE store \cup {s}
    /\ UNCHANGED <<version, location, slug, locations, refs, ids, bulk,
                   removalVars, deleteVars, overlapped>>

OtherVersions(s) == VersionsOf(Key(s)) \ {s}

FindOthers(s) ==
    LET removing == OtherVersions(s) # {} /\ ~KeepVersions IN
    /\ SaveMoves(s, "find", IF removing THEN "delete" ELSE "link")
    /\ ids' = [ids EXCEPT ![s] = OtherVersions(s)]
    /\ bulk' = [bulk EXCEPT ![s] = IF removing THEN {} ELSE {"add", "pull"}]
    /\ UNCHANGED <<dbVars, removalVars, deleteVars, overlapped>>

\* Mistake: the other versions are taken off the list, and stay stored.
KeepOthers(s) ==
    /\ SaveMoves(s, "delete", "link")
    /\ bulk' = [bulk EXCEPT ![s] = {"add", "pull"}]
    /\ UNCHANGED <<dbVars, ids, removalVars, deleteVars, overlapped>>

DeleteOthers(s) ==
    /\ SaveMoves(s, "delete", "link")
    /\ store' = store \ ids[s]
    /\ bulk' = [bulk EXCEPT ![s] = {"add", "pull"}]
    /\ UNCHANGED <<version, location, slug, locations, refs, ids,
                   removalVars, deleteVars, overlapped>>

\* Mistake: the first operation of the bulkWrite ends it.
UpdateRefsOnce(s, op, new) ==
    /\ op \in bulk[s]
    /\ SaveMoves(s, "link", "done")
    /\ bulk' = [bulk EXCEPT ![s] = {}]
    /\ ids' = [ids EXCEPT ![s] = {}]
    /\ refs' = IF location[s] \in locations
               THEN [refs EXCEPT ![location[s]] = new] ELSE refs
    /\ UNCHANGED <<store, version, location, slug, locations,
                   removalVars, deleteVars, overlapped>>

\* The bulkWrite is unordered: each of its operations is atomic, the two
\* together are not.  An update of a location that is gone matches nothing.
UpdateRefs(s, op, new) ==
    /\ op \in bulk[s]
    /\ SaveMoves(s, "link", IF bulk[s] = {op} THEN "done" ELSE "link")
    /\ bulk' = [bulk EXCEPT ![s] = @ \ {op}]
    /\ ids' = IF bulk[s] = {op} THEN [ids EXCEPT ![s] = {}] ELSE ids
    /\ refs' = IF location[s] \in locations
               THEN [refs EXCEPT ![location[s]] = new] ELSE refs
    /\ UNCHANGED <<store, version, location, slug, locations,
                   removalVars, deleteVars, overlapped>>

AddRef(s) == UpdateRefs(s, "add", refs[location[s]] \cup {s})
PullRefs(s) == UpdateRefs(s, "pull", refs[location[s]] \ ids[s])

\* A database call fails: the handler answers success: false, and stops.
SaveFails(s) ==
    /\ pc[s] \notin Ended
    /\ pc' = [pc EXCEPT ![s] = IF @ \in {"version", "insert"}
                               THEN "aborted" ELSE "partial"]
    /\ ids' = [ids EXCEPT ![s] = {}]
    /\ bulk' = [bulk EXCEPT ![s] = {}]
    /\ UNCHANGED <<dbVars, removalVars, deleteVars, overlapped>>

-----------------------------------------------------------------------------
(* Removing metrics.                                                       *)

\* DELETE /metrics/:locationId/:metricId loads the metric it then removes.
RemoveOne(r, m) ==
    /\ m \in store
    /\ location[m] \in locations
    /\ rpc[r] = "idle"
    /\ rpc' = [rpc EXCEPT ![r] = "remove"]
    /\ target' = [target EXCEPT ![r] = m]
    /\ StartOn({Key(m)})
    /\ UNCHANGED <<dbVars, saveVars, deleteVars>>

\* DELETE /metrics/:locationId starts a task for each metric the location
\* lists.
RemoveAll(l, R) ==
    /\ l \in locations
    /\ \A r \in R : rpc[r] = "idle"
    /\ \E of \in [R -> refs[l]] :
          /\ \A m \in refs[l] : \E r \in R : of[r] = m
          /\ \A q, r \in R : of[q] = of[r] => q = r
          /\ target' = [r \in Removals |-> IF r \in R THEN of[r] ELSE target[r]]
    /\ rpc' = [r \in Removals |-> IF r \in R THEN "find" ELSE rpc[r]]
    /\ StartOn({Key(m) : m \in refs[l]})
    /\ UNCHANGED <<dbVars, saveVars, deleteVars>>

\* A task's target is forgotten when the task ends well or changed nothing.
TaskMoves(r, to) ==
    /\ rpc' = [rpc EXCEPT ![r] = to]
    /\ target' = IF to \in {"done", "aborted"}
                 THEN [target EXCEPT ![r] = None] ELSE target

\* Each task first loads its metric; "not found" ends that task alone.
FindRemoved(r) ==
    /\ rpc[r] = "find"
    /\ TaskMoves(r, IF target[r] \in store THEN "remove" ELSE "aborted")
    /\ UNCHANGED <<dbVars, saveVars, deleteVars, overlapped>>

RemoveMetric(r) ==
    /\ rpc[r] = "remove"
    /\ TaskMoves(r, "unlink")
    /\ store' = store \ {target[r]}
    /\ UNCHANGED <<version, location, slug, locations, refs, saveVars,
                   deleteVars, overlapped>>

\* Mistake: the metric stays on the list of its location.
LeaveLinked(r) ==
    /\ rpc[r] = "unlink"
    /\ TaskMoves(r, "done")
    /\ UNCHANGED <<dbVars, saveVars, deleteVars, overlapped>>

\* The post-remove hook takes the metric off the list of its location.
Unlink(r) ==
    /\ rpc[r] = "unlink"
    /\ TaskMoves(r, "done")
    /\ LET l == location[target[r]] IN
       refs' = IF l \in locations
               THEN [refs EXCEPT ![l] = @ \ {target[r]}] ELSE refs
    /\ UNCHANGED <<store, version, location, slug, locations, saveVars,
                   deleteVars, overlapped>>

RemovalFails(r) ==
    /\ rpc[r] \notin Ended
    /\ TaskMoves(r, IF rpc[r] = "unlink" THEN "partial" ELSE "aborted")
    /\ UNCHANGED <<dbVars, saveVars, deleteVars, overlapped>>

-----------------------------------------------------------------------------
(* Deleting a location.                                                    *)

DeleteMoves(l, from, to) == dpc[l] = from /\ dpc' = [dpc EXCEPT ![l] = to]

DeleteLocation(l) ==
    /\ l \in locations
    /\ DeleteMoves(l, "idle", "remove")
    /\ loaded' = [loaded EXCEPT ![l] = refs[l]]
    /\ StartOn({l} \X Slugs)
    /\ UNCHANGED <<dbVars, saveVars, removalVars>>

RemoveLocation(l) ==
    /\ DeleteMoves(l, "remove", "clean")
    /\ locations' = locations \ {l}
    /\ refs' = [refs EXCEPT ![l] = {}]
    /\ UNCHANGED <<store, version, location, slug, saveVars, removalVars,
                   loaded, overlapped>>

\* The post-remove hook deletes the metrics the document listed when loaded.
CleanMetrics(l) ==
    /\ DeleteMoves(l, "clean", "done")
    /\ store' = store \ loaded[l]
    /\ loaded' = [loaded EXCEPT ![l] = {}]
    /\ UNCHANGED <<version, location, slug, locations, refs, saveVars,
                   removalVars, overlapped>>

\* The removal itself fails, or the removal of the search document, which
\* precedes the cleaning of the metrics.
DeleteFails(l) ==
    /\ dpc[l] \notin Ended
    /\ dpc' = [dpc EXCEPT ![l] = IF @ = "clean" THEN "partial" ELSE "aborted"]
    /\ loaded' = [loaded EXCEPT ![l] = {}]
    /\ UNCHANGED <<dbVars, saveVars, removalVars, overlapped>>

-----------------------------------------------------------------------------

SaveStep(s) ==
    IncVersion(s) \/ Insert(s) \/ FindOthers(s) \/ DeleteOthers(s)
    \/ AddRef(s) \/ PullRefs(s)
RemovalStep(r) == FindRemoved(r) \/ RemoveMetric(r) \/ Unlink(r)
DeleteStep(l) == RemoveLocation(l) \/ CleanMetrics(l)

Next ==
    \/ \E s \in Saves : SaveStep(s) \/ SaveFails(s)
    \/ \E s \in Saves, l \in Locations, k \in Slugs : Deliver(s, l, k)
    \/ \E r \in Removals : RemovalStep(r) \/ RemovalFails(r)
    \/ \E r \in Removals, m \in Saves : RemoveOne(r, m)
    \/ \E l \in Locations, R \in SUBSET Removals : RemoveAll(l, R)
    \/ \E l \in Locations :
          DeleteLocation(l) \/ DeleteStep(l) \/ DeleteFails(l)

\* A handler that has started runs to its end: Node takes up each awaited
\* result.  Nothing obliges a message or a request to arrive.
Fairness ==
    /\ \A s \in Saves : WF_vars(SaveStep(s))
    /\ \A r \in Removals : WF_vars(RemovalStep(r))
    /\ \A l \in Locations : WF_vars(DeleteStep(l))

Spec == Init /\ [][Next]_vars
FairSpec == Spec /\ Fairness

-----------------------------------------------------------------------------
(* What the handlers promise.                                              *)

TypeOK ==
    /\ store \subseteq Saves
    /\ version \in [Saves -> Nat]
    /\ location \in [Saves -> Locations \cup {None}]
    /\ slug \in [Saves -> Slugs \cup {None}]
    /\ locations \subseteq Locations
    /\ refs \in [Locations -> SUBSET Saves]
    /\ pc \in [Saves -> SavePC]
    /\ ids \in [Saves -> SUBSET Saves]
    /\ bulk \in [Saves -> SUBSET {"add", "pull"}]
    /\ rpc \in [Removals -> RemovalPC]
    /\ target \in [Removals -> Saves \cup {None}]
    /\ dpc \in [Locations -> DeletePC]
    /\ loaded \in [Locations -> SUBSET Saves]
    /\ overlapped \subseteq Keys

\* However the saves of a metric overlapped, when they have all ended one
\* version at most is stored, unless a save stopped half way: every save
\* finds the versions inserted before its own search, so the last to search
\* finds all the others (metrics.ts, post-save hook).
OneVersionAtRest ==
    ~KeepVersions =>
        \A m, n \in store : m # n /\ SameMetric(m, n) =>
            \E s \in SavesOf(Key(m)) :
                pc[s] \in {"find", "delete", "partial"}

\* A metric whose save ended well is listed by its location for as long as
\* both exist: whatever takes it off the list has deleted it first, in the
\* post-save hook of a later version as in the removal of the metric.
StoredMetricIsReferenced ==
    ~KeepVersions =>
        \A m \in store : pc[m] = "done" /\ location[m] \in locations =>
            m \in refs[location[m]]

\* Where the operations on a metric came one after the other and none failed
\* half way, the list of the location and the collection agree on it when
\* they have ended, and none of its documents outlives the location.  Other
\* metrics of the same location may meanwhile be in any state.
SerialConsistency ==
    ~KeepVersions =>
        \A k \in Keys \ overlapped : ~Busy(k) /\ ~Partial(k) =>
            VersionsOf(k) = {m \in refs[k[1]] : Key(m) = k}

\* A save that overlapped no operation on its metric deletes only versions
\* older than its own.
SerialSavesReplacePrevious ==
    [][\A s \in Saves : \A m \in store \ store' :
          pc[s] = "delete" /\ pc'[s] = "link" /\ Key(s) \notin overlapped =>
              version[m] < version[s]]_vars

\* Of two stored versions of a metric one is eventually deleted, unless an
\* operation on the metric stopped half way.
SupersededGoesAway ==
    ~KeepVersions =>
        \A P \in {Q \in SUBSET Saves : Cardinality(Q) = 2} :
            (P \subseteq store /\ \A m, n \in P : SameMetric(m, n))
                ~> (~(P \subseteq store) \/ \E m \in P : Partial(Key(m)))
=============================================================================
