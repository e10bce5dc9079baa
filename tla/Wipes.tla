-------------------------------- MODULE Wipes --------------------------------
(***************************************************************************)
(* The clean-up after a removed layer or workspace: events on the topic    *)
(* wipe-data, the handler that takes them, and the map tiles in S3.        *)
(*                                                                         *)
(* A handler that removes a layer, or the groups of a workspace, publishes *)
(* an event afterwards; the event names the workspace.  Its handler has    *)
(* the tiles expired by a rule of the bucket's lifecycle configuration     *)
(* and, for a workspace, removes the documents and then their entries in   *)
(* the search indices.  Errors are caught, and the event counts as         *)
(* handled.  SNS delivers an event at least once: again when its handler   *)
(* does not return, and now and then when it did.                          *)
(*                                                                         *)
(* Saves and removals of documents are single steps here: their hooks are  *)
(* those of Catalogue and Locations.  Workspaces are names that may be     *)
(* taken again; their groups are those of Workspaces.                      *)
(***************************************************************************)
EXTENDS Naturals, FiniteSets

CONSTANTS
    Layers,      \* the _ids of layers
    Others,      \* the _ids of locations, widgets and dashboards
    Model,       \* the model of each of them
    Orgs,        \* names of workspaces
    Home,        \* the workspace in which each document is saved
    MaxRequests, \* bound: what clients ask for
    MaxRepeats,  \* bound: deliveries that are repeated
    None         \* no workspace, no handler

Docs == Layers \cup Others
ModelOf(d) == IF d \in Layers THEN "Layer" ELSE Model[d]

\* The models with documents; the others are wiped to no effect.
Models == {ModelOf(d) : d \in Docs}

WipesConstants ==
    /\ Layers \cap Others = {}
    /\ Model \in [Others -> {"Location", "Widget", "Dashboard"}]
    /\ None \notin Docs \cup Orgs
    /\ Docs # {} /\ Docs \cap Orgs = {}
    /\ Home \in [Docs -> Orgs]
    /\ MaxRequests \in Nat /\ MaxRepeats \in Nat

\* An operator, for a theorem about an instance of this module to name.
ASSUME WipesAssumption == WipesConstants

VARIABLES
    workspaces,  \* the workspaces that exist
    stored,      \* the workspace of each document, None when it is not stored
    entry,       \* the same in the search indices
    saves,       \* documents to be saved by requests that were let in
    outbox,      \* removed layers and workspaces, to be published
    events,      \* published, and not acknowledged
    handler,     \* of the events under way: the step, and what is left of it
    tiles,       \* layers with map tiles in the bucket
    uploads,     \* layers that were loaded to have a tile made
    rules,       \* layers whose tiles the lifecycle configuration expires
    requests,    \* how many clients have asked for
    repeats,     \* how many deliveries were repeated
    missed,      \* history: layers whose event was not published, or for which
                 \* the call to S3 failed, whose rule another call replaced too
                 \* early, or that were saved when the handler had read the layers
    stray,       \* history: documents of a deleted workspace that were saved
                 \* after, or whose removal failed
    reused       \* history: names that were taken again with an event on its
                 \* way, be it delivered before

clientVars == <<workspaces, saves, uploads, requests>>
history == <<missed, stray, reused>>
vars == <<stored, entry, outbox, events, handler, tiles, rules, repeats,
          clientVars, history>>

NoHandler == [step |-> "none", ids |-> {}, left |-> {}]

Init ==
    /\ workspaces = Orgs
    /\ \E D \in SUBSET Docs :
          stored = [d \in Docs |-> IF d \in D THEN Home[d] ELSE None]
    /\ entry = stored
    /\ saves = {}
    /\ outbox = {}
    /\ events = {}
    /\ handler = [e \in Layers \cup Orgs |-> NoHandler]
    /\ tiles \in SUBSET {d \in Layers : stored[d] # None}
    /\ uploads = {}
    /\ rules = {}
    /\ requests = 0
    /\ repeats = 0
    /\ missed = {}
    /\ stray = {}
    /\ reused = {}

-----------------------------------------------------------------------------
(* Requests.                                                               *)

Asks == requests < MaxRequests /\ requests' = requests + 1

\* A handler has yet to remove the documents of a deleted workspace.
WillBeWiped(o) ==
    \/ o \in outbox
    \/ o \in events /\ handler[o].step \in {"none", "layers", "policy"}

\* A request to save a document is let in while its workspace exists, and may
\* write it when that has been deleted.
Admit(d) ==
    /\ Asks
    /\ Home[d] \in workspaces /\ stored[d] = None
    /\ saves' = saves \cup {d}
    /\ UNCHANGED <<stored, entry, outbox, events, handler, tiles, rules, repeats,
                   workspaces, uploads, history>>

Save(d) ==
    LET o == Home[d] IN
    /\ d \in saves
    /\ saves' = saves \ {d}
    /\ stored' = [stored EXCEPT ![d] = o]
    /\ entry' = [entry EXCEPT ![d] = o]
    /\ stray' = IF o \in workspaces \/ WillBeWiped(o) THEN stray \ {d}
                ELSE stray \cup {d}
    /\ missed' = IF handler[o].step \in {"policy", "remove"}
                 THEN missed \cup ({d} \cap Layers) ELSE missed
    /\ UNCHANGED <<outbox, events, handler, tiles, rules, repeats, workspaces,
                   uploads, requests, reused>>

\* DELETE of a layer; the last of its hooks publishes the event.
RemoveLayer(d) ==
    /\ Asks
    /\ stored[d] # None /\ d \notin outbox
    /\ stored' = [stored EXCEPT ![d] = None]
    /\ entry' = [entry EXCEPT ![d] = None]
    /\ outbox' = outbox \cup {d}
    /\ UNCHANGED <<events, handler, tiles, rules, repeats, workspaces, saves,
                   uploads, history>>

\* DELETE of a workspace, which publishes the event when its groups are gone.
DeleteWorkspace(o) ==
    /\ Asks
    /\ o \in workspaces \ outbox
    /\ workspaces' = workspaces \ {o}
    /\ outbox' = outbox \cup {o}
    /\ UNCHANGED <<stored, entry, events, handler, tiles, rules, repeats, saves,
                   uploads, history>>

\* POST of a workspace, under a name that was free or is free again.
CreateWorkspace(o) ==
    /\ Asks
    /\ o \notin workspaces
    /\ workspaces' = workspaces \cup {o}
    /\ reused' = IF o \in outbox \cup events THEN reused \cup {o} ELSE reused
    /\ UNCHANGED <<stored, entry, outbox, events, handler, tiles, rules, repeats,
                   saves, uploads, missed, stray>>

\* GET of a tile loads the layer, and uploads what Earth Engine made of it.
LoadLayer(d) ==
    /\ Asks
    /\ stored[d] # None
    /\ uploads' = uploads \cup {d}
    /\ UNCHANGED <<stored, entry, outbox, events, handler, tiles, rules, repeats,
                   workspaces, saves, history>>

UploadMapTile(d) ==
    /\ d \in uploads
    /\ uploads' = uploads \ {d}
    /\ tiles' = tiles \cup {d}
    /\ UNCHANGED <<stored, entry, outbox, events, handler, rules, repeats,
                   workspaces, saves, requests, history>>

\* The request for a tile fails: Earth Engine, or the upload.
UploadFails(d) ==
    /\ d \in uploads
    /\ uploads' = uploads \ {d}
    /\ UNCHANGED <<stored, entry, outbox, events, handler, tiles, rules, repeats,
                   workspaces, saves, requests, history>>

-----------------------------------------------------------------------------
(* Events.  An event is the _id of a layer or the name of a workspace.     *)

\* Of two events that say the same the second waits for the first.
Publish(e) ==
    /\ e \in outbox \ events
    /\ outbox' = outbox \ {e}
    /\ events' = events \cup {e}
    /\ UNCHANGED <<stored, entry, handler, tiles, rules, repeats, clientVars, history>>

\* The documents of a workspace that is deleted.
Of(e) == {d \in Docs : e \in Orgs /\ stored[d] = e}

\* A hook before it fails, or SNS does: nobody publishes the event again.
PublishFails(e) ==
    /\ e \in outbox
    /\ outbox' = outbox \ {e}
    /\ missed' = missed \cup ({e} \cap Layers)
    /\ stray' = stray \cup Of(e)
    /\ UNCHANGED <<stored, entry, events, handler, tiles, rules, repeats,
                   clientVars, reused>>

Goes(e, from, to, ids, left) ==
    /\ handler[e].step = from
    /\ handler' = [handler EXCEPT ![e] = [step |-> to, ids |-> ids, left |-> left]]
    /\ UNCHANGED <<outbox, repeats, clientVars, reused>>

\* Mistake: the documents of the workspace are removed before its layers are
\* read.
StepsLayersLast == [start |-> "remove", layers |-> "policy", policy |-> "unindex",
                    remove |-> "layers"]

Steps == [start |-> "layers", layers |-> "policy", policy |-> "remove",
          remove |-> "unindex"]

\* Mistake: the entries in the search indices are left.
LeftOfDocuments(step) == IF step = "remove" THEN Models ELSE {}

\* What a step has to do for each of the models.
Left(step) == IF step \in {"remove", "unindex"} THEN Models ELSE {}

\* The event of a layer names the layer; that of a workspace has it read.
Deliver(e) ==
    /\ e \in events
    /\ IF e \in Layers THEN Goes(e, "none", "policy", {e}, {})
       ELSE Goes(e, "none", Steps.start, {}, Left(Steps.start))
    /\ UNCHANGED <<stored, entry, events, tiles, rules, missed, stray>>

RemoveLayerMapTilesFromStream(e) ==
    /\ Goes(e, "layers", Steps.layers, Of(e) \cap Layers, {})
    /\ UNCHANGED <<stored, entry, events, tiles, rules, missed, stray>>

\* A read of the stream throws, which ends the handler: everything is left.
StreamFails(e) ==
    /\ Goes(e, "layers", "done", {}, {})
    /\ stray' = stray \cup {d \in Docs : stored[d] = e \/ entry[d] = e}
    /\ UNCHANGED <<stored, entry, events, tiles, rules, missed>>

AfterPolicy(e) == IF e \in Layers THEN "done" ELSE Steps.policy

\* Layers whose tiles, there or to come, a rule was to expire.
Awaited == {d \in rules :
    \/ stored[d] = None /\ d \in tiles \cup uploads
    \/ \E e \in Orgs : \/ d \in handler[e].ids
                       \/ stored[d] = e /\ handler[e].step \in {"policy", "remove"}}

\* createLifecyclePolicy puts a configuration of its own in place of the old.
RulesOf(ids) == ids

RemoveLayerMapTiles(e) ==
    LET ids == handler[e].ids IN
    /\ Goes(e, "policy", AfterPolicy(e), ids, Left(AfterPolicy(e)))
    /\ IF ids = {} THEN UNCHANGED <<rules, missed>>
       ELSE /\ rules' = RulesOf(ids)
            /\ missed' = (missed \ ids) \cup (Awaited \ ids)
    /\ UNCHANGED <<stored, entry, events, tiles, stray>>

\* The error of the call is caught.
PolicyFails(e) ==
    LET ids == handler[e].ids IN
    /\ ids # {}
    /\ Goes(e, "policy", AfterPolicy(e), ids, Left(AfterPolicy(e)))
    /\ missed' = missed \cup ids
    /\ UNCHANGED <<stored, entry, events, tiles, rules, stray>>

AfterModel(e, m, to) == IF handler[e].left = {m} THEN to ELSE handler[e].step
StillLeft(e, m, to) == IF handler[e].left = {m} THEN Left(to) ELSE handler[e].left \ {m}

\* Mistake: the documents of every workspace match.
AllOf(e, m) == {d \in Docs : ModelOf(d) = m}

Matching(e, m) == {d \in Docs : ModelOf(d) = m /\ stored[d] = e}

\* deleteMany, of the models at once: no hook runs.
RemoveByQuery(e, m) ==
    LET gone == Matching(e, m) IN
    /\ handler[e].step = "remove" /\ m \in handler[e].left
    /\ Goes(e, "remove", AfterModel(e, m, Steps.remove), handler[e].ids,
            StillLeft(e, m, Steps.remove))
    /\ stored' = [d \in Docs |-> IF d \in gone THEN None ELSE stored[d]]
    /\ UNCHANGED <<entry, events, tiles, rules, missed, stray>>

\* One fails: the others go on by themselves, and the entries stay.
RemoveFails(e, m) ==
    /\ handler[e].step = "remove" /\ m \in handler[e].left
    /\ \E D \in SUBSET {d \in Docs : stored[d] = e /\ ModelOf(d) \in handler[e].left \ {m}} :
          stored' = [d \in Docs |-> IF d \in D THEN None ELSE stored[d]]
    /\ Goes(e, "remove", "done", {}, {})
    /\ stray' = stray \cup {d \in Docs : stored[d] = e \/ entry[d] = e}
    /\ UNCHANGED <<entry, events, tiles, rules, missed>>

EsDeleteByQuery(e, m) ==
    /\ handler[e].step = "unindex" /\ m \in handler[e].left
    /\ Goes(e, "unindex", AfterModel(e, m, "done"), handler[e].ids, StillLeft(e, m, "done"))
    /\ LET found == {d \in Docs : ModelOf(d) = m /\ entry[d] = e} IN
       \/ /\ entry' = [d \in Docs |-> IF d \in found THEN None ELSE entry[d]]
          /\ UNCHANGED stray
       \* Its error is caught.
       \/ /\ stray' = stray \cup found
          /\ UNCHANGED entry
    /\ UNCHANGED <<stored, events, tiles, rules, missed>>

\* The handler has returned, whatever failed, and the event does not come back.
Acknowledge(e) ==
    /\ handler[e].step = "done"
    /\ handler' = [handler EXCEPT ![e] = NoHandler]
    /\ events' = events \ {e}
    /\ reused' = reused \ ({e} \ outbox)
    /\ UNCHANGED <<stored, entry, outbox, tiles, rules, repeats, clientVars, missed, stray>>

\* The event will be delivered again, whenever that is.
Repeat(e) ==
    /\ repeats < MaxRepeats
    /\ repeats' = repeats + 1
    /\ handler' = [handler EXCEPT ![e] = NoHandler]
    /\ UNCHANGED <<stored, entry, outbox, events, tiles, rules, clientVars, history>>

\* The process stops half way, or it times out.
Stop(e) == handler[e].step \notin {"none", "done"} /\ Repeat(e)

\* SNS delivers at least once: an event comes back whose handler has returned.
DeliverTwice(e) == handler[e].step = "done" /\ Repeat(e)

\* The bucket, once a day.
Expire ==
    /\ tiles \cap rules # {}
    /\ tiles' = tiles \ rules
    /\ UNCHANGED <<stored, entry, outbox, events, handler, rules, repeats,
                   clientVars, history>>

Handle(e) ==
    \/ Deliver(e) \/ RemoveLayerMapTilesFromStream(e) \/ StreamFails(e)
    \/ RemoveLayerMapTiles(e) \/ PolicyFails(e)
    \/ \E m \in Models : RemoveByQuery(e, m) \/ RemoveFails(e, m) \/ EsDeleteByQuery(e, m)
    \/ Acknowledge(e)

Events == Layers \cup Orgs

Next ==
    \/ \E d \in Docs : Admit(d) \/ Save(d)
    \/ \E d \in Layers : RemoveLayer(d) \/ LoadLayer(d) \/ UploadMapTile(d) \/ UploadFails(d)
    \/ \E o \in Orgs : DeleteWorkspace(o) \/ CreateWorkspace(o)
    \/ \E e \in Events : Publish(e) \/ PublishFails(e) \/ Handle(e)
    \/ \E e \in Events : Stop(e) \/ DeliverTwice(e)
    \/ Expire

Spec == Init /\ [][Next]_vars

\* SNS delivers what is published, a handler that runs comes to its end, and
\* the bucket expires objects.  Clients may stop at any time.
Fairness ==
    /\ \A e \in Events : /\ WF_vars(Publish(e) \/ PublishFails(e))
                         /\ WF_vars(Handle(e))
    /\ WF_vars(Expire)

FairSpec == Spec /\ Fairness

-----------------------------------------------------------------------------
(* Properties.                                                             *)

\* Every variable has its type, an event that is handled has not been
\* acknowledged, and a handler that is removing documents has some left.
TypeOK ==
    /\ workspaces \subseteq Orgs
    /\ stored \in [Docs -> Orgs \cup {None}]
    /\ entry \in [Docs -> Orgs \cup {None}]
    /\ saves \subseteq Docs
    /\ outbox \subseteq Events /\ events \subseteq Events
    /\ handler \in [Events ->
          [step : {"none", "layers", "policy", "remove", "unindex", "done"},
           ids : SUBSET Layers, left : SUBSET Models]]
    /\ tiles \subseteq Layers /\ uploads \subseteq Layers /\ rules \subseteq Layers
    /\ requests \in 0 .. MaxRequests /\ repeats \in 0 .. MaxRepeats
    /\ missed \subseteq Layers /\ stray \subseteq Docs /\ reused \subseteq Orgs
    /\ \A e \in Events :
          /\ handler[e].step # "none" => e \in events
          /\ handler[e].step \in {"remove", "unindex"} => handler[e].left # {}

\* A wipe removes nothing of a workspace that exists, unless that took the
\* name of a deleted one while an event with the name was on its way: to be
\* published, delivered, or delivered once more.  The handler knows no more
\* than the name, and removes the documents of the new workspace then.
ExistingWorkspacesAreKept ==
    [][\A e \in Events, m \in Models :
          RemoveByQuery(e, m) \/ RemoveFails(e, m) =>
             \A d \in Docs : stored[d] \in workspaces \ reused => stored'[d] = stored[d]]_vars

\* The tiles of a removed layer go away, in whatever order events are handled
\* and however often they are delivered: unless the rule is lost.
TilesGoAway ==
    \A d \in Layers :
        stored[d] = None /\ d \in tiles
            ~> d \notin tiles \/ stored[d] # None \/ d \in missed

\* A document of a deleted workspace, or what is left of it in the search
\* index.
Remains(d) == {stored[d], entry[d]} \cap (Orgs \ workspaces) # {}

\* The documents of a deleted workspace go away, and their entries with them,
\* though some be saved by requests that were let in before.
DeletedWorkspacesAreEmptied ==
    \A d \in Docs : Remains(d) ~> ~Remains(d) \/ d \in stray
=============================================================================
