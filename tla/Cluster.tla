-------------------------------- MODULE Cluster --------------------------------
(***************************************************************************)
(* The dimensions of an operator: which resources in which namespaces it   *)
(* serves.  The observers (kopf/_core/reactor/observation.py) keep the     *)
(* insights up to date with the cluster; the orchestrator (orchestration.  *)
(* py) starts and stops the watchers and the peerings for the insights;    *)
(* the readiness of the operator (the toggles of aiotoggles.py, as used by *)
(* orchestration.py, queueing.py and processing.py) holds the handlers     *)
(* back until the objects listed initially are indexed.                    *)
(*                                                                         *)
(* A step is what the code does between two points where the event loop    *)
(* may switch tasks or where the server answers a request.  All awaits of  *)
(* the orchestrator are such points here, though those on uncontended      *)
(* conditions do not really suspend it.  One object stands for the objects *)
(* of a resource in a namespace.                                           *)
(***************************************************************************)
EXTENDS Selectors

CONSTANTS
  Kinds,        \* the custom resources that may exist in the cluster
  Namespaces,   \* the namespaces that may exist in the cluster, or are named exactly
  Patterns,     \* the patterns of namespaces which the operator serves
  Indexed,      \* the selectors of the indexing handlers
  Handled,      \* the selectors of the handlers that keep their state
  Peerings,     \* guess_selectors(): the selectors of the peering resources
  Mandatory,    \* settings.peering.mandatory
  Accesses,     \* how the namespaces can be known: see Init
  MaxChanges    \* bound: how many times the cluster changes, or the watching is lost

ASSUME ClusterAssumption ==
  /\ MaxChanges \in Nat
  /\ Mandatory \in BOOLEAN
  /\ Accesses \subseteq {"watched", "forbidden", "clusterwide"}
  /\ Unset \notin Namespaces /\ ExactNamespaces(Patterns) \subseteq Namespaces
  /\ \A r \in Kinds : Traits[r].group # Unset
  /\ IsFiniteSet(Kinds) /\ IsFiniteSet(Namespaces) /\ IsFiniteSet(Indexed \cup Handled)

VARIABLES
  existing,     \* the custom resources in the cluster
  space,        \* space[n]: active, blocked or vacant (being deleted), absent
  changes,      \* history: how many changes and losses there were
  overlooked,   \* history: the groups and namespaces changed between a listing and
                \* the watching after it, with no event since then
  access,       \* what the operator may know of the namespaces
  crds,         \* the resource observer: scanning, revising, listing, watching
  crdEvents,    \* the events of CRDs which are not processed yet
  scans,        \* the responses received and not applied yet, by what has asked
  names,        \* the namespace observer: listing, revising, relisting, watching
  listing,      \* the namespaces as listed and not yet applied
  nameEvents,   \* the events of each namespace which are not processed yet
  served,       \* insights.watched_resources
  indexed,      \* insights.indexed_resources
  namespaces,   \* insights.namespaces
  backbone,     \* insights.backbone, only for the peering resources
  revised,      \* the orchestrator is notified of insights.revised
  orchestrator, \* waiting, stopping, peering, blocking, spawning, closing, closed
  redundant,    \* the keys being stopped
  watcher,      \* watcher[k]: the task of the ensemble for the key
  peering,      \* the keys of the peering tasks of the ensemble
  failed,       \* those of them that have failed, and are still in the ensemble
  conflicts,    \* the keys whose conflict toggles are on
  missing,      \* the toggle of the missing peering resource
  toggles,      \* operator_indexed: the toggles, all of them off
  counted,      \* the watchers which have a toggle (resource_indexed)
  freed,        \* the watchers which do not care for the readiness any more
  object,       \* object[k]: how far the worker of the object is
  first         \* history: the keys of the indexed resources spawned while not ready

clusterVars == <<existing, space, changes, access, overlooked>>
observerVars == <<crds, crdEvents, scans, names, listing, nameEvents>>
insightVars == <<served, indexed, namespaces, backbone>>
ensembleVars == <<redundant, watcher, peering, failed, conflicts, missing>>
indexVars == <<toggles, counted, freed, object, first>>
vars == <<existing, space, changes, access, overlooked, crds, crdEvents, scans, names, listing,
          nameEvents, served, indexed, namespaces, backbone, revised, orchestrator,
          redundant, watcher, peering, failed, conflicts, missing, toggles, counted,
          freed, object, first>>

Matched(n) == MatchNamespace(n, Patterns, Namespaces)
Keys == Kinds \X (Namespaces \cup {Unset})
KeysOf(resources, spaces) ==
  {<<r, IF Traits[r].namespaced THEN n ELSE Unset>> : r \in resources, n \in spaces}

FirstScan == [by |-> {}, group |-> Unset]     \* who has asked, and for what
ScanOf(r) == [by |-> {r}, group |-> Traits[r].group]
Response(scan, found) == [scan |-> scan, found |-> found]
GroupOf(r) == <<"group", Traits[r].group>>    \* what may be overlooked
SpaceOf(n) == <<"space", n>>
Blocker == <<"blocker">>
Leftover == <<"leftover">>                    \* of a watcher that is no more
ListToggle(k) == <<"list", k>>
ObjectToggle(k) == <<"object", k>>

Init ==
  /\ existing \in SUBSET Kinds
  /\ space \in [Namespaces -> {"active", "absent"}]
  /\ changes = 0 /\ overlooked = {}
  /\ access \in Accesses
  /\ crds = "scanning" /\ crdEvents = {} /\ scans = {}
  /\ names = "listing" /\ listing = [n \in Namespaces |-> "absent"]
  /\ nameEvents = [n \in Namespaces |-> <<>>]
  /\ served = {} /\ indexed = {} /\ namespaces = {} /\ backbone = <<>>
  /\ revised = FALSE /\ orchestrator = "waiting" /\ redundant = {}
  /\ watcher = [k \in Keys |-> "none"]
  /\ peering = {} /\ failed = {} /\ conflicts = {} /\ missing = FALSE
  /\ toggles = {} /\ counted = {} /\ freed = {} /\ first = {}
  /\ object = [k \in Keys |-> "none"]

-----------------------------------------------------------------------------
(* The cluster: its resources and namespaces come and go.  An event is     *)
(* sent to those who watch; what changes before the listing that precedes  *)
(* the watching is in the listing, and that is ignored.                    *)

MayChange == /\ changes < MaxChanges
             /\ orchestrator \notin {"closing", "closed"}
             /\ changes' = changes + 1

ChangeResource(r) ==
  /\ MayChange
  /\ existing' = IF r \in existing THEN existing \ {r} ELSE existing \cup {r}
  /\ crdEvents' = IF crds = "watching" THEN crdEvents \cup {r} ELSE crdEvents
  /\ overlooked' = IF crds \in {"revising", "listing"} THEN overlooked \cup {GroupOf(r)} ELSE overlooked
  /\ UNCHANGED <<space, access, crds, scans, names, listing, nameEvents, insightVars,
                 revised, orchestrator, ensembleVars, indexVars>>

NextSpace(state) ==
  CASE state = "absent"  -> {"active"}
    [] state = "active"  -> {"blocked", "vacant", "absent"}
    [] state = "blocked" -> {"vacant", "absent"}
    [] state = "vacant"  -> {"absent"}

ChangeNamespace(n) ==
  /\ MayChange
  /\ \E state \in NextSpace(space[n]) :
       /\ space' = [space EXCEPT ![n] = state]
       /\ nameEvents' = IF names = "watching" THEN [nameEvents EXCEPT ![n] = Append(@, state)]
                                              ELSE nameEvents
  /\ overlooked' = IF names \in {"revising", "relisting"} THEN overlooked \cup {SpaceOf(n)}
                                                         ELSE overlooked
  /\ UNCHANGED <<existing, access, crds, crdEvents, scans, names, listing, insightVars,
                 revised, orchestrator, ensembleVars, indexVars>>

-----------------------------------------------------------------------------
(* The observers.  They revise the insights under the lock, which the      *)
(* orchestrator holds all the time unless it waits, and notify it: nobody  *)
(* else, a notification is lost on those who do not wait.                  *)

LocksNever == TRUE
LockIsFree == orchestrator \in {"waiting", "closing", "closed"}
NotifyRevised == revised' = (revised \/ orchestrator = "waiting")

Alive == orchestrator \notin {"closing", "closed"}

Revision(group, source) ==
  /\ LockIsFree /\ Alive
  /\ \E order \in SetToSeqs(Indexed \cup Handled) :
       served' = ReviseResources(served, Indexed \cup Handled, Handled, group, source, order)
  /\ indexed' = UpdateResources(indexed, Indexed, group, source)
  /\ backbone' \in FillBackbone(backbone, Peerings, source)
  /\ NotifyRevised

ScanResources ==
  /\ crds = "scanning"
  /\ crds' = "revising"
  /\ scans' = {Response(FirstScan, existing)}
  /\ UNCHANGED <<clusterVars, crdEvents, names, listing, nameEvents, insightVars,
                 revised, orchestrator, ensembleVars, indexVars>>

FirstRevision(response) ==
  /\ crds = "revising"
  /\ response \in scans
  /\ Revision(Unset, response.found)
  /\ scans' = {}
  /\ crds' = "listing"
  /\ UNCHANGED <<clusterVars, crdEvents, names, listing, nameEvents, namespaces,
                 orchestrator, ensembleVars, indexVars>>

(* The listed resources are presumed to be known from the scan.  If it is  *)
(* forbidden to watch them, they are not observed at all.                  *)
ListResources ==
  /\ crds = "listing"
  /\ crds' = IF access = "forbidden" THEN "assumed" ELSE "watching"
  /\ UNCHANGED <<clusterVars, crdEvents, scans, names, listing, nameEvents, insightVars,
                 revised, orchestrator, ensembleVars, indexVars>>

(* The watching is restarted if its resource version is too old (410).     *)
LoseResources ==
  /\ MayChange /\ crds = "watching"
  /\ crds' = "listing"
  /\ UNCHANGED <<existing, space, access, overlooked, crdEvents, scans, names, listing, nameEvents, insightVars,
                 revised, orchestrator, ensembleVars, indexVars>>

(* One worker per CRD: it asks for the resources of the group, and revises *)
(* them when the response has come.                                        *)
IsAsking(r) == \E response \in scans : response.scan = ScanOf(r)

ScanGroup(r) ==
  /\ r \in crdEvents /\ ~IsAsking(r)
  /\ crdEvents' = crdEvents \ {r}
  /\ overlooked' = overlooked \ {GroupOf(r)}
  /\ scans' = scans \cup {Response(ScanOf(r), {s \in existing : Traits[s].group = Traits[r].group})}
  /\ UNCHANGED <<existing, space, changes, access, crds, names, listing, nameEvents, insightVars,
                 revised, orchestrator, ensembleVars, indexVars>>

ReviseGroup(response) ==
  /\ response \in scans /\ response.scan # FirstScan
  /\ Revision(response.scan.group, response.found)
  /\ scans' = scans \ {response}
  /\ UNCHANGED <<clusterVars, crds, crdEvents, names, listing, nameEvents, namespaces,
                 orchestrator, ensembleVars, indexVars>>

(* The namespaces: they are listed once the backbone is known.             *)
ListNamespaces ==
  /\ names = "listing" /\ access = "watched"
  /\ crds \in {"listing", "watching", "assumed"}
  /\ names' = "revising"
  /\ listing' = space
  /\ UNCHANGED <<clusterVars, crds, crdEvents, scans, nameEvents, insightVars,
                 revised, orchestrator, ensembleVars, indexVars>>

FirstNamespaces ==
  /\ names = "revising" /\ LockIsFree /\ Alive
  /\ namespaces' = {n \in Namespaces :
                      n \in ReviseNamespace({}, n, listing[n], Matched(n))}
  /\ NotifyRevised
  /\ names' = "relisting"
  /\ UNCHANGED <<clusterVars, crds, crdEvents, scans, listing, nameEvents, served, indexed,
                 backbone, orchestrator, ensembleVars, indexVars>>

(* Nothing to observe: the whole cluster is served; or there is no right   *)
(* to list the namespaces, and only those named exactly are served.        *)
AssumeNamespaces ==
  /\ names = "listing" /\ access # "watched" /\ LockIsFree /\ Alive
  /\ crds \in {"listing", "watching", "assumed"}
  /\ namespaces' = IF access = "clusterwide" THEN {Unset} ELSE ExactNamespaces(Patterns)
  /\ NotifyRevised
  /\ names' = "assumed"
  /\ UNCHANGED <<clusterVars, crds, crdEvents, scans, listing, nameEvents, served, indexed,
                 backbone, orchestrator, ensembleVars, indexVars>>

RelistNamespaces ==
  /\ names = "relisting"
  /\ names' = "watching"
  /\ UNCHANGED <<clusterVars, crds, crdEvents, scans, listing, nameEvents, insightVars,
                 revised, orchestrator, ensembleVars, indexVars>>

LoseNamespaces ==
  /\ MayChange /\ names = "watching"
  /\ names' = "relisting"
  /\ UNCHANGED <<existing, space, access, overlooked, crds, crdEvents, scans, listing, nameEvents, insightVars,
                 revised, orchestrator, ensembleVars, indexVars>>

NoticeNamespace(n) ==
  /\ nameEvents[n] # <<>> /\ LockIsFree /\ Alive
  /\ namespaces' = ReviseNamespace(namespaces, n, Head(nameEvents[n]), Matched(n))
  /\ nameEvents' = [nameEvents EXCEPT ![n] = Tail(@)]
  /\ overlooked' = IF nameEvents[n] = <<space[n]>> THEN overlooked \ {SpaceOf(n)} ELSE overlooked
  /\ NotifyRevised
  /\ UNCHANGED <<existing, space, changes, access, crds, crdEvents, scans, names, listing, served, indexed,
                 backbone, orchestrator, ensembleVars, indexVars>>

-----------------------------------------------------------------------------
(* The orchestrator: one adjustment of the tasks to the insights.  It      *)
(* stops the redundant tasks, and starts the missing ones after that.      *)

PeeringResources == {backbone[s] : s \in DOMAIN backbone}
IsRemaining(k) == k[1] \in served \cup PeeringResources /\ k[2] \in namespaces \cup {Unset}
EnsembleKeys == {k \in Keys : watcher[k] # "none"} \cup peering

BeginAdjusting ==
  /\ orchestrator = "waiting" /\ revised
  /\ revised' = FALSE
  /\ orchestrator' = "stopping"
  /\ missing' = (Mandatory /\ PeeringResources = {})
  /\ redundant' = {k \in EnsembleKeys : ~IsRemaining(k)}
  /\ watcher' = [k \in Keys |-> IF k \in redundant' /\ watcher[k] \in {"new", "listed"}
                                THEN "cancelled" ELSE watcher[k]]
  /\ UNCHANGED <<clusterVars, observerVars, insightVars, peering, failed, conflicts, indexVars>>

KeepToggles(flags, keys) == flags
DropToggles(flags, keys) == flags \ keys

Stopped(keys) == \A k \in keys : watcher[k] \in {"none", "ended", "failed"}

(* The toggles of a watcher stay when it is stopped before it turns them.  *)
TogglesOf(keys) == {ListToggle(k) : k \in keys} \cup {ObjectToggle(k) : k \in keys}
LeaveToggles(keys) ==
  (toggles \ TogglesOf(keys)) \cup {t \in {Leftover} : toggles \cap TogglesOf(keys) # {}}

DropRedundant ==
  /\ orchestrator = "stopping" /\ Stopped(redundant)
  /\ orchestrator' = "peering"
  /\ watcher' = [k \in Keys |-> IF k \in redundant THEN "none" ELSE watcher[k]]
  /\ object' = [k \in Keys |-> IF k \in redundant THEN "none" ELSE object[k]]
  /\ peering' = peering \ redundant /\ failed' = failed \ redundant
  /\ conflicts' = DropToggles(conflicts, redundant)
  /\ counted' = counted \ redundant /\ freed' = freed \ redundant /\ first' = first \ redundant
  /\ toggles' = LeaveToggles(redundant)
  /\ redundant' = {}
  /\ UNCHANGED <<clusterVars, observerVars, insightVars, revised, missing>>

NoBlocker == {}
OrchestrationBlocker == {Blocker}

WasReady == freed # {} \/ \E k \in Keys : object[k] = "handled"
MissingWatchers == {k \in KeysOf(served, namespaces) : watcher[k] = "none"}

SpawnPeerings ==
  /\ orchestrator = "peering"
  /\ orchestrator' = "blocking"
  /\ peering' = peering \cup KeysOf(PeeringResources, namespaces)
  /\ conflicts' = IF Mandatory THEN conflicts \cup (peering' \ peering) ELSE conflicts
  /\ UNCHANGED <<clusterVars, observerVars, insightVars, revised, redundant, watcher,
                 failed, missing, indexVars>>

BlockReadiness ==
  /\ orchestrator = "blocking"
  /\ orchestrator' = "spawning"
  /\ toggles' = toggles \cup OrchestrationBlocker
  /\ first' = IF WasReady THEN first
              ELSE first \cup {k \in MissingWatchers : k[1] \in indexed}
  /\ UNCHANGED <<clusterVars, observerVars, insightVars, revised, ensembleVars, counted,
                 freed, object>>

SpawnWatcher(k) ==
  /\ orchestrator = "spawning" /\ k \in MissingWatchers
  /\ watcher' = [watcher EXCEPT ![k] = "new"]
  /\ IF k[1] \in indexed
     THEN toggles' = toggles \cup {ListToggle(k)} /\ counted' = counted \cup {k}
     ELSE UNCHANGED <<toggles, counted>>
  /\ UNCHANGED <<clusterVars, observerVars, insightVars, revised, orchestrator, redundant,
                 peering, failed, conflicts, missing, freed, object, first>>

EndAdjusting ==
  /\ orchestrator = "spawning" /\ MissingWatchers = {}
  /\ orchestrator' = "waiting"
  /\ toggles' = toggles \ OrchestrationBlocker
  /\ UNCHANGED <<clusterVars, observerVars, insightVars, revised, ensembleVars, counted,
                 freed, object, first>>

(* The operator exits: the orchestrator stops all the tasks it has.        *)
CancelOrchestrator ==
  /\ Alive
  /\ orchestrator' = "closing"
  /\ watcher' = [k \in Keys |-> IF watcher[k] \in {"new", "listed"} THEN "cancelled"
                                                               ELSE watcher[k]]
  /\ UNCHANGED <<clusterVars, observerVars, insightVars, revised, redundant, peering,
                 failed, conflicts, missing, indexVars>>

CloseOrchestrator ==
  /\ orchestrator = "closing" /\ Stopped(Keys)
  /\ orchestrator' = "closed"
  /\ peering' = {} /\ failed' = {}
  /\ UNCHANGED <<clusterVars, observerVars, insightVars, revised, redundant, watcher,
                 conflicts, missing, indexVars>>

-----------------------------------------------------------------------------
(* The watchers and the workers, as far as the readiness is concerned: the *)
(* objects found by the initial listing, and one that comes later.         *)

IsPaused == missing \/ conflicts # {}
IsIndexed == toggles = {}

(* A new stream: its object is to be indexed before the readiness, unless  *)
(* the operator is ready already -- then the watcher forgets about it.     *)
NewStream(k, state) ==
  /\ object[k] = "none"
  /\ object' = [object EXCEPT ![k] = state]
  /\ IF IsIndexed \/ k \in freed
     THEN freed' = freed \cup {k} /\ UNCHANGED toggles
     ELSE /\ toggles' = IF k \in counted
                        THEN toggles \cup {ObjectToggle(k)} ELSE toggles
          /\ UNCHANGED freed

FindObject(k) ==
  /\ watcher[k] = "new" /\ ~IsPaused
  /\ NewStream(k, "found")
  /\ UNCHANGED <<clusterVars, observerVars, insightVars, revised, orchestrator,
                 ensembleVars, counted, first>>

EndListing(k) ==
  /\ watcher[k] = "new" /\ ~IsPaused
  /\ watcher' = [watcher EXCEPT ![k] = "listed"]
  /\ toggles' = toggles \ {ListToggle(k)}
  /\ UNCHANGED <<clusterVars, observerVars, insightVars, revised, orchestrator, redundant,
                 peering, failed, conflicts, missing, counted, freed, object, first>>

AddObject(k) ==
  /\ watcher[k] = "listed" /\ k[1] \in existing
  /\ NewStream(k, "added")
  /\ UNCHANGED <<clusterVars, observerVars, insightVars, revised, orchestrator,
                 ensembleVars, counted, first>>

(* The processor: the object is indexed first, and is handled when all are.*)
IndexObject(k) ==
  /\ object[k] \in {"found", "added"}
  /\ object' = [object EXCEPT ![k] = "waiting"]
  /\ toggles' = toggles \ {ObjectToggle(k)}
  /\ UNCHANGED <<clusterVars, observerVars, insightVars, revised, orchestrator,
                 ensembleVars, counted, freed, first>>

HandleObject(k) ==
  /\ object[k] = "waiting" /\ (IsIndexed \/ k \in freed)
  /\ object' = [object EXCEPT ![k] = "handled"]
  /\ UNCHANGED <<clusterVars, observerVars, insightVars, revised, orchestrator,
                 ensembleVars, toggles, counted, freed, first>>

(* A cancelled watcher lets the workers finish for a while, then kills them*)
KillWorkers(k) ==
  object' = [object EXCEPT ![k] = IF @ \in {"found", "added", "waiting"} THEN "killed" ELSE @]

EndWatcher(k) ==
  /\ watcher[k] = "cancelled"
  /\ watcher' = [watcher EXCEPT ![k] = "ended"]
  /\ KillWorkers(k)
  /\ UNCHANGED <<clusterVars, observerVars, insightVars, revised, orchestrator, redundant,
                 peering, failed, conflicts, missing, toggles, counted, freed, first>>

(* A task fails when a request or a worker of it fails for good, as in the *)
(* listing of a resource that is gone.  Nobody waits for it: it stays in   *)
(* the ensemble, and is not spawned again.                                 *)
FailWatcher(k) ==
  /\ watcher[k] \in {"new", "listed"}
  /\ watcher' = [watcher EXCEPT ![k] = "failed"]
  /\ KillWorkers(k)
  /\ UNCHANGED <<clusterVars, observerVars, insightVars, revised, orchestrator, redundant,
                 peering, failed, conflicts, missing, toggles, counted, freed, first>>

FailPeering(k) ==
  /\ k \in peering \ failed
  /\ failed' = failed \cup {k}
  /\ UNCHANGED <<clusterVars, observerVars, insightVars, revised, orchestrator, redundant,
                 watcher, peering, conflicts, missing, indexVars>>

(* The peering task of a key finds other operators, or none (see Peering). *)
RaiseConflict(k) ==
  /\ MayChange
  /\ k \in peering \ failed /\ k \notin conflicts
  /\ conflicts' = conflicts \cup {k}
  /\ UNCHANGED <<existing, space, access, overlooked, observerVars, insightVars, revised,
                 orchestrator, redundant, watcher, peering, failed, missing, indexVars>>

ResolveConflict(k) ==
  /\ k \in (peering \ failed) \cap conflicts
  /\ conflicts' = conflicts \ {k}
  /\ UNCHANGED <<clusterVars, observerVars, insightVars, revised, orchestrator, redundant,
                 watcher, peering, failed, missing, indexVars>>

-----------------------------------------------------------------------------
Environment ==
  \/ \E r \in Kinds : ChangeResource(r)
  \/ \E n \in Namespaces : ChangeNamespace(n)
  \/ \E k \in Keys : AddObject(k) \/ RaiseConflict(k)
  \/ LoseResources \/ LoseNamespaces \/ CancelOrchestrator

Revise ==
  \/ \E response \in scans : FirstRevision(response) \/ ReviseGroup(response)
  \/ FirstNamespaces \/ AssumeNamespaces
  \/ \E n \in Namespaces : NoticeNamespace(n)

Observe ==
  \/ ScanResources \/ ListResources \/ ListNamespaces \/ RelistNamespaces
  \/ \E r \in Kinds : ScanGroup(r)
  \/ Revise

Orchestrate ==
  \/ BeginAdjusting \/ DropRedundant \/ SpawnPeerings \/ BlockReadiness
  \/ EndAdjusting \/ CloseOrchestrator
  \/ \E k \in Keys : SpawnWatcher(k)

Serve(k) ==
  \/ FindObject(k) \/ EndListing(k) \/ IndexObject(k) \/ HandleObject(k)
  \/ EndWatcher(k) \/ FailWatcher(k) \/ FailPeering(k) \/ ResolveConflict(k)

Next == Environment \/ Observe \/ Orchestrate \/ \E k \in Keys : Serve(k)

Spec == Init /\ [][Next]_vars

(* The observers and the orchestrator wait for nothing but the server and  *)
(* each other: the lock is fair, each request is answered, the tasks being *)
(* stopped end eventually, and those not paused go on.                     *)
FairSpec ==
  /\ Spec
  /\ WF_vars(Orchestrate)
  /\ WF_vars(ScanResources \/ ListResources)
  /\ WF_vars(\E r \in Kinds : ScanGroup(r))
  /\ WF_vars(ListNamespaces \/ RelistNamespaces)
  /\ SF_vars(Revise)
  /\ \A k \in Keys : /\ WF_vars(EndListing(k)) /\ WF_vars(IndexObject(k))
                     /\ WF_vars(EndWatcher(k)) /\ WF_vars(ResolveConflict(k))

-----------------------------------------------------------------------------
(* Properties.                                                             *)

Spaces == {"active", "blocked", "vacant", "absent"}

TypeOK ==
  /\ existing \subseteq Kinds /\ served \subseteq Kinds /\ indexed \subseteq Kinds
  /\ space \in [Namespaces -> Spaces] /\ listing \in [Namespaces -> Spaces]
  /\ nameEvents \in [Namespaces -> Seq(Spaces)]
  /\ namespaces \subseteq Namespaces \cup {Unset}
  /\ crdEvents \subseteq Kinds /\ \A response \in scans : response.found \subseteq Kinds
  /\ backbone = [s \in DOMAIN backbone |-> backbone[s]] /\ PeeringResources \subseteq Kinds
  /\ watcher \in [Keys -> {"none", "new", "listed", "cancelled", "ended", "failed"}]
  /\ object \in [Keys -> {"none", "found", "added", "waiting", "handled", "killed"}]
  /\ crds \in {"scanning", "revising", "listing", "watching", "assumed"}
  /\ names \in {"listing", "revising", "relisting", "watching", "assumed"}
  /\ orchestrator \in {"waiting", "stopping", "peering", "blocking", "spawning",
                       "closing", "closed"}
  /\ redundant \subseteq Keys /\ peering \subseteq Keys /\ failed \subseteq peering
  /\ counted \subseteq Keys /\ freed \subseteq Keys /\ first \subseteq Keys
  /\ toggles \subseteq {Blocker, Leftover} \cup TogglesOf(Keys)

(* Whenever the orchestrator rests with nothing new to be adjusted to, it  *)
(* has exactly the tasks for the insights: a watcher for every resource    *)
(* and namespace served, a peering for every namespace, and nothing else;  *)
(* and the operator is paused for the lack of a peering only if so.  No    *)
(* revision of the insights is ever lost between two adjustments.  Only    *)
(* the tasks for the whole cluster stay with no namespaces to be served,   *)
(* and the watchers of a peering resource when it is not served any more.  *)
Watched == {k \in Keys : watcher[k] # "none"}
Lingers(k) == IsRemaining(k) /\ (k[1] \notin served \/ (k[2] = Unset /\ namespaces = {}))

EnsembleMatchesInsights ==
  orchestrator = "waiting" /\ ~revised =>
    /\ KeysOf(served, namespaces) \subseteq Watched
    /\ KeysOf(PeeringResources, namespaces) \subseteq peering
    /\ \A k \in Watched \ KeysOf(served, namespaces) : Lingers(k)
    /\ \A k \in peering \ KeysOf(PeeringResources, namespaces) : k[2] = Unset /\ namespaces = {}
    /\ namespaces # {} => missing = (Mandatory /\ PeeringResources = {})

(* The handlers of an object see the indices of all the objects that were  *)
(* found by the listings of all the indexed resources started before the   *)
(* operator was ready: none of these is yet to be started or listed.       *)
HandlersSeeFullIndices ==
  \A k, i \in Keys :
    object[k] = "handled" /\ i \in first => watcher[i] \notin {"none", "new"} /\ object[i] # "found"

(* The insights follow the cluster: once all events are processed and the  *)
(* orchestrator rests, every existing resource that is meant by a handler, *)
(* can be served, and is the only one of its group and its selectors is    *)
(* served, and no other; every matching namespace that is active is, and   *)
(* those which are gone are not; unless a change was overlooked, or the    *)
(* cluster may not be watched.                                             *)
IsMeant(r) == \E s \in Indexed \cup Handled : Check(s, r)
IsUnrivalled(r) ==
  \A other \in Kinds \ {r} :
    /\ Traits[other].group # Traits[r].group
    /\ \A s \in Indexed \cup Handled : ~(Check(s, r) /\ Check(s, other))

AtRest ==
  /\ orchestrator = "waiting" /\ ~revised
  /\ crds = "watching" /\ crdEvents = {} /\ scans = {}
  /\ names = "watching" /\ \A n \in Namespaces : nameEvents[n] = <<>>

IsSuitable(r) == {"watch", "list", "patch"} \subseteq Traits[r].verbs
IsServedRightly(r) ==
  /\ r \in served => r \in existing /\ IsMeant(r)
  /\ r \in existing /\ IsMeant(r) /\ IsSuitable(r) => r \in served

InsightsMatchCluster ==
  AtRest /\ overlooked = {} =>
    /\ \A r \in Kinds : IsUnrivalled(r) => IsServedRightly(r)
    /\ \A n \in Namespaces :
         /\ space[n] = "active" /\ Matched(n) => n \in namespaces
         /\ space[n] \in {"vacant", "absent"} => n \notin namespaces

(* No toggle pauses the operator without a task to resolve it: as long as  *)
(* the operator is not exiting, each conflict is of a peering which is in  *)
(* the ensemble, however the peerings come, go and fail; and once all is   *)
(* at rest, none is of a namespace that is gone.  It is not said that the  *)
(* task of that peering still runs: if it has failed, it stays in the      *)
(* ensemble, and nobody resolves its conflict any more (see the next one). *)
ConflictsAreOwned == Alive => conflicts \subseteq peering
NoneIsOfTheGone ==
  AtRest /\ overlooked = {} =>
    \A k \in conflicts : k[2] = Unset \/ space[k[2]] \notin {"vacant", "absent"}

PausesAreOwned == ConflictsAreOwned /\ NoneIsOfTheGone

(* _core/engines/peering.py:113-114: "When conflicting operators disappear   *)
(* or become presumably dead, resume the event handling".  Here: whoever   *)
(* is to notice that is there.  It does not hold: the watcher of a peering *)
(* fails if its resource is deleted, which the backbone of resources never *)
(* forgets, so the orchestrator does not stop it, nor replace it.          *)
ConflictsAreObserved == Alive => conflicts \cap failed = {}

(* From the cluster to the tasks, nothing gets lost on the way through the *)
(* events, the scans, the insights and the adjustments: once all is at     *)
(* rest, every resource that can and must be served has a watcher in every *)
(* namespace that is meant, spawned and not stopped since; and a resource  *)
(* or namespace that is gone has none, unless for the peering.             *)
KeyOf(r, n) == <<r, IF Traits[r].namespaced THEN n ELSE Unset>>
IsToBeWatched(r, n) ==
  /\ r \in existing /\ IsMeant(r) /\ IsSuitable(r)
  /\ space[n] = "active" /\ Matched(n)

EnsembleMatchesCluster ==
  AtRest /\ overlooked = {} =>
    \A r \in Kinds, n \in Namespaces : IsUnrivalled(r) =>
      /\ IsToBeWatched(r, n) => watcher[KeyOf(r, n)] \in {"new", "listed", "failed"}
      /\ KeyOf(r, n) \in Watched /\ r \notin PeeringResources =>
           /\ r \in existing /\ IsMeant(r)
           /\ Traits[r].namespaced => space[n] \notin {"vacant", "absent"}

(* _cogs/clients/watching.py:208: "Other watch errors should be fatal for  *)
(* the operator".  Here: a watcher that has failed does not stay, unnoticed *)
(* and not replaced, for a resource that is served.                        *)
FailedAreNotLeft ==
  AtRest /\ overlooked = {} => \A k \in KeysOf(served, namespaces) : watcher[k] # "failed"

(* The operator gets ready: as long as it is neither paused nor exiting,   *)
(* the indexing is over eventually, and the handlers are called; unless a  *)
(* change was overlooked.                                                  *)
ReadyEventually == <>[](~Alive \/ IsPaused \/ overlooked # {} \/ IsIndexed)
=============================================================================
