------------------------------- MODULE Daemons -------------------------------
(***************************************************************************)
(* The daemons and timers of one object: kopf/_core/engines/daemons.py     *)
(* with the part of reactor/processing.py that spawns and stops them and   *)
(* guards the object with the finalizer meanwhile.                         *)
(*                                                                         *)
(* Three parties act on a daemon: its own task, the worker of the object   *)
(* (which stops daemons in many short cycles, so that the object can wait  *)
(* for them), and the daemon killer (which stops all daemons in memory     *)
(* when the operator pauses or exits).  They share the dict of running     *)
(* daemons and one stopper per daemon, and take turns at every "await": a  *)
(* step here is what one task does between two suspension points, and no   *)
(* other task steps in while the worker is between them (Suspended).       *)
(*                                                                         *)
(* The changing handlers of the object are in the module Processing; here  *)
(* they are only the time that the worker spends in them.  The memory of   *)
(* the object is one record, as its uid never returns after DELETED.       *)
(***************************************************************************)
EXTENDS Naturals, Sequences, FiniteSets

CONSTANTS
  Ids,        \* the ids of the spawning handlers of the resource
  Backoff,    \* those with a cancellation_backoff
  Timeout,    \* those with a cancellation_timeout
  Heeding,    \* those that exit when their stopper is set
  Async,      \* those that exit when their task is cancelled
  Finite,     \* those that may exit on their own
  IdleOnly,   \* the timers with an idle time but no interval
  Diffbase,   \* the last handled essence is stored, so that diffs are real
  MaxFlips,   \* bound: edits of the object that change what matches
  MaxPauses,  \* bound: pauses of the operator because of its peers
  MaxExits,   \* bound: exits of the operator that are not for a failure
  MaxChanges  \* bound: all of them together

ASSUME DaemonsAssumption ==
  /\ IsFiniteSet(Ids)
  /\ UNION {Backoff, Timeout, Heeding, Async, Finite, IdleOnly} \subseteq Ids
  /\ IdleOnly \cap (Backoff \cup Timeout) = {}
  /\ Diffbase \in BOOLEAN
  /\ {MaxFlips, MaxPauses, MaxExits, MaxChanges} \subseteq Nat

VARIABLES
  object,     \* the object in the cluster
  stream,     \* the events of the object which its worker has not taken
  watched,    \* the watch-stream of the resource is connected
  paused,     \* operator_paused.is_on()
  exiting,    \* the root tasks of the operator are cancelled
  memory,     \* DaemonsMemory, and the rest of the object's memory
  running,    \* running_daemons: the daemons by their ids
  worker,     \* the processing cycle of the object
  killer,     \* daemon_killer()
  budget      \* what is left of the bounds

clusterVars  == <<object, stream, watched>>
operatorVars == <<paused, exiting>>
vars == <<object, stream, watched, paused, exiting, memory, running, worker,
          killer, budget>>

(* DaemonStoppingReason, without DONE: an exited daemon is not kept. *)
Reasons == {"mismatch", "deleted", "pausing", "exiting",
            "signalled", "cancelled", "abandoned"}

(* The tasks of stop_daemon(): why they stop the daemon and where they are. *)
Chasers == {"pausing", "exiting"} \X
             {"new", "instant", "backoff", "timeout", "given up"}

(* The Body objects that the daemons and their memory refer to; 0 is None. *)
Bodies == 1..(Cardinality(Ids) + 2)

Daemon == [reasons : SUBSET Reasons, age : 0..2, body : Bodies,
           dozing : BOOLEAN, chasers : SUBSET Chasers]

Event == [match : SUBSET Ids, deleting : BOOLEAN, blocked : BOOLEAN,
          gone : BOOLEAN, edited : BOOLEAN]

Idle == [pc |-> "idle"]

-----------------------------------------------------------------------------
(* The cluster: what the watch-events show of the object. *)

Snapshot(o, edited) ==
  [match |-> o.match, deleting |-> o.deleting, blocked |-> o.blocked,
   gone |-> ~o.there, edited |-> edited \/ ~Diffbase]

(* The object becomes o, and its watcher, if it is connected, gets an event. *)
Becomes(o, edited) ==
  /\ object' = o
  /\ stream' = IF watched THEN Append(stream, Snapshot(o, edited)) ELSE stream

(* The asyncio tasks other than the worker run only when it awaits. *)
Suspended ==
  worker.pc \in {"idle", "taken", "asked", "escalated", "applying", "sleeping"}

Init ==
  /\ object \in [there : {TRUE}, match : {Ids}, deleting : {FALSE},
                 blocked : BOOLEAN]
  /\ stream = <<Snapshot(object, TRUE)>>
  /\ watched = TRUE
  /\ paused = FALSE
  /\ exiting = FALSE
  /\ memory = [known |-> FALSE, forever |-> {}, live |-> 0,
               remaining |-> "keep"]
  /\ running = <<>>
  /\ worker = Idle
  /\ killer = [pc |-> "waiting", visited |-> {}, size |-> 0]
  /\ budget = [flips |-> MaxFlips, pauses |-> MaxPauses, exits |-> MaxExits]

IsAffordable(change) ==
  /\ budget[change] > 0
  /\ (MaxFlips - budget.flips) + (MaxPauses - budget.pauses) + (MaxExits - budget.exits)
       < MaxChanges

UserEdits ==
  /\ Suspended /\ object.there /\ IsAffordable("flips")
  /\ \E m \in SUBSET Ids \ {object.match} :
       Becomes([object EXCEPT !.match = m], TRUE)
  /\ budget' = [budget EXCEPT !.flips = @ - 1]
  /\ UNCHANGED <<watched, operatorVars, memory, running, worker, killer>>

(* Without the finalizer, the object goes away at once, with no trace of a *)
(* deletion in its last event.                                             *)
UserDeletes ==
  /\ Suspended /\ object.there /\ ~object.deleting
  /\ Becomes(IF object.blocked THEN [object EXCEPT !.deleting = TRUE]
                               ELSE [object EXCEPT !.there = FALSE], FALSE)
  /\ UNCHANGED <<watched, operatorVars, memory, running, worker, killer,
                 budget>>

-----------------------------------------------------------------------------
(* The daemon's own task: _runner(). *)

Others(d) == DOMAIN running \ {d}

(* The record of an exited daemon is dropped, and if the daemon was not    *)
(* asked to exit, it will never be spawned again; the body is released     *)
(* with the last of such daemons.                                          *)
ForeverStopped(d) ==
  IF running[d].reasons = {} THEN memory.forever \cup {d} ELSE memory.forever

CanFree(d) == d \in ForeverStopped(d) /\ Others(d) = {}

Leave(d) ==
  /\ memory' = [memory EXCEPT !.forever = ForeverStopped(d),
                              !.live = IF CanFree(d) THEN 0 ELSE @]
  /\ running' = [e \in Others(d) |-> running[e]]
  /\ UNCHANGED <<clusterVars, operatorVars, worker, killer, budget>>

ExitsOnItsOwn(d) == Suspended /\ d \in Finite /\ Leave(d)

ExitsOnRequest(d) ==
  /\ Suspended
  /\ \/ d \in Heeding /\ running[d].reasons # {} /\ ~running[d].dozing
     \/ d \in Async /\ "cancelled" \in running[d].reasons
  /\ Leave(d)

(* A timer with nothing but an idle time has fired, and waits in a loop    *)
(* until the object is changed (idle_reset_time > started).                *)
TimerDozes(d) ==
  /\ Suspended /\ d \in IdleOnly
  /\ running[d].reasons = {} /\ ~running[d].dozing
  /\ running' = [running EXCEPT ![d].dozing = TRUE]
  /\ UNCHANGED <<clusterVars, operatorVars, memory, worker, killer, budget>>

(* The stages of the termination that are limited in time. *)
Grace(d) == (IF d \in Backoff THEN 1 ELSE 0) + (IF d \in Timeout THEN 1 ELSE 0)

(* The time since stopper.when, in the stages of the termination. *)
AgePasses(d) ==
  /\ Suspended /\ running[d].reasons # {} /\ running[d].age < Grace(d)
  /\ running' = [running EXCEPT ![d].age = @ + 1]
  /\ UNCHANGED <<clusterVars, operatorVars, memory, worker, killer, budget>>

-----------------------------------------------------------------------------
(* The worker: process_resource_event() and process_spawning_cause(). *)

NewBody == CHOOSE b \in Bodies :
             b # memory.live /\ \A d \in DOMAIN running : running[d].body # b

(* The memory is recalled, and forgotten at once if the object is gone.    *)
(* The spies and indexers, the throttling and the indexing are awaited     *)
(* before the daemons.                                                     *)
TakeEvent ==
  /\ worker.pc = "idle" /\ stream # <<>>
  /\ worker' = [pc |-> "taken", event |-> Head(stream),
                body |-> IF memory.live # 0 THEN memory.live ELSE NewBody]
  /\ stream' = Tail(stream)
  /\ memory' = [memory EXCEPT !.known = ~Head(stream).gone]
  /\ UNCHANGED <<object, watched, operatorVars, running, killer, budget>>

(* stop_daemons() begins: the list of the daemons is fixed, and the time.  *)
Stopping(daemons, reason, event, delays) ==
  [pc |-> "stopping", event |-> event, reason |-> reason, delays |-> delays,
   todo |-> DOMAIN daemons, ages |-> [d \in DOMAIN daemons |-> daemons[d].age]]

Spawned(body) ==
  [reasons |-> {}, age |-> 0, body |-> body, dozing |-> FALSE, chasers |-> {}]

(* Changes of the essence restart the idling of the timers. *)
Reset(daemons, event) ==
  [d \in DOMAIN daemons |->
     [daemons[d] EXCEPT !.dozing = @ /\ ~event.edited]]

HandlersForAll(event) == event.match   \* mutant of HandlersFor

HandlersFor(event) == event.match \ memory.forever

(* Either all daemons of the deleted object are stopped, or those that     *)
(* match and do not run are spawned, and those that mismatch are stopped.  *)
SpawnDaemons ==
  /\ worker.pc = "taken"
  /\ LET event == worker.event
         body  == IF memory.live = 0 THEN worker.body ELSE memory.live
         added == IF event.deleting THEN {}
                  ELSE HandlersFor(event) \ DOMAIN running
         all   == [d \in DOMAIN running \cup added |->
                     IF d \in added THEN Spawned(body)
                     ELSE Reset(running, event)[d]]
         unfit == [d \in DOMAIN all \ HandlersFor(event) |-> all[d]]
     IN /\ memory' = [memory EXCEPT !.live = body]
        /\ running' = all
        /\ killer' = [killer EXCEPT !.visited = @ \ added]
        /\ worker' = IF event.deleting
                     THEN Stopping(all, "deleted", event, FALSE)
                     ELSE Stopping(unfit, "mismatch", event, FALSE)
  /\ UNCHANGED <<clusterVars, operatorVars, budget>>

-----------------------------------------------------------------------------
(* The worker stops daemons: stop_daemons(), without waiting for them. *)

(* Mutant of Stage. *)
StageForever(d, age) ==
  IF d \in Backoff /\ age = 0 THEN "signalled"
  ELSE IF d \in Timeout /\ age < Grace(d) THEN "cancelled" ELSE "polled"

(* What the age of the stopper calls for. *)
Stage(d, age) ==
  IF d \in Backoff /\ age = 0 THEN "signalled"
  ELSE IF d \in Timeout /\ age < Grace(d) THEN "cancelled"
  ELSE IF d \in Timeout THEN "abandoned" ELSE "polled"

Mark(d, reason) ==
  running' = [running EXCEPT ![d].reasons = @ \cup {reason}]

(* The daemon is dealt with; it is to be checked again if "delayed". *)
Visited(d, delayed) ==
  worker' = [pc |-> "stopping", event |-> worker.event,
             reason |-> worker.reason, todo |-> worker.todo \ {d},
             ages |-> worker.ages, delays |-> worker.delays \/ delayed]

Await(d, pc) ==
  worker' = [pc |-> pc, event |-> worker.event, reason |-> worker.reason,
             todo |-> worker.todo, ages |-> worker.ages,
             delays |-> worker.delays, daemon |-> d]

Escalate(d) ==
  LET stage == Stage(d, worker.ages[d]) IN
  \/ /\ d \notin DOMAIN running
     /\ Visited(d, FALSE) /\ UNCHANGED running
  \/ /\ d \in DOMAIN running /\ stage \in {"signalled", "cancelled"}
     /\ IF stage \in running[d].reasons
        THEN Visited(d, TRUE) /\ UNCHANGED running
        ELSE Mark(d, stage) /\ Await(d, "escalated")
  \/ /\ d \in DOMAIN running /\ stage = "abandoned"
     /\ Mark(d, "abandoned") /\ Visited(d, FALSE)
  \/ /\ d \in DOMAIN running /\ stage = "polled"
     /\ Visited(d, TRUE) /\ UNCHANGED running

AlreadyAsked(d) ==
  d \notin DOMAIN running \/ worker.reason \in running[d].reasons

(* The stopper is set for the reason, and the daemon gets a few cycles of  *)
(* the event loop for an instant exit before anything else is tried.       *)
StopDaemon(d) ==
  /\ worker.pc = "stopping" /\ d \in worker.todo
  /\ IF AlreadyAsked(d) THEN Escalate(d)
     ELSE Mark(d, worker.reason) /\ Await(d, "asked")
  /\ UNCHANGED <<clusterVars, operatorVars, memory, killer, budget>>

InstantExitIsOver ==
  /\ \/ worker.pc = "asked" /\ Escalate(worker.daemon)
     \/ /\ worker.pc = "escalated"
        /\ Visited(worker.daemon, worker.daemon \in DOMAIN running)
        /\ UNCHANGED running
  /\ UNCHANGED <<clusterVars, operatorVars, memory, killer, budget>>

(* pause_daemons(): those that were spawned after the killer's sweep. *)
PauseDaemons ==
  /\ worker.pc = "stopping" /\ worker.todo = {}
  /\ worker.reason = "mismatch" /\ paused
  /\ worker' = Stopping(running, "pausing", worker.event, worker.delays)
  /\ UNCHANGED <<clusterVars, operatorVars, memory, running, killer, budget>>

(* The finalizer is added for the daemons to come, and removed if there    *)
(* are none, or none of the deleted object is to be waited for.            *)
MustBlock(event) == HandlersFor(event) # {}

(* Mutant of IsReleased. *)
ReleasedAtOnce(event, delays) ==
  ~event.gone /\ event.deleting /\ event.blocked

IsReleased(event, delays) ==
  ~event.gone /\ event.deleting /\ event.blocked /\ ~delays

MustRelease(event, delays) ==
  (~MustBlock(event) /\ event.blocked) \/ IsReleased(event, delays)

Decision(event, delays) ==
  IF MustRelease(event, delays) THEN "remove"
  ELSE IF MustBlock(event) /\ ~event.blocked /\ ~event.deleting THEN "add"
  ELSE memory.remaining

Decide ==
  /\ worker.pc = "stopping" /\ worker.todo = {}
  /\ ~(worker.reason = "mismatch" /\ paused)
  /\ worker' = [pc |-> "applying", event |-> worker.event,
                delays |-> worker.delays,
                patch |-> Decision(worker.event, worker.delays)]
  /\ UNCHANGED <<clusterVars, operatorVars, memory, running, killer, budget>>

-----------------------------------------------------------------------------
(* The worker applies the patch, or sleeps until the next check. *)

Patched ==
  IF worker.patch = "add" THEN [object EXCEPT !.blocked = TRUE]
  ELSE [object EXCEPT !.blocked = FALSE, !.there = ~@ \/ ~object.deleting]

(* The JSON-patch is guarded by the resource version of the event.  There  *)
(* are no versions here: two changes while the watching is disconnected,   *)
(* of which the second one takes back the first one, are not told from none. *)
IsUnchanged ==
  /\ stream = <<>>
  /\ object.match = worker.event.match
  /\ object.deleting = worker.event.deleting
  /\ object.blocked = worker.event.blocked

Apply ==
  /\ worker.pc = "applying" /\ ~worker.event.gone /\ worker.patch # "keep"
  /\ worker' = Idle
  /\ \/ (* 404 Not Found, or nothing to change *)
        /\ ~object.there \/ worker.event.blocked = (worker.patch = "add")
        /\ memory' = [memory EXCEPT !.remaining = "keep"]
        /\ UNCHANGED clusterVars
     \/ /\ object.there /\ worker.event.blocked # (worker.patch = "add")
        /\ IsUnchanged
        /\ memory' = [memory EXCEPT !.remaining = "keep"]
        /\ Becomes(Patched, FALSE) /\ UNCHANGED watched
     \/ (* 422 Unprocessable Entity *)
        /\ object.there /\ worker.event.blocked # (worker.patch = "add")
        /\ ~IsUnchanged
        /\ memory' = [memory EXCEPT !.remaining = worker.patch]
        /\ UNCHANGED clusterVars
  /\ UNCHANGED <<operatorVars, running, killer, budget>>

NothingToApply ==
  /\ worker.pc = "applying"
  /\ worker.event.gone \/ worker.patch = "keep"
  /\ worker' = IF ~worker.event.gone /\ worker.delays
               THEN [pc |-> "sleeping"] ELSE Idle
  /\ memory' = IF worker.event.gone THEN memory
               ELSE [memory EXCEPT !.remaining = "keep"]
  /\ UNCHANGED <<clusterVars, operatorVars, running, killer, budget>>

(* The stream has pressure: a new event, or the end of the stream. *)
WakeUp ==
  /\ worker.pc = "sleeping"
  /\ stream # <<>> \/ exiting
  /\ worker' = Idle
  /\ UNCHANGED <<clusterVars, operatorVars, memory, running, killer, budget>>

(* The object is touched with a dummy value, for the sake of an event. *)
Touch ==
  /\ worker.pc = "sleeping" /\ stream = <<>>
  /\ worker' = Idle
  /\ IF object.there THEN Becomes(object, FALSE) /\ UNCHANGED watched
                     ELSE UNCHANGED clusterVars
  /\ UNCHANGED <<operatorVars, memory, running, killer, budget>>

-----------------------------------------------------------------------------
(* The killer: daemon_killer(), with an await after each spawned stopper. *)

Sweeps == {"pausing", "exiting"}

Sweep(pc) == [pc |-> pc, visited |-> {}, size |-> 0]

Rest(pc) == [pc |-> pc, visited |-> {}, size |-> 0]

(* Mutant of Unvisited. *)
UnvisitedStopping ==
  {d \in DOMAIN running \ killer.visited : running[d].reasons # {}}

(* The dict of the daemons is iterated only if the memory was known when   *)
(* the iteration came to it.                                               *)
Unvisited ==
  IF memory.known \/ killer.visited # {}
  THEN DOMAIN running \ killer.visited ELSE {}

(* RuntimeError: dictionary changed size during iteration. *)
IsBroken ==
  /\ killer.visited # {}
  /\ \/ killer.size # Cardinality(DOMAIN running)
     \/ Unvisited = {} /\ ~memory.known

(* A second stopper for the same reason only sets what the first one has   *)
(* set before it, and is left out; so are the sweeps, repeated every       *)
(* second while the operator is paused, that find nobody new.              *)
IsChased(d, reason) == \E c \in running[d].chasers : c[1] = reason

Chase(d, reason) ==
  running' = IF IsChased(d, reason) THEN running
             ELSE [running EXCEPT ![d].chasers = @ \cup {<<reason, "new">>}]

SweepPausing ==
  /\ Suspended /\ paused
  /\ \/ killer.pc = "waiting"
     \/ /\ killer.pc = "resting" /\ memory.known
        /\ \E d \in DOMAIN running : ~IsChased(d, "pausing")
  /\ killer' = Sweep("pausing")
  /\ UNCHANGED <<clusterVars, operatorVars, memory, running, worker, budget>>

KillerVisits ==
  /\ Suspended /\ killer.pc \in Sweeps /\ ~IsBroken
  /\ \E d \in Unvisited :
       /\ Chase(d, killer.pc)
       /\ killer' = [killer EXCEPT !.visited = @ \cup {d},
                                   !.size = Cardinality(DOMAIN running)]
  /\ UNCHANGED <<clusterVars, operatorVars, memory, worker, budget>>

SweepEnds ==
  /\ Suspended /\ killer.pc \in Sweeps /\ ~IsBroken /\ Unvisited = {}
  /\ killer' = Rest(IF killer.pc = "pausing" THEN "resting" ELSE "draining")
  /\ UNCHANGED <<clusterVars, operatorVars, memory, running, worker, budget>>

(* A failed root task stops the operator; the "finally" block of the       *)
(* killer can fail of the same.                                            *)
SweepBreaks ==
  /\ Suspended /\ killer.pc \in Sweeps /\ IsBroken
  /\ killer' = IF killer.pc = "pausing" THEN Sweep("exiting")
                                        ELSE Rest("failed")
  /\ exiting' = TRUE
  /\ watched' = FALSE
  /\ UNCHANGED <<object, stream, paused, memory, running, worker, budget>>

KillerReturnsToWait ==
  /\ Suspended /\ killer.pc = "resting" /\ ~paused
  /\ killer' = Rest("waiting")
  /\ UNCHANGED <<clusterVars, operatorVars, memory, running, worker, budget>>

DaemonsAreDone == DOMAIN running = {}   \* mutant of StoppersAreDone

(* scheduler.wait(): until there are no tasks of stop_daemon(). *)
StoppersAreDone ==
  \A d \in DOMAIN running :
    \A c \in running[d].chasers : c[2] = "given up"

KillerIsDone ==
  /\ Suspended /\ killer.pc = "draining" /\ StoppersAreDone
  /\ killer' = Rest("done")
  /\ UNCHANGED <<clusterVars, operatorVars, memory, running, worker, budget>>

(* stop_daemon(), linearly and in memory: from one wait to the next. *)
NextStage(d, stage) ==
  CASE stage = "new" -> "instant"
    [] stage = "instant" /\ d \in Backoff -> "backoff"
    [] stage \in {"instant", "backoff"} /\ d \in Timeout
       /\ ~(stage = "instant" /\ d \in Backoff) -> "timeout"
    [] OTHER -> "given up"

StageReason(reason, stage) ==
  CASE stage = "instant" -> reason
    [] stage = "backoff" -> "signalled"
    [] stage = "timeout" -> "cancelled"
    [] OTHER -> "abandoned"

ChaserSteps(d) ==
  /\ Suspended
  /\ \E c \in running[d].chasers :
       LET next == NextStage(d, c[2]) IN
       /\ c[2] # "given up"
       /\ running' = [running EXCEPT
            ![d].reasons = @ \cup {StageReason(c[1], next)},
            ![d].chasers = (@ \ {c}) \cup {<<c[1], next>>}]
  /\ UNCHANGED <<clusterVars, operatorVars, memory, worker, killer, budget>>

-----------------------------------------------------------------------------
(* The operator: paused by the peers, resumed, exiting. *)

Pause ==
  /\ Suspended /\ ~paused /\ ~exiting /\ IsAffordable("pauses")
  /\ paused' = TRUE
  /\ budget' = [budget EXCEPT !.pauses = @ - 1]
  /\ UNCHANGED <<clusterVars, exiting, memory, running, worker, killer>>

(* The watcher is disconnected some time after the operator is paused. *)
Disconnect ==
  /\ Suspended /\ paused /\ watched
  /\ watched' = FALSE
  /\ UNCHANGED <<object, stream, operatorVars, memory, running, worker,
                 killer, budget>>

(* The resource is listed again when the watch-stream is connected again.  *)
(* Of an object that is gone, nothing is said.                             *)
Resume ==
  /\ Suspended /\ paused /\ ~exiting
  /\ paused' = FALSE
  /\ watched' = TRUE
  /\ stream' = IF ~watched /\ object.there
               THEN Append(stream, Snapshot(object, FALSE)) ELSE stream
  /\ UNCHANGED <<object, exiting, memory, running, worker, killer, budget>>

Exit ==
  /\ Suspended /\ ~exiting /\ IsAffordable("exits")
  /\ exiting' = TRUE
  /\ watched' = FALSE
  /\ killer' = Sweep("exiting")
  /\ budget' = [budget EXCEPT !.exits = @ - 1]
  /\ UNCHANGED <<object, stream, paused, memory, running, worker>>

-----------------------------------------------------------------------------
Worker ==
  \/ TakeEvent \/ SpawnDaemons
  \/ \E d \in Ids : StopDaemon(d)
  \/ InstantExitIsOver \/ PauseDaemons \/ Decide
  \/ Apply \/ NothingToApply \/ WakeUp \/ Touch

Killer ==
  \/ SweepPausing \/ KillerVisits \/ SweepEnds \/ SweepBreaks
  \/ KillerReturnsToWait \/ KillerIsDone

Next ==
  \/ UserEdits \/ UserDeletes
  \/ Pause \/ Disconnect \/ Resume \/ Exit
  \/ Worker \/ Killer
  \/ \E d \in DOMAIN running :
       ExitsOnItsOwn(d) \/ ExitsOnRequest(d) \/ TimerDozes(d) \/ AgePasses(d)
       \/ ChaserSteps(d)

Spec == Init /\ [][Next]_vars

(* The event loop runs every task that can run (strongly, as a task has to *)
(* wait for the worker to await), and time passes.  Nobody has to edit or  *)
(* delete the object, to pause or to exit; and no daemon has to exit on    *)
(* its own.                                                                *)
Fairness ==
  /\ WF_vars(Worker) /\ SF_vars(Killer)
  /\ \A d \in Ids :
       /\ SF_vars(d \in DOMAIN running /\ ExitsOnRequest(d))
       /\ SF_vars(d \in DOMAIN running /\ AgePasses(d))
       /\ SF_vars(d \in DOMAIN running /\ ChaserSteps(d))

FairSpec == Spec /\ Fairness

-----------------------------------------------------------------------------
(* Properties *)

TypeOK ==
  /\ object \in [there : BOOLEAN, match : SUBSET Ids, deleting : BOOLEAN,
                 blocked : BOOLEAN]
  /\ stream \in Seq(Event)
  /\ {watched, paused, exiting} \subseteq BOOLEAN
  /\ memory \in [known : BOOLEAN, forever : SUBSET Ids, live : {0} \cup Bodies,
                 remaining : {"keep", "add", "remove"}]
  /\ DOMAIN running \subseteq Ids
  /\ \A d \in DOMAIN running : running[d] \in Daemon
  /\ killer.pc \in {"waiting", "resting", "draining", "done", "failed"}
                   \cup Sweeps
  /\ killer.visited \subseteq Ids /\ killer.size \in 0..Cardinality(Ids)

(* A daemon reads the object from the body that its memory keeps fresh,    *)
(* however many other daemons come and go: live_fresh_body is released and *)
(* made anew only when no running daemon refers to it.                     *)
BodyIsLive == \A d \in DOMAIN running : running[d].body = memory.live

(* A daemon that has exited on its own is never spawned again in the       *)
(* lifetime of the operator.                                               *)
OwnExitIsFinal == memory.forever \cap DOMAIN running = {}

(* The operator decides to release a deleted object only when each daemon  *)
(* whose filters it matches has exited, or is abandoned after its          *)
(* timeouts.  (What an earlier cycle has decided and failed to apply is    *)
(* another matter: see Divergences in README.)                             *)
ReleasedAfterDaemons ==
  [][object.deleting /\ object.there /\ ~object'.there
       /\ MustRelease(worker.event, worker.delays) =>
       \A d \in DOMAIN running \cap worker.event.match :
          "abandoned" \in running[d].reasons]_vars

(* Once the operator is paused, every daemon is asked to stop, those that  *)
(* were being spawned at the moment included, unless their memory is       *)
(* forgotten.                                                              *)
PausedAreAsked ==
  \A d \in Ids :
    (paused /\ d \in DOMAIN running) ~>
      (d \in DOMAIN running =>
         running[d].reasons # {} \/ ~memory.known \/ ~paused \/ exiting)

(* A deleted object is eventually released, whatever the daemons do, as    *)
(* long as they either exit on request or have a timeout.                  *)
DeletionCompletes ==
  <>[](~paused) /\ [](~exiting)
    => ((object.deleting /\ object.there) ~> ~object.there)

(* The exit of the operator never waits for a daemon forever. *)
ExitCompletes == exiting ~> killer.pc \in {"done", "failed"}

(* Once the worker rests with no event to come, nothing of the object is   *)
(* left undone: no deletion, no finalizer that is missing or that nobody   *)
(* needs, no removal left over from a conflict, and of those daemons that  *)
(* it must stop, only the abandoned ones run.  It never rests on an event  *)
(* that was outdated, on a delay that no one waits for, or on a patch that *)
(* makes no event.                                                         *)
AtRest == worker.pc = "idle" /\ stream = <<>> /\ watched /\ object.there

IsSettled ==
  /\ ~object.deleting
  /\ object.match \ memory.forever # {} => object.blocked
  /\ object.blocked => object.match # {}
  /\ \A d \in DOMAIN running \ object.match : "abandoned" \in running[d].reasons

RestIsSettled ==
  AtRest => IsSettled /\ memory.known /\ memory.remaining = "keep"

=============================================================================
