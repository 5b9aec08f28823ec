----------------------------- MODULE Processing -----------------------------
(***************************************************************************)
(* The handling of one object: kopf/_core/reactor/processing.py with the   *)
(* progress of its handlers (actions/progression.py), the application of   *)
(* the accumulated patch (actions/application.py, clients/patching.py) and *)
(* the consistency tracking of the worker (reactor/queueing.py).           *)
(*                                                                         *)
(* The operator keeps nothing of its own: the last handled essence, the    *)
(* progress of the handlers and the finalizer are all in the object.  It   *)
(* sees the object only through the watch-events, in order but late, and   *)
(* changes it with a merge-patch and then, for the finalizer, with a       *)
(* JSON-patch guarded by the resource version.  Meanwhile others edit and  *)
(* delete the object, the API fails, the watch is re-listed, the operator  *)
(* crashes and restarts.                                                   *)
(*                                                                         *)
(* A step is what the code does between two suspension points.  That the   *)
(* events of the object arrive in order to one worker at a time is what    *)
(* the module Queueing shows.  The pressure of the stream is "the backlog  *)
(* is not empty", which is what its PressureIsHonest shows.  There are no  *)
(* daemons and timers here, and no sub-handlers.                           *)
(***************************************************************************)
EXTENDS Integers, Sequences, FiniteSets

CONSTANTS
  Handlers,    \* the ids of the changing handlers
  Creating, Updating, Deleting, Resuming,   \* which of them are for what
  Essences,    \* the essences of the object; 0 is for "none is stored"
  Matching,    \* the essences for which the filters of the handlers match
  Spying,      \* an on-event handler puts a constant into every patch
  MaxEdits,    \* bound: edits of the essence, and sleeps cut at 10 minutes
  MaxRetries,  \* bound: temporary errors of the handlers
  Troubles,    \* the kinds of troubles that may happen
  MaxTroubles  \* bound: how many of them, in all

(* The operator restarts, a watch-stream ends with "410 Gone", a request   *)
(* fails after all its attempts, a request succeeds but its response is    *)
(* lost, a consistency timeout strikes although events are on their way.   *)
TroubleKinds == {"crash", "relist", "failure", "loss", "haste"}

ASSUME ProcessingAssumption ==
  /\ IsFiniteSet(Handlers)
  /\ UNION {Creating, Updating, Deleting, Resuming} \subseteq Handlers
  /\ Essences \subseteq Nat \ {0} /\ Matching \subseteq Essences
  /\ Spying \in BOOLEAN
  /\ Troubles \subseteq TroubleKinds
  /\ {MaxEdits, MaxRetries, MaxTroubles} \subseteq Nat

VARIABLES
  object,    \* the object in the cluster
  alive,     \* it exists
  wire,      \* the events sent by the server and not yet received
  backlog,   \* the events in the stream of the object
  memory,    \* ResourceMemory of the object
  expected,  \* expected_version, 0 for None
  deadline,  \* consistency_time: none, ahead, or over
  throttled, \* error_throttler.active_until is not None
  phase,     \* where the worker is
  event,     \* the event in processing
  patch,     \* the patch accumulated so far
  plan,      \* the handlers selected by the lifecycle and not yet run
  state,     \* progression.State
  delay,     \* the least of the delays: none, zero, or some
  fresh,     \* fresh_body of the patching, the reference of the JSON-patch
  result,    \* the resource version to return, 0 for None
  due,       \* handlers whose delay after a temporary error is over
  budget,    \* what is left of the bounds
  ended,     \* history: who has finished, for which reason and generation
  resumed,   \* history: resuming handlers that finished in this lifetime
  excused    \* history: handlers whose records were lost or overtaken

clusterVars == <<object, alive, wire>>
streamVars  == <<backlog, expected, deadline>>
cycleVars   == <<event, patch, plan, state, delay, fresh, result>>
historyVars == <<ended, resumed, excused>>
vars == <<object, alive, wire, backlog, memory, expected, deadline, throttled,
          phase, event, patch, plan, state, delay, fresh, result, due, budget,
          ended, resumed, excused>>

HandlerReasons == {"create", "update", "delete", "resume"}
Reasons == HandlerReasons \cup {"noop", "free", "gone"}

Never == -1   \* the version "...~which~never~arrives"

(***************************************************************************)
(* The persisted record of a handler.                                      *)
(***************************************************************************)
NoRecord == [status |-> "none", purpose |-> "none", retries |-> 0]
Record(status, purpose, retries) ==
  [status |-> status, purpose |-> purpose, retries |-> retries]
Finished(r) == r.status \in {"success", "failure"}

(***************************************************************************)
(* A patch: the merge part (progress records to store or to purge, the     *)
(* diffbase, the constant of the on-event handler, the removal of the      *)
(* dummy), and the last of its functions on the finalizer.                 *)
(***************************************************************************)
NoProgress == [h \in {} |-> NoRecord]
NoPatch == [progress |-> NoProgress, diffbase |-> 0, diffgen |-> 0,
            spied |-> FALSE, undummy |-> FALSE, fin |-> "keep"]
HasMerge(p) == DOMAIN p.progress # {} \/ p.diffbase # 0 \/ p.spied \/ p.undummy
IsEmpty(p) == ~HasMerge(p) /\ p.fin = "keep"

Forgotten == [known |-> FALSE, listed |-> FALSE, handled |-> FALSE,
              remaining |-> "keep"]

NewObject(e, d, f) ==
  [version |-> 1, gen |-> 1, essence |-> e, deleting |-> FALSE, finalizer |-> f,
   diffbase |-> d, diffgen |-> 0,
   progress |-> [h \in Handlers |-> NoRecord], spied |-> FALSE, dummy |-> FALSE]

Event(type, body) == [type |-> type, body |-> body]
NoEvent == Event("none", NewObject(0, 0, FALSE))

Init ==
  /\ \/ \E e \in Essences, t \in {"listed", "changed"} :
          /\ object = NewObject(e, 0, FALSE)
          /\ wire = <<Event(t, object)>>
     \/ \E e, d \in Essences, f \in BOOLEAN :
          /\ object = NewObject(e, d, f)
          /\ wire = <<Event("listed", object)>>
  /\ alive = TRUE
  /\ backlog = <<>> /\ expected = 0 /\ deadline = "none"
  /\ memory = Forgotten /\ throttled = FALSE
  /\ phase = "idle" /\ event = NoEvent
  /\ patch = NoPatch /\ plan = {} /\ state = NoProgress /\ delay = "none"
  /\ fresh = NoEvent.body /\ result = 0
  /\ due = {}
  /\ budget = [edits |-> MaxEdits, retries |-> MaxRetries, troubles |-> MaxTroubles]
  /\ ended = {} /\ resumed = {} /\ excused = {}

Spend(what) == /\ budget[what] > 0
               /\ budget' = [budget EXCEPT ![what] = @ - 1]

Befalls(trouble) == trouble \in Troubles /\ Spend("troubles")

-----------------------------------------------------------------------------
(* The cluster: a change of the object gets a version and makes an event.  *)

Commit(o) ==
  /\ object' = [o EXCEPT !.version = @ + 1]
  /\ wire' = Append(wire, Event("changed", object'))
  /\ UNCHANGED alive

Remove ==
  /\ alive' = FALSE
  /\ wire' = Append(wire, Event("DELETED", object))
  /\ UNCHANGED object

Edit ==
  /\ alive
  /\ Spend("edits")
  /\ \E e \in Essences \ {object.essence} :
       Commit([object EXCEPT !.essence = e, !.gen = @ + 1])
  /\ UNCHANGED <<streamVars, memory, throttled, phase, cycleVars, due, historyVars>>

RequestDeletion ==
  /\ alive /\ ~object.deleting
  /\ IF object.finalizer
       THEN Commit([object EXCEPT !.deleting = TRUE, !.gen = @ + 1])
       ELSE Remove
  /\ UNCHANGED <<streamVars, memory, throttled, phase, cycleVars, due, budget,
                 historyVars>>

DelayIsOver(h) ==
  /\ alive
  /\ object.progress[h].status = "retry"
  /\ h \notin due
  /\ due' = due \cup {h}
  /\ UNCHANGED <<clusterVars, streamVars, memory, throttled, phase, cycleVars,
                 budget, historyVars>>

-----------------------------------------------------------------------------
(* The watch-stream, its relisting, and the restart of the operator.       *)

Arrive ==
  /\ wire # <<>>
  /\ backlog' = Append(backlog, Head(wire))
  /\ wire' = Tail(wire)
  /\ UNCHANGED <<object, alive, memory, expected, deadline, throttled, phase,
                 cycleVars, due, budget, historyVars>>

Listing == IF alive THEN <<Event("listed", object)>> ELSE <<>>

Relist ==
  /\ Befalls("relist")
  /\ wire' = Listing
  /\ UNCHANGED <<object, alive, streamVars, memory, throttled, phase, cycleVars,
                 due, historyVars>>

(* History: who may be run again, since its record was only in the memory: *)
(* in a patch, or in the removal of a finalizer, which remains to be done. *)
Releasing(fin) == IF fin = "allow" THEN Deleting ELSE {}
Unsaved == {h \in DOMAIN state : /\ Finished(state[h])
                                 /\ ~Finished(event.body.progress[h])}

ResetCycle ==
  /\ event' = NoEvent /\ patch' = NoPatch /\ plan' = {} /\ state' = NoProgress
  /\ delay' = "none" /\ fresh' = NoEvent.body /\ result' = 0

Crash ==
  /\ Befalls("crash")
  /\ wire' = Listing
  /\ backlog' = <<>> /\ expected' = 0 /\ deadline' = "none"
  /\ memory' = Forgotten /\ throttled' = FALSE
  /\ phase' = "idle"
  /\ ResetCycle
  /\ resumed' = {}
  /\ excused' = excused \cup Unsaved \cup Releasing(patch.fin)
                        \cup Releasing(memory.remaining)
  /\ UNCHANGED <<object, alive, due, ended>>

-----------------------------------------------------------------------------
(* The worker takes an event, recalls the memory, and tracks the expected  *)
(* version; a throttled worker sleeps, and skips the event if others come. *)

Recalled(m, type) ==
  IF m.known THEN m ELSE [Forgotten EXCEPT !.known = TRUE, !.listed = type = "listed"]

TakeEvent ==
  /\ phase = "idle"
  /\ backlog # <<>>
  /\ LET e == Head(backlog)
         met == expected # 0 /\ expected = e.body.version
     IN /\ event' = e
        /\ expected' = IF met THEN 0 ELSE expected
        /\ deadline' = IF met THEN "none" ELSE deadline
        /\ memory' = IF e.type = "DELETED" THEN Forgotten
                     ELSE Recalled(memory, e.type)
  /\ backlog' = Tail(backlog)
  /\ phase' = IF throttled THEN "throttled" ELSE "detecting"
  /\ UNCHANGED <<clusterVars, throttled, patch, plan, state, delay, fresh, result,
                 due, budget, historyVars>>

\* If it strikes too early, any handler may be repeated with reason.
ConsistencyTimeout ==
  /\ deadline = "ahead"
  /\ phase \in {"idle", "inconsistent"}
  /\ deadline' = "over"
  /\ \/ /\ wire = <<>> /\ backlog = <<>>
        /\ UNCHANGED <<budget, excused>>
     \/ /\ wire # <<>> \/ backlog # <<>>
        /\ Befalls("haste")
        /\ excused' = Handlers
  /\ UNCHANGED <<clusterVars, backlog, memory, expected, throttled, phase, cycleVars,
                 due, ended, resumed>>

\* A worker idles until the consistency time at least, and forgets it by exiting.
WorkerExits ==
  /\ phase = "idle"
  /\ backlog = <<>>
  /\ deadline = "over"
  /\ expected' = 0 /\ deadline' = "none"
  /\ UNCHANGED <<clusterVars, backlog, memory, throttled, phase, cycleVars, due,
                 budget, historyVars>>

\* The end of the cycle: the version returned by the processor is expected next.
EndCycle(version) ==
  /\ phase' = "idle"
  /\ expected' = IF version # 0 THEN version ELSE expected
  /\ deadline' = IF version # 0 THEN "ahead" ELSE deadline
  /\ ResetCycle

SkipThrottled ==
  /\ phase = "throttled"
  /\ backlog # <<>>
  /\ EndCycle(0)
  /\ UNCHANGED <<clusterVars, backlog, memory, throttled, due, budget, historyVars>>

ThrottlingIsOver ==
  /\ phase = "throttled"
  /\ throttled' = FALSE
  /\ phase' = "detecting"
  /\ UNCHANGED <<clusterVars, streamVars, memory, cycleVars, due, budget, historyVars>>

BackoffIsOver ==
  /\ phase = "backoff"
  /\ \/ throttled' = FALSE
     \/ backlog # <<>> /\ UNCHANGED throttled
  /\ EndCycle(0)
  /\ UNCHANGED <<clusterVars, backlog, memory, due, budget, historyVars>>

-----------------------------------------------------------------------------
(* The cause of the cycle.                                                 *)

IsListed == memory.listed                                       \* a mutant

IsInitial == memory.listed /\ ~memory.handled

Reason ==                                          \* detect_changing_cause()
  LET b == event.body
  IN IF event.type = "DELETED"             THEN "gone"
     ELSE IF b.deleting /\ ~b.finalizer    THEN "free"
     ELSE IF b.deleting                    THEN "delete"
     ELSE IF b.diffbase = 0                THEN "create"
     ELSE IF b.diffbase # b.essence        THEN "update"
     ELSE IF IsInitial                     THEN "resume"
     ELSE "noop"

\* cause_handlers; resuming handlers with deleted=True are not modelled.
Selected ==
  CASE Reason = "create" -> Creating
    [] Reason = "update" -> Updating \cup (IF IsInitial THEN Resuming ELSE {})
    [] Reason = "resume" -> Resuming
    [] Reason = "delete" -> Deleting
    [] OTHER             -> {}

MustBeBlocked == event.body.essence \in Matching /\ Deleting # {}

Blocks == MustBeBlocked /\ ~event.body.finalizer /\ ~event.body.deleting
Frees  == ~MustBeBlocked /\ event.body.finalizer

HasCauseAlways == event.body.essence \in Matching               \* a mutant

HasCause == event.body.essence \in Matching /\ ~Blocks /\ ~Frees

\* The remaining patch, the low-level handlers, and the functions on the finalizer.
PatchOnEntry ==
  [NoPatch EXCEPT !.spied = Spying,
                  !.fin = IF Blocks THEN "block"
                          ELSE IF Frees THEN "allow"
                          ELSE memory.remaining]

IsConsistent == deadline = "none" \/ Reason = "gone"

WaitForConsistency ==
  /\ phase = "detecting"
  /\ HasCause /\ ~IsConsistent /\ IsEmpty(PatchOnEntry)
  /\ deadline = "ahead"
  /\ phase' = "inconsistent"
  /\ UNCHANGED <<clusterVars, streamVars, memory, throttled, cycleVars, due,
                 budget, historyVars>>

\* After the causes are processed: only an existing object is patched.
Apply(p, d) ==
  IF event.type = "DELETED"
    THEN EndCycle(0)
    ELSE /\ phase' = "patching"
         /\ patch' = [p EXCEPT !.undummy = ~IsEmpty(p) /\ event.body.dummy]
         /\ delay' = d
         /\ UNCHANGED <<event, plan, state, fresh, result, expected, deadline>>

\* No cause, or the object is inconsistent, or a patch remains from before.
SkipHandlers ==
  /\ phase = "detecting"
  /\ \/ ~HasCause
     \/ ~IsConsistent /\ ~IsEmpty(PatchOnEntry)
     \/ memory.remaining # "keep"
  /\ Apply(PatchOnEntry, "none")
  /\ UNCHANGED <<clusterVars, backlog, memory, throttled, due, budget, historyVars>>

\* The wait is interrupted by new events, or it is over.
AwakenedByEvents ==
  /\ phase = "inconsistent"
  /\ backlog # <<>>
  /\ EndCycle(0)
  /\ UNCHANGED <<clusterVars, backlog, memory, throttled, due, budget, historyVars>>

-----------------------------------------------------------------------------
(* The state of the handlers: what is stored with what is selected; the    *)
(* records of other purposes are re-purposed or purged.                    *)

Stored == {h \in Handlers : event.body.progress[h].status # "none"}
Active == IF Reason \in HandlerReasons THEN Selected ELSE {}

StartState ==
  [h \in (IF Reason \in HandlerReasons THEN Stored \cup Selected ELSE {}) |->
     IF h \notin Stored THEN Record("pending", Reason, 0)
     ELSE IF h \in Selected THEN [event.body.progress[h] EXCEPT !.purpose = Reason]
     ELSE event.body.progress[h]]

IgnoreExtras == FALSE                                           \* a mutant

HasExtras == \E h \in DOMAIN StartState : StartState[h].purpose # Reason

Purge(p) == [p EXCEPT !.progress = [h \in Stored |-> NoRecord]]

Awakened(h, st) == \/ st[h].status = "pending"
                   \/ st[h].status = "retry" /\ h \in due

\* The lifecycle selects one, some, or all of those that are awakened.
Plans(todo) == IF todo = {} THEN {{}} ELSE SUBSET todo \ {{}}

StartHandling ==
  /\ \/ /\ phase = "detecting"
        /\ HasCause
        /\ IsConsistent \/ (deadline = "over" /\ IsEmpty(PatchOnEntry))
        /\ memory.remaining = "keep"
     \/ phase = "inconsistent" /\ deadline = "over"
  /\ phase' = "handling"
  /\ state' = StartState
  /\ patch' = IF HasExtras THEN Purge(PatchOnEntry) ELSE PatchOnEntry
  /\ plan' \in Plans({h \in Active : Awakened(h, StartState)})
  /\ UNCHANGED <<clusterVars, streamVars, memory, throttled, event, delay, fresh,
                 result, due, budget, historyVars>>

\* One handler of the plan is run: it succeeds, fails, or is to be retried.
RunHandler(h, status) ==
  /\ phase = "handling"
  /\ h \in plan
  /\ plan' = plan \ {h}
  /\ state' = [state EXCEPT ![h] = Record(status, @.purpose, @.retries + 1)]
  /\ IF status = "retry"
       THEN /\ Spend("retries")
            /\ due' \in {due, due \ {h}}
            /\ UNCHANGED historyVars
       ELSE /\ UNCHANGED <<due, budget>>
            /\ ended' = ended \cup {<<h, Reason, event.body.gen>>}
            /\ resumed' = resumed \cup ({h} \cap Resuming)
            /\ excused' = excused \ {h}
  /\ UNCHANGED <<clusterVars, streamVars, memory, throttled, phase, event, patch,
                 delay, fresh, result>>

\* The outcomes are stored; when all are done, purged, and the essence is stored.
Unfinished == {h \in Active : ~Finished(state[h])}
IsDone == Reason \in HandlerReasons /\ Unfinished = {}

StoreUnfinished(p) ==                                           \* a mutant
  LET changed == {h \in DOMAIN state : /\ state[h] # event.body.progress[h]
                                       /\ ~Finished(state[h])}
  IN [p EXCEPT !.progress = [h \in changed |-> state[h]]]

StoreProgress(p) ==
  LET changed == {h \in DOMAIN state : state[h] # event.body.progress[h]}
  IN IF Active = {} THEN p
     ELSE IF IsDone THEN Purge(p)
     ELSE [p EXCEPT !.progress =
             [h \in changed \cup DOMAIN p.progress |->
                IF h \in changed THEN state[h] ELSE p.progress[h]]]

StoreFreshEssence(p) ==                                         \* a mutant
  IF IsDone THEN [p EXCEPT !.diffbase = object.essence, !.diffgen = object.gen] ELSE p

StoreEssence(p) ==
  IF IsDone /\ event.body.essence # event.body.diffbase
    THEN [p EXCEPT !.diffbase = event.body.essence, !.diffgen = event.body.gen]
    ELSE p

ReleaseAtOnce(p) ==                                             \* a mutant
  IF event.body.deleting /\ event.body.finalizer
    THEN [p EXCEPT !.fin = "allow"]
    ELSE p

Release(p) ==
  IF event.type # "DELETED" /\ event.body.deleting /\ event.body.finalizer
     /\ Unfinished = {}
    THEN [p EXCEPT !.fin = "allow"]
    ELSE p

Delay == IF Unfinished = {} THEN "none"
         ELSE IF \E h \in Unfinished : Awakened(h, state) THEN "zero"
         ELSE "some"

FinishHandling ==
  /\ phase = "handling"
  /\ plan = {}
  /\ memory' = [memory EXCEPT !.handled = @ \/ IsDone]
  /\ Apply(Release(StoreEssence(StoreProgress(patch))), Delay)
  /\ UNCHANGED <<clusterVars, backlog, throttled, due, budget, historyVars>>

-----------------------------------------------------------------------------
(* The application of the patch: the merge-patch, the JSON-patch, the      *)
(* sleep for the delays with a touch at its end.                           *)

Merged(o, p) ==
  [o EXCEPT !.progress = [h \in Handlers |-> IF h \in DOMAIN p.progress
                                               THEN p.progress[h] ELSE @[h]],
            !.diffbase = IF p.diffbase # 0 THEN p.diffbase ELSE @,
            !.diffgen  = IF p.diffbase # 0 THEN p.diffgen ELSE @,
            !.spied    = @ \/ p.spied,
            !.dummy    = @ /\ ~p.undummy]

\* The server makes no version and no event of a patch that changes nothing. The status
\* is not patched apart: with the default storages, only the results are in there.
PatchMerge ==
  /\ phase = "patching"
  /\ HasMerge(patch) /\ alive
  /\ LET o == Merged(object, patch)
     IN IF o = object THEN UNCHANGED clusterVars ELSE Commit(o)
  /\ phase' = "finalizing"
  /\ fresh' = object'
  /\ result' = object'.version
  /\ UNCHANGED <<streamVars, memory, throttled, event, patch, plan, state, delay, due,
                 budget, historyVars>>

NoPatchMerge ==
  /\ phase = "patching"
  /\ ~HasMerge(patch)
  /\ phase' = "finalizing"
  /\ fresh' = event.body
  /\ UNCHANGED <<clusterVars, streamVars, memory, throttled, event, patch, plan, state,
                 delay, result, due, budget, historyVars>>

NeverSleep(version) == EndCycle(version)                        \* a mutant

\* The delays are slept only if there was nothing to patch.
SleepOrEnd(version) ==
  IF IsEmpty(patch) /\ delay # "none"
    THEN /\ phase' = IF delay = "some" THEN "sleeping" ELSE "touching"
         /\ UNCHANGED <<cycleVars, expected, deadline>>
    ELSE EndCycle(version)

HasOps == \/ patch.fin = "allow" /\ fresh.finalizer
          \/ patch.fin = "block" /\ ~fresh.finalizer

NoPatchJSON ==
  /\ phase = "finalizing"
  /\ ~HasOps
  /\ memory' = [memory EXCEPT !.remaining = "keep"]
  /\ SleepOrEnd(result)
  /\ UNCHANGED <<clusterVars, backlog, throttled, due, budget, historyVars>>

\* The server tests the version, and adds no finalizers to what is being deleted.
IsAccepted == /\ fresh.version = object.version
              /\ ~(patch.fin = "block" /\ object.deleting)

ApplyFinalizer ==
  IF patch.fin = "block" THEN Commit([object EXCEPT !.finalizer = TRUE])
  ELSE IF object.deleting THEN Remove
  ELSE Commit([object EXCEPT !.finalizer = FALSE])

PatchJSON ==
  /\ phase = "finalizing"
  /\ HasOps /\ alive /\ IsAccepted
  /\ ApplyFinalizer
  /\ memory' = [memory EXCEPT !.remaining = "keep"]
  /\ EndCycle(IF alive' THEN object'.version ELSE Never)
  /\ UNCHANGED <<backlog, throttled, due, budget, historyVars>>

ConflictForgotten ==                                            \* a mutant
  /\ phase = "finalizing" /\ HasOps /\ alive /\ ~IsAccepted
  /\ memory' = [memory EXCEPT !.remaining = "keep"]
  /\ EndCycle(result)
  /\ UNCHANGED <<clusterVars, backlog, throttled, due, budget, historyVars>>

\* 422: the function remains for the next cycle.
PatchConflict ==
  /\ phase = "finalizing"
  /\ HasOps /\ alive /\ ~IsAccepted
  /\ memory' = [memory EXCEPT !.remaining = patch.fin]
  /\ EndCycle(result)
  /\ UNCHANGED <<clusterVars, backlog, throttled, due, budget, historyVars>>

\* The response is lost and the request is sent again, now with an old version.
PatchRepeated ==
  /\ phase = "finalizing"
  /\ HasOps /\ alive /\ IsAccepted
  /\ Befalls("loss")
  /\ ApplyFinalizer
  /\ memory' = [memory EXCEPT !.remaining = IF alive' THEN patch.fin ELSE "keep"]
  /\ EndCycle(IF alive' THEN result ELSE 0)
  /\ UNCHANGED <<backlog, throttled, due, historyVars>>

\* 404: the object is gone.
PatchNotFound ==
  /\ ~alive
  /\ \/ phase = "patching" /\ HasMerge(patch)
     \/ phase = "finalizing" /\ HasOps
  /\ memory' = [memory EXCEPT !.remaining = "keep"]
  /\ EndCycle(0)
  /\ UNCHANGED <<clusterVars, backlog, throttled, due, budget, historyVars>>

AwakenedInSleep ==
  /\ phase = "sleeping"
  /\ backlog # <<>>
  /\ EndCycle(0)
  /\ UNCHANGED <<clusterVars, backlog, memory, throttled, due, budget, historyVars>>

\* The delay is over, or the sleep was longer than WAITING_KEEPALIVE_INTERVAL.
SleepIsOver ==
  /\ phase = "sleeping"
  /\ \/ (\E h \in Unfinished : h \in due) /\ UNCHANGED budget
     \/ Spend("edits")
  /\ phase' = "touching"
  /\ UNCHANGED <<clusterVars, streamVars, memory, throttled, cycleVars, due, historyVars>>

Touch ==
  /\ phase = "touching"
  /\ IF alive THEN Commit([object EXCEPT !.dummy = TRUE]) ELSE UNCHANGED clusterVars
  /\ EndCycle(IF alive THEN object'.version ELSE 0)
  /\ UNCHANGED <<backlog, memory, throttled, due, budget, historyVars>>

\* A request fails for good: the error is throttled, the cycle is lost.
RequestFails ==
  /\ \/ phase = "patching" /\ HasMerge(patch)
     \/ phase = "finalizing" /\ HasOps
     \/ phase = "touching"
  /\ Befalls("failure")
  /\ throttled' = TRUE
  /\ phase' = "backoff"
  /\ excused' = excused \cup (IF phase = "patching" THEN Unsaved ELSE {})
                        \cup (IF memory.remaining = "allow" THEN {} ELSE Releasing(patch.fin))
  /\ UNCHANGED <<clusterVars, streamVars, memory, cycleVars, due, ended, resumed>>

-----------------------------------------------------------------------------
Operator ==
  \/ TakeEvent \/ WorkerExits \/ SkipThrottled \/ ThrottlingIsOver \/ BackoffIsOver
  \/ WaitForConsistency \/ SkipHandlers \/ AwakenedByEvents \/ StartHandling
  \/ \E h \in Handlers, status \in {"success", "failure", "retry"} :
       RunHandler(h, status)
  \/ FinishHandling
  \/ PatchMerge \/ NoPatchMerge \/ NoPatchJSON \/ PatchJSON \/ PatchConflict
  \/ PatchNotFound \/ AwakenedInSleep \/ SleepIsOver \/ Touch

Time == ConsistencyTimeout \/ \E h \in Handlers : DelayIsOver(h)

Trouble == Relist \/ Crash \/ PatchRepeated \/ RequestFails

Next == Operator \/ Time \/ Arrive \/ Edit \/ RequestDeletion \/ Trouble

Spec == Init /\ [][Next]_vars
FairSpec == Spec /\ WF_vars(Operator) /\ WF_vars(Arrive)
                 /\ WF_vars(ConsistencyTimeout)
                 /\ \A h \in Handlers : WF_vars(DelayIsOver(h))

-----------------------------------------------------------------------------
(* The types, and: a version is expected exactly while there is a deadline,*)
(* and it is not a version that the object has not reached yet.            *)
Progress == [Handlers -> [status : {"none", "pending", "retry", "success", "failure"},
                          purpose : HandlerReasons \cup {"none"}, retries : Nat]]

TypeOK ==
  /\ object.progress \in Progress
  /\ object.diffbase \in Essences \cup {0}
  /\ object.essence \in Essences
  /\ expected \in Nat \cup {Never} /\ expected <= object.version
  /\ deadline \in {"none", "ahead", "over"}
  /\ (expected = 0) = (deadline = "none")
  /\ phase \in {"idle", "throttled", "detecting", "inconsistent", "handling",
                "patching", "finalizing", "sleeping", "touching", "backoff"}
  /\ plan \subseteq DOMAIN state
  /\ memory.remaining \in {"keep", "block", "allow"}
  /\ ended \subseteq Handlers \X HandlerReasons \X (1..object.gen)

(***************************************************************************)
(* What must be done when nobody changes the object any more: the last     *)
(* essence is handled, the deletion is completed, the finalizer is there   *)
(* if and only if it is needed, and the object is resumed.  It is what the *)
(* sleeps, the touches and the consistency wait are for.                   *)
(***************************************************************************)
Settled == /\ ~object.deleting
           /\ object.essence \in Matching => object.diffbase = object.essence
           /\ object.finalizer = (object.essence \in Matching /\ Deleting # {})
           /\ (memory.listed /\ object.essence \in Matching) => memory.handled

\* The worker never rests with work undone: once it waits for events and none is on
\* its way, all that must be done for the object is done. Each cycle that is left
\* early is left for an event, a retry or a touch that does come.
Quiet == phase = "idle" /\ wire = <<>> /\ backlog = <<>>
RestIsSettled == Quiet /\ alive => Settled

Ran(h) == phase = "handling" /\ phase' = "handling" /\ h \in plan /\ h \notin plan'

\* No handler is run again for a creation or for a change for which it has
\* finished, though the events come late; unless a crash, a failed request or a
\* premature timeout has kept the record from the operator ("excused"), or the
\* object is gone, and a re-listing has lost the event of that.
ChangeIsNotRepeated ==
  [][\A h \in Handlers :
       Ran(h) /\ alive /\ h \notin excused /\ Reason \in {"create", "update"} =>
         \A r \in ended : (r[1] = h /\ r[2] = Reason) =>
                            (Reason = "update" /\ r[3] # event.body.gen)]_vars

\* The same for the deletion, whose record may be only in the memory: in the
\* function on the finalizer that remains to be applied after a conflict.
DeletionIsNotRepeated ==
  [][\A h \in Handlers : Ran(h) /\ alive /\ h \notin excused /\ Reason = "delete" =>
       ~ \E r \in ended : r[1] = h /\ r[2] = "delete"]_vars

\* A handler which is for nothing but resuming is run to its end at most once in
\* an operator's lifetime.
OnlyResuming == Resuming \ UNION {Creating, Updating, Deleting}
ResumedOnce ==
  [][\A h \in OnlyResuming : Ran(h) /\ alive /\ h \notin excused => h \notin resumed]_vars

\* All the records in the object are of one purpose: the progress of superseded
\* causes is re-purposed or purged in the patch which stores the new progress.
OnePurpose ==
  \A g, h \in Handlers :
    object.progress[g].status # "none" /\ object.progress[h].status # "none"
      => object.progress[g].purpose = object.progress[h].purpose

\* An object whose deletion was blocked is released only after all its deletion
\* handlers have finished; if it has always matched the filters. One that mismatches
\* is rightly released; if it matches again then, what is left over from that releases
\* it once more (README, section 4).
AlwaysMatches == Matching = Essences
Released == alive /\ ~alive' /\ AlwaysMatches
DeletionHandlersEnded ==
  \A h \in Deleting : \E r \in ended : r[1] = h /\ r[2] = "delete"

DeletionIsHandled ==
  [][Released /\ object.deleting => DeletionHandlersEnded]_vars

\* An object which always matches, and for which any handler has finished, does not go
\* away before its deletion handlers have finished: the finalizer precedes all handlers.
HandledIsProtected ==
  [][Released /\ ended # {} => DeletionHandlersEnded]_vars

\* No essence is stored as the last handled before every handler that is both for
\* creation and for updates has finished since the previous one was stored, and
\* for an essence which is not newer: so none of them is left out when a change
\* is declared handled.
AlwaysChanging == (Creating \cap Updating) \ Resuming
LastHandledIsSeen ==
  [][object'.diffgen # object.diffgen /\ ~object.deleting =>
       \A h \in AlwaysChanging : \E r \in ended :
         r[1] = h /\ object.diffgen < r[3] /\ r[3] <= object'.diffgen]_vars

\* Once the edits, the temporary errors and the crashes are over, the object is
\* settled, or gone; so one that is being deleted is gone at last.
EventuallySettled == <>[](alive => Settled)
=============================================================================
