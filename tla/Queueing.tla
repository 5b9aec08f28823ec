------------------------------ MODULE Queueing ------------------------------
(***************************************************************************)
(* The multiplexer of watch-events of kopf/_core/reactor/queueing.py, with *)
(* the scheduler of kopf/_cogs/aiokits/aiotasks.py which runs its workers. *)
(*                                                                         *)
(* One watcher receives the events of all objects of one resource kind and *)
(* puts each into the stream (a backlog and a pressure flag) of its        *)
(* object; one worker per object takes them out and calls the processor.   *)
(* A worker which idles for too long removes its stream and exits; the     *)
(* next event of that object makes a new stream and a new worker.  The     *)
(* scheduler runs at most Limit workers, the others wait in its queue.     *)
(*                                                                         *)
(* A step is what the code does between two points where the event loop    *)
(* may switch tasks.  The locks of both conditions are never held across   *)
(* such a point, so that acquiring them never suspends.  Time is left out: *)
(* a timeout may strike whenever the code waits under it.                  *)
(***************************************************************************)
EXTENDS Integers, Sequences, FiniteSets, SequencesExt

CONSTANTS
  Keys,        \* the objects of the kind (ObjectRef)
  Workers,     \* names of worker tasks; one is reused when its task is gone
  NoWorker,    \* "no stream for this key"
  Limit,       \* settings.queueing.worker_limit
  MaxEvents    \* bound: how many events one object gets

ASSUME QueueingAssumption ==
  /\ NoWorker \notin Workers
  /\ Limit \in Nat \ {0}
  /\ MaxEvents \in Nat
  /\ IsFiniteSet(Workers)

VARIABLES
  phase,       \* where the watcher is: streaming, ..., closed
  outcome,     \* what the watcher ends with, decided when it unwinds
  workerError, \* worker_error is not None
  forced,      \* history: the depletion has ended by its timeout
  sent,        \* history: sent[k] is the number of k's last event
  handled,     \* history: handled[k] is the last event of k processed
  streams,     \* the dict of streams; a stream has the name of its worker
  backlog,     \* backlog[w]: the backlog of the stream of w
  pressure,    \* pressure[w]: the pressure flag of the stream of w
  job,         \* job[w]: where the task w is
  keyOf,       \* keyOf[w]: the key that the worker w serves
  event,       \* event[w]: the event given to the processor, or 0
  cancelled,   \* the tasks whose cancellation is requested
  pending,     \* Scheduler._pending_coros
  notified     \* who waits on a condition and has been notified

watcherVars   == <<phase, outcome, workerError, forced>>
streamVars    == <<streams, backlog, pressure>>
schedulerVars == <<cancelled, pending, notified>>
vars == <<phase, outcome, workerError, forced, sent, handled, streams,
          backlog, pressure, job, keyOf, event, cancelled, pending, notified>>

EOS == 0   \* the end-of-stream marker; the events are numbered from 1

(***************************************************************************)
(* A task: not existing, a pending coroutine, created but not started,     *)
(* waiting for an event, hit by the idle timeout, in the processor,        *)
(* returned or raised, and waiting for the scheduler's cleaner.            *)
(***************************************************************************)
RunningStates == {"created", "idle", "timedout", "processing", "ended", "failed"}
JobStates     == {"free", "pending", "cleaning"} \cup RunningStates
LiveStates    == {"pending", "created", "idle", "timedout", "processing"}
Phases        == {"streaming", "cancelled", "raised", "depleting", "closing",
                  "waiting", "closed"}
Waiters       == {"spawner", "depletion", "closer"}

Running == {w \in Workers : job[w] \in RunningStates}   \* _running_tasks

SchedulerEmpty == pending = <<>> /\ Running = {}
SchedulerClosed == phase \in {"waiting", "closed"}      \* Scheduler._closed

Init ==
  /\ phase = "streaming" /\ outcome = "none"
  /\ workerError = FALSE /\ forced = FALSE
  /\ sent = [k \in Keys |-> 0]
  /\ handled = [k \in Keys |-> 0]
  /\ streams = [k \in Keys |-> NoWorker]
  /\ backlog = [w \in Workers |-> <<>>]
  /\ pressure = [w \in Workers |-> FALSE]
  /\ job = [w \in Workers |-> "free"]
  /\ keyOf \in [Workers -> Keys] /\ \A v, w \in Workers : keyOf[v] = keyOf[w]
  /\ event = [w \in Workers |-> 0]
  /\ cancelled = {}
  /\ pending = <<>>
  /\ notified = {}

-----------------------------------------------------------------------------
(* The watcher: an event for an object with a stream, and without one.     *)

HasBusyStream(k) ==                                             \* a mutant
  streams[k] # NoWorker /\ backlog[streams[k]] # <<>>

HasStream(k) == streams[k] # NoWorker

PressureOnArrival(w) == pressure' = [pressure EXCEPT ![w] = TRUE]

ReceiveKnown(k) ==
  /\ phase = "streaming"
  /\ sent[k] < MaxEvents
  /\ HasStream(k)
  /\ sent' = [sent EXCEPT ![k] = @ + 1]
  /\ PressureOnArrival(streams[k])
  /\ backlog' = [backlog EXCEPT ![streams[k]] = Append(@, sent[k] + 1)]
  /\ UNCHANGED <<watcherVars, schedulerVars, handled, streams, job, keyOf, event>>

ReceiveNew(k, w) ==
  /\ phase = "streaming"
  /\ sent[k] < MaxEvents
  /\ ~HasStream(k)
  /\ job[w] = "free"
  /\ sent' = [sent EXCEPT ![k] = @ + 1]
  /\ streams' = [streams EXCEPT ![k] = w]
  /\ backlog' = [backlog EXCEPT ![w] = <<sent[k] + 1>>]
  /\ PressureOnArrival(w)
  /\ keyOf' = [keyOf EXCEPT ![w] = k]
  /\ job' = [job EXCEPT ![w] = "pending"]
  /\ pending' = Append(pending, w)
  /\ notified' = notified \cup {"spawner"}
  /\ UNCHANGED <<watcherVars, handled, event, cancelled>>

-----------------------------------------------------------------------------
(* The worker: one object, one event at a time.                            *)

StartWorker(w) ==
  /\ job[w] = "created" /\ w \notin cancelled
  /\ job' = [job EXCEPT ![w] = "idle"]
  /\ UNCHANGED <<watcherVars, streamVars, schedulerVars, sent, handled, keyOf, event>>

SignalDepletion ==
  notified' = IF phase = "depleting" THEN notified \cup {"depletion"} ELSE notified

DropStream(w) == streams' = [streams EXCEPT ![keyOf[w]] = NoWorker]

(***************************************************************************)
(* The finally-block of a worker: the stream is dropped from the dict, and *)
(* the depletion routine is notified.  It runs in the same step as what    *)
(* has left the loop: nothing can be put into the backlog in between.      *)
(***************************************************************************)
LeaveStream(w, result) ==
  /\ job' = [job EXCEPT ![w] = result]
  /\ event' = [event EXCEPT ![w] = 0]
  /\ DropStream(w)
  /\ SignalDepletion
  /\ UNCHANGED <<watcherVars, sent, backlog, pressure, keyOf, cancelled, pending>>

RelieveAlways(w) == FALSE                                       \* a mutant

(* Does the processor see the pressure of the events behind this one?      *)
MoreEvents(w) == Tail(backlog[w]) # <<>>

TakeEvent(w) ==
  /\ job[w] = "idle" /\ w \notin cancelled
  /\ backlog[w] # <<>> /\ Head(backlog[w]) # EOS
  /\ event' = [event EXCEPT ![w] = Head(backlog[w])]
  /\ backlog' = [backlog EXCEPT ![w] = Tail(@)]
  /\ pressure' = [pressure EXCEPT ![w] = @ /\ MoreEvents(w)]
  /\ job' = [job EXCEPT ![w] = "processing"]
  /\ UNCHANGED <<watcherVars, schedulerVars, sent, handled, streams, keyOf>>

TakeEOS(w) ==
  /\ job[w] = "idle" /\ w \notin cancelled
  /\ backlog[w] # <<>> /\ Head(backlog[w]) = EOS
  /\ LeaveStream(w, "ended")
  /\ UNCHANGED handled

(***************************************************************************)
(* The idle timeout strikes while the worker waits for an event: the loop  *)
(* marks the task, and the task sees it when it runs next.  In between,    *)
(* the watcher may have put an event.  (Striking after the put and before  *)
(* the task runs gives the same.)  The timeout is extended to the time of  *)
(* consistency, which, with no clock here, changes nothing.                *)
(***************************************************************************)
IdleTimeout(w) ==
  /\ job[w] = "idle" /\ w \notin cancelled
  /\ backlog[w] = <<>>
  /\ job' = [job EXCEPT ![w] = "timedout"]
  /\ UNCHANGED <<watcherVars, streamVars, schedulerVars, sent, handled, keyOf, event>>

ExitsRegardless(w) == TRUE                                      \* a mutant

(* The double-check of the queue after the timeout.                        *)
TrulyIdle(w) == backlog[w] = <<>>

ExitIdle(w) ==
  /\ job[w] = "timedout" /\ w \notin cancelled
  /\ TrulyIdle(w)
  /\ LeaveStream(w, "ended")
  /\ UNCHANGED handled

ContinueAfterTimeout(w) ==
  /\ job[w] = "timedout" /\ w \notin cancelled
  /\ ~TrulyIdle(w)
  /\ job' = [job EXCEPT ![w] = "idle"]
  /\ UNCHANGED <<watcherVars, streamVars, schedulerVars, sent, handled, keyOf, event>>

(* The processor returns, or raises what it cannot handle.                 *)
FinishEvent(w) ==
  /\ job[w] = "processing" /\ w \notin cancelled
  /\ handled' = [handled EXCEPT ![keyOf[w]] = event[w]]
  /\ event' = [event EXCEPT ![w] = 0]
  /\ job' = [job EXCEPT ![w] = "idle"]
  /\ UNCHANGED <<watcherVars, streamVars, schedulerVars, sent, keyOf>>

FailEvent(w) ==
  /\ job[w] = "processing" /\ w \notin cancelled
  /\ LeaveStream(w, "failed")
  /\ UNCHANGED handled

(* A cancelled task: its finally-block runs only if it has ever started.   *)
CancelStarted(w) ==
  /\ job[w] \in {"idle", "timedout", "processing"} /\ w \in cancelled
  /\ LeaveStream(w, "ended")
  /\ UNCHANGED handled

CancelUnstarted(w) ==
  /\ job[w] = "created" /\ w \in cancelled
  /\ job' = [job EXCEPT ![w] = "ended"]
  /\ UNCHANGED <<watcherVars, streamVars, schedulerVars, sent, handled, keyOf, event>>

-----------------------------------------------------------------------------
(* The scheduler: its spawner, its done-callback, its cleaner.             *)

Capacity == Limit - Cardinality(Running)

SpawnerRuns ==
  LET n == IF Capacity < Len(pending) THEN Capacity ELSE Len(pending)
      spawned == {pending[i] : i \in 1..n}
  IN /\ "spawner" \in notified
     /\ phase # "closed"
     /\ job' = [w \in Workers |-> IF w \in spawned THEN "created" ELSE job[w]]
     /\ cancelled' = IF SchedulerClosed THEN cancelled \cup spawned ELSE cancelled
     /\ pending' = SubSeq(pending, n + 1, Len(pending))
     /\ notified' = notified \ {"spawner"}
     /\ UNCHANGED <<watcherVars, streamVars, sent, handled, keyOf, event>>

IgnoreFailure(w) == UNCHANGED <<phase, workerError>>            \* a mutant

(* exception_handler(): remember the first error and cancel the watcher,   *)
(* which ignores the cancellation if it is unwinding already.              *)
EscalateFailure(w) ==
  IF job[w] = "failed" /\ ~workerError
  THEN /\ workerError' = TRUE
       /\ phase' = IF phase = "streaming" THEN "cancelled" ELSE phase
  ELSE UNCHANGED <<phase, workerError>>

TaskDone(w) ==
  /\ job[w] \in {"ended", "failed"}
  /\ job' = [job EXCEPT ![w] = "cleaning"]
  /\ EscalateFailure(w)
  /\ UNCHANGED <<outcome, forced, streamVars, schedulerVars, sent, handled, keyOf, event>>

ForgetSpawner(w) == notified' = notified \cup {"closer"}        \* a mutant

ForgetCloser(w) == notified' = notified \cup {"spawner"}        \* a mutant

NotifyAll(w) ==
  notified' = notified \cup {"spawner"}
                       \cup (IF SchedulerClosed THEN {"closer"} ELSE {})

CleanerRuns(w) ==
  /\ job[w] = "cleaning"
  /\ phase # "closed"
  /\ job' = [job EXCEPT ![w] = "free"]
  /\ cancelled' = cancelled \ {w}
  /\ NotifyAll(w)
  /\ UNCHANGED <<watcherVars, streamVars, sent, handled, keyOf, event, pending>>

-----------------------------------------------------------------------------
(* The end of the watcher.                                                 *)

(* The operator cancels the watcher, or the watch-stream raises an error.  *)
StopWatcher ==
  /\ phase = "streaming"
  /\ phase' \in {"cancelled", "raised"}
  /\ UNCHANGED <<outcome, workerError, forced, sent, handled, streamVars,
                 job, keyOf, event, schedulerVars>>

MisplacedEOS(w) == <<EOS>> \o backlog[w]                        \* a mutant

WithEOS(w) == Append(backlog[w], EOS)

(* The except-clause, then EOS for every stream; the depletion task checks *)
(* whether there is anything to wait for as soon as it runs.               *)

StartDepletion ==
  /\ phase \in {"cancelled", "raised"}
  /\ phase' = "depleting"
  /\ outcome' = IF phase = "raised" THEN "stream_error"
                ELSE IF workerError THEN "runtime_error" ELSE "cancelled"
  /\ backlog' = [w \in Workers |->
                   IF \E k \in Keys : streams[k] = w THEN WithEOS(w) ELSE backlog[w]]
  /\ notified' = notified \cup {"depletion"}
  /\ UNCHANGED <<workerError, forced, sent, handled, streams, pressure,
                 job, keyOf, event, cancelled, pending>>

Depleted == (\A k \in Keys : streams[k] = NoWorker) \/ SchedulerEmpty

CheckDepletion ==
  /\ phase = "depleting"
  /\ "depletion" \in notified
  /\ phase' = IF Depleted THEN "closing" ELSE phase
  /\ notified' = notified \ {"depletion"}
  /\ UNCHANGED <<outcome, workerError, forced, sent, handled, streamVars,
                 job, keyOf, event, cancelled, pending>>

DepletionTimeout ==
  /\ phase = "depleting"
  /\ phase' = "closing"
  /\ forced' = TRUE
  /\ notified' = notified \ {"depletion"}
  /\ UNCHANGED <<outcome, workerError, sent, handled, streamVars,
                 job, keyOf, event, cancelled, pending>>

(* Scheduler.close(): cancel what runs, then wait until nothing is left.   *)
CloseScheduler ==
  /\ phase = "closing"
  /\ phase' = "waiting"
  /\ cancelled' = cancelled \cup Running
  /\ notified' = notified \cup {"closer"}
  /\ UNCHANGED <<outcome, workerError, forced, sent, handled, streamVars,
                 job, keyOf, event, pending>>

CheckClosed ==
  /\ phase = "waiting"
  /\ "closer" \in notified
  /\ phase' = IF SchedulerEmpty THEN "closed" ELSE phase
  /\ notified' = notified \ {"closer"}
  /\ UNCHANGED <<outcome, workerError, forced, sent, handled, streamVars,
                 job, keyOf, event, cancelled, pending>>

Terminated == phase = "closed" /\ UNCHANGED vars

-----------------------------------------------------------------------------
WorkerStep(w) ==
  \/ StartWorker(w) \/ TakeEvent(w) \/ TakeEOS(w)
  \/ IdleTimeout(w) \/ ExitIdle(w) \/ ContinueAfterTimeout(w)
  \/ FinishEvent(w) \/ CancelStarted(w) \/ CancelUnstarted(w)

SchedulerStep(w) == TaskDone(w) \/ CleanerRuns(w)

Unwind ==
  \/ StartDepletion \/ CheckDepletion \/ DepletionTimeout
  \/ CloseScheduler \/ CheckClosed

Next ==
  \/ \E k \in Keys : ReceiveKnown(k)
  \/ \E k \in Keys, w \in Workers : ReceiveNew(k, w)
  \/ \E w \in Workers : WorkerStep(w)
  \/ \E w \in Workers : FailEvent(w)
  \/ \E w \in Workers : SchedulerStep(w)
  \/ SpawnerRuns
  \/ StopWatcher
  \/ Unwind
  \/ Terminated

Spec == Init /\ [][Next]_vars

(***************************************************************************)
(* Every task which the event loop can run is eventually run, timers go    *)
(* off, and a processor eventually returns.  Events need not arrive, the   *)
(* processor need not fail, and the operator need not be stopped.          *)
(***************************************************************************)
Fairness ==
  /\ \A w \in Workers : WF_vars(WorkerStep(w)) /\ WF_vars(SchedulerStep(w))
  /\ WF_vars(SpawnerRuns)
  /\ WF_vars(Unwind)

FairSpec == Spec /\ Fairness

-----------------------------------------------------------------------------
(* Properties.                                                             *)

TypeOK ==
  /\ phase \in Phases
  /\ outcome \in {"none", "cancelled", "runtime_error", "stream_error"}
  /\ workerError \in BOOLEAN /\ forced \in BOOLEAN
  /\ sent \in [Keys -> Nat]
  /\ handled \in [Keys -> Nat]
  /\ streams \in [Keys -> Workers \cup {NoWorker}]
  /\ backlog \in [Workers -> Seq(Nat)]
  /\ pressure \in [Workers -> BOOLEAN]
  /\ job \in [Workers -> JobStates]
  /\ keyOf \in [Workers -> Keys]
  /\ event \in [Workers -> Nat]
  /\ cancelled \in SUBSET Workers
  /\ pending \in Seq(Workers)
  /\ notified \in SUBSET Waiters

(***************************************************************************)
(* One single object is handled sequentially: no two tasks are ever in the *)
(* processor for the same key, although a worker exits and another is made *)
(* for the key while tasks are pending, timed out and cleaned up.          *)
(***************************************************************************)
Serialized ==
  \A v, w \in Workers :
    v # w /\ job[v] = "processing" /\ job[w] = "processing" => keyOf[v] # keyOf[w]

NoFailure == ~workerError /\ \A w \in Workers : job[w] # "failed"

Current(k) == IF streams[k] = NoWorker THEN 0 ELSE event[streams[k]]

Waiting(k) ==
  LET b == backlog[streams[k]]
  IN IF streams[k] = NoWorker \/ b = <<>> THEN <<>>
     ELSE IF Last(b) = EOS THEN Front(b) ELSE b

Undelivered(k) ==
  (IF Current(k) = 0 THEN <<>> ELSE <<Current(k)>>) \o Waiting(k)

(***************************************************************************)
(* While the operator serves, the events of an object which are not        *)
(* handled yet are exactly those in its stream, in the order of arrival: a *)
(* worker which exits on the idle timeout never takes an event with it.    *)
(***************************************************************************)
NothingLost ==
  phase = "streaming" /\ NoFailure =>
    \A k \in Keys :
      Undelivered(k) = [i \in 1..(sent[k] - handled[k]) |-> handled[k] + i]

(***************************************************************************)
(* A stream in the dict has a worker which will take its events out: the   *)
(* "queue must not be left in the queue-cache without a corresponding job" *)
(* (until the scheduler is closed and cancels workers before their start). *)
(***************************************************************************)
EveryStreamIsServed ==
  ~SchedulerClosed =>
    \A k \in Keys : streams[k] # NoWorker => job[streams[k]] \in LiveStates

(***************************************************************************)
(* A processor which sleeps is to be woken up by the pressure: as long as  *)
(* there is an event behind the one it processes, the flag is up.          *)
(***************************************************************************)
PressureIsHonest ==
  \A k \in Keys : Waiting(k) # <<>> => pressure[streams[k]]

(* Never more worker tasks at once than the limit, closing included.       *)
WithinLimit == Cardinality(Running) <= Limit

(***************************************************************************)
(* An exit which is neither forced by the timeout nor spoiled by a failure *)
(* leaves no received event unhandled: EOS is the last thing in a stream.  *)
(***************************************************************************)
GracefulDepletion ==
  phase \in {"closing", "waiting", "closed"} /\ ~forced /\ NoFailure => handled = sent

(***************************************************************************)
(* Every event is eventually handled while the operator serves, with any   *)
(* limit of workers: those beyond it get their turn as others idle out.    *)
(***************************************************************************)
EventuallyHandled ==
  \A k \in Keys : \A n \in 1..MaxEvents :
    (sent[k] >= n) ~> (handled[k] >= n \/ phase # "streaming" \/ ~NoFailure)

(***************************************************************************)
(* A worker's failure stops the watcher, which may wait for an event that  *)
(* never comes; and the watcher ends with the error of the worker, if this *)
(* has been told before it begins to unwind, whatever else has cancelled   *)
(* it.  This is where the escalation ends: nobody awaits the watcher of a  *)
(* resource, so the operator goes on without it, though it should stop by  *)
(* the comment at _core/reactor/queueing.py:158 (README, section 4).       *)
(***************************************************************************)
FailureStopsWatcher ==
  /\ (phase = "streaming" /\ ~NoFailure) ~> (phase = "closed")
  /\ (phase = "cancelled" /\ workerError) ~> (phase = "closed" /\ outcome = "runtime_error")

(* Once the watcher unwinds, it gets to the end: no wake-up is missed.     *)
ShutdownTerminates == (phase # "streaming") ~> (phase = "closed")

(***************************************************************************)
(* The safety side of that, and of the turns of those in the queue of the  *)
(* scheduler: whoever waits on a condition which holds by now has been     *)
(* notified, or the cleaner of a finished task is still to notify them.    *)
(***************************************************************************)
IsCleaning == \E w \in Workers : job[w] = "cleaning"
NoWakeUpIsMissed ==
  /\ pending # <<>> /\ Capacity > 0 => "spawner" \in notified \/ IsCleaning
  /\ phase = "depleting" /\ Depleted => "depletion" \in notified
  /\ phase = "waiting" /\ SchedulerEmpty => "closer" \in notified \/ IsCleaning

(***************************************************************************)
(* A scheduler which is closed waits only for tasks which are cancelled,   *)
(* those spawned meanwhile included; and there is always somebody to go on *)
(* until it has got to its end.                                            *)
(***************************************************************************)
ClosingGoesOn ==
  /\ SchedulerClosed => Running \subseteq cancelled
  /\ phase = "waiting" =>
       {"closer", "spawner"} \cap notified # {} \/ Running # {} \/ IsCleaning

(***************************************************************************)
(* The multiplexer implements the streams per object.                      *)
(***************************************************************************)
Streams == INSTANCE ObjectStreams WITH
             serving <- phase = "streaming" /\ NoFailure,
             queue   <- [k \in Keys |-> Waiting(k)],
             current <- [k \in Keys |-> Current(k)]

ImplementsStreams == Streams!Spec
=============================================================================
